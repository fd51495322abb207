------------------------ MODULE LwlibavDecoderProofs ------------------------
(***************************************************************************)
(* The safety of LwlibavDecoder: the types of its variables on every       *)
(* stream, and on a sound one everything it promises, for every number of  *)
(* pictures, every order of coding the rules of the codings allow and      *)
(* every decoder.                                                          *)
(*                                                                         *)
(* The argument is one about counting.  A decoder that holds H pictures    *)
(* back, opened at a random accessible point shown as picture s, puts out  *)
(* nothing up to packet s + H - 1, and then with packet c picture c - H:   *)
(* fewer pictures than that have reached it before (HoldsFew), more after  *)
(* (HoldsMany), and picture c - H is among them (Arrives).  So the delay   *)
(* the frame server estimates settles at H, and each of its numbers says   *)
(* how far it has come: SoundInv.                                          *)
(***************************************************************************)
EXTENDS LwlibavDecoder, TLAPS, FiniteSetTheorems, FunctionTheorems, WellFoundedInduction

(***************************************************************************)
(* The decoder on a sound stream                                           *)
(***************************************************************************)
H == stream.held

\* The number a picture leaves the decoder with.
Numbered == Reordered \/ stream.dts_based
Own(p) == IF Numbered THEN p ELSE 0
Buffer(d) == [picture |-> stream.shows[d], id |-> Own(stream.shows[d])]
Held(W) == {Buffer(d) : d \in W}

\* What a decoder opened at point r holds after packet c; behind the last packet
\* each step of c stands for a picture flushed.
Waiting(r, c) == {d \in Numbers : d <= c /\ stream.shows[d] >= stream.shows[r] /\ stream.shows[d] > c - H}

Running(r, c) == /\ r \in stream.key /\ r <= c
                 /\ libav.begin = r /\ libav.next = Min2(c, P) + 1
                 /\ libav.held = Held(Waiting(r, c))

\* After step c the picture that is due is in the output buffer.
Settled(c) ==
  /\ Running(libav.begin, c) /\ stream.shows[libav.begin] + H <= c
  /\ frame.picture = c - H /\ frame.id # c - H + 1
  /\ vdhp.delay_count = H /\ vdhp.has_dec_frame
  /\ vdhp.last_fed = c /\ vdhp.last_rap <= c

Remembered == vdhp.last_frame \in Numbers =>
  /\ Settled(vdhp.last_fed) /\ vdhp.last_frame = vdhp.last_fed - H
  /\ vdhp.last_frame >= vdhp.first_valid

Wanted == call.picture \in Numbers /\ call.picture >= vdhp.first_valid

(* A seek: the decoder has been opened, the point been fed, and the leading*)
(* pictures lost are before the point.                                     *)
Fresh(r) == /\ libav.held = {} /\ libav.begin = 0
            /\ libav.next <= r /\ (~stream.dts_based => libav.next = r)

Underway(r) ==
  /\ r < call.current /\ call.current <= P + 1
  /\ Running(r, call.current - 1)
  /\ vdhp.last_rap < call.current /\ vdhp.last_fed = call.current - 1
  /\ Reordered /\ (\A k \in stream.key : r < k => call.current <= k) => call.rap_pts = stream.shows[r]

NotYet == /\ ~call.ready /\ call.delay = stream.announced
          /\ call.goal = call.picture + stream.announced

ComingOut(c) ==
  /\ call.ready /\ call.delay = H /\ vdhp.has_dec_frame
  /\ frame.picture = c - H /\ frame.id = Own(c - H)
  /\ call.goal >= call.picture + H
  /\ IF Numbered THEN c < call.picture + H
     ELSE c <= call.picture + H /\ call.goal = call.picture + H

Seeking ==
  /\ Wanted /\ call.rap \in stream.key /\ stream.shows[call.rap] <= call.picture
  /\ IF call.current = call.rap THEN Fresh(call.rap) ELSE Underway(call.rap)
  /\ IF call.current <= stream.shows[call.rap] + H THEN NotYet ELSE ComingOut(call.current - 1)

Getting ==
  /\ Wanted /\ Settled(call.current - 1) /\ call.rap < call.current
  /\ call.goal = call.picture + H
  /\ call.current <= call.goal + 1
  /\ call.current = call.goal + 1 => call.got

SoundInv ==
  /\ vdhp.first_valid = stream.shows[1]
  /\ call.errors = 0 /\ vdhp.delay_count >= 0
  /\ call.at \in {"idle", "asked", "seek", "get", "flush"}
  /\ call.at \in {"idle", "asked"} => Remembered
  /\ Idle /\ answer.ok => answer.shown = Promised(answer.picture)
  /\ call.at = "asked" => call.picture \in Numbers
  /\ call.at = "seek" => Seeking
  /\ call.at \in {"get", "flush"} => Getting
  /\ call.at = "flush" => P < call.current /\ H > 0

(***************************************************************************)
(* The types, on every stream                                              *)
(***************************************************************************)
StreamKept == stream \in Streams

\* A request in hand has a picture and a point to start from; where the seek has
\* no position, the point is the beginning.
InHand ==
  /\ ~Idle => call.picture \in Numbers
  /\ call.at \in {"idle", "asked"} => call.rap_pos = UNSET /\ call.errors = 0
  /\ call.mode # "aggressive" => call.errors <= MAX_ERROR_COUNT
  /\ call.rap_pos # UNSET => call.rap \in stream.key
  /\ call.rap_pos = UNSET /\ (call.at = "seek" \/ call.errors > 0) => call.rap <= 1

\* Where a seek is corrected to the point (Corrects), the point is a packet: its number
\* has not been counted behind the end of the stream.
InStep ==
  /\ vdhp.last_rap <= P \/ vdhp.last_rap <= vdhp.last_fed
  /\ call.rap_pos # UNSET => vdhp.last_rap <= P
  /\ call.at = "seek" \/ (call.at = "get" /\ call.rap_pos # UNSET) =>
       call.current = call.rap \/ EndOfStream \/ libav.next = call.current
  /\ call.at = "seek" =>
       /\ call.rap <= call.current
       /\ IF call.current = call.rap THEN call.goal = call.picture + stream.announced ELSE vdhp.last_rap <= P
  /\ call.at = "get" => call.rap <= P \/ call.rap < call.current
  /\ call.at \in {"get", "flush"} =>
       \/ vdhp.last_rap <= P \/ vdhp.last_rap <= call.current
       \/ EndOfStream /\ call.current <= 1 /\ call.at = "get"

TypeInv == TypeOK /\ InHand /\ (stream.dts_based => InStep)

IInv == StreamKept /\ TypeInv /\ (Sound => SoundInv)

(***************************************************************************)
(* What a stream is                                                        *)
(***************************************************************************)
LEMMA StreamFacts ==
  ASSUME StreamOK(stream)
  PROVE  /\ P \in Nat /\ P > 1 /\ 1 \in Numbers
         /\ H \in Nat /\ stream.announced \in Nat /\ H <= stream.announced
         /\ stream.shows \in [Numbers -> Numbers]
         /\ \A c \in Numbers : stream.shows[c] \in Numbers
         /\ \A c, d \in Numbers : stream.shows[c] = stream.shows[d] => c = d
         /\ stream.key \subseteq Numbers /\ 1 \in stream.key
         /\ stream.dts_based \in BOOLEAN
         /\ \A k \in stream.key, c \in Numbers : c < k => stream.shows[c] < stream.shows[k]
         /\ \A k, l \in stream.key, c \in Numbers : k < l /\ l <= c => stream.shows[k] < stream.shows[c]
<1>1. P \in Nat /\ P > 1
  BY DecoderAssumption
<1>2. stream.shows \in [Numbers -> Numbers]
  BY DEF StreamOK
<1>3. stream.key \subseteq Numbers
  BY DEF StreamOK
<1>4. InGroups(stream)
  BY DEF StreamOK
<1>5. ASSUME NEW k \in stream.key, NEW c \in Numbers, c < k  PROVE stream.shows[c] < stream.shows[k]
  <2>1. k \in Numbers /\ c \in 1..(k - 1)
    BY <1>1, <1>3, <1>5 DEF Numbers
  <2>. QED  BY <1>4, <2>1 DEF InGroups
<1>. QED
  BY <1>1, <1>2, <1>3, <1>4, <1>5 DEF StreamOK, InGroups, H, Numbers

(* Every picture is coded in some packet.                                  *)
LEMMA Onto ==
  ASSUME StreamOK(stream), NEW p \in Numbers
  PROVE  \E d \in Numbers : stream.shows[d] = p
<1>1. stream.shows \in Injection(Numbers, Numbers)
  BY StreamFacts, Fun_IsInj
<1>2. IsFiniteSet(Numbers)
  BY StreamFacts, FS_Interval DEF Numbers
<1>3. stream.shows \in Surjection(Numbers, Numbers)
  BY <1>1, <1>2, FS_Injection
<1>. QED  BY <1>3, Fun_SurjectionProperties

(* At most x - 1 pictures are shown before picture x.                      *)
LEMMA FewBefore ==
  ASSUME StreamOK(stream), NEW S \in SUBSET Numbers, NEW x \in Nat \ {0},
         \A d \in S : stream.shows[d] < x
  PROVE  IsFiniteSet(S) /\ Cardinality(S) <= x - 1
<1>. DEFINE f == [d \in S |-> stream.shows[d]]
<1>1. f \in [S -> 1..(x - 1)]
  <2>. SUFFICES ASSUME NEW d \in S  PROVE stream.shows[d] \in 1..(x - 1)
    OBVIOUS
  <2>1. stream.shows[d] \in 1..P /\ stream.shows[d] < x
    BY StreamFacts DEF Numbers
  <2>. QED  BY <2>1, StreamFacts
<1>2. f \in Injection(S, 1..(x - 1))
  BY <1>1, StreamFacts, Fun_IsInj
<1>3. IsFiniteSet(1..(x - 1)) /\ Cardinality(1..(x - 1)) = x - 1
  BY FS_Interval
<1>. QED  BY <1>2, <1>3, FS_Injection

(* A packet is at most H places behind the picture it codes: otherwise too *)
(* many pictures would have overtaken it.                                  *)
LEMMA Arrives ==
  ASSUME StreamOK(stream), NEW e \in Numbers
  PROVE  e <= stream.shows[e] + H
<1>. DEFINE A == {d \in 1..e : stream.shows[d] > stream.shows[e]}
            B == {d \in 1..e : stream.shows[d] < stream.shows[e]}
<1>1. e \in 1..P /\ stream.shows[e] \in 1..P /\ \A d \in 1..e : d \in Numbers /\ stream.shows[d] \in 1..P
  BY StreamFacts DEF Numbers
<1>2. Cardinality(A) <= H
  BY DEF StreamOK, H
<1>3. IsFiniteSet(1..e) /\ Cardinality(1..e) = e
  <2>1. e \in Int /\ 1 \in Int /\ ~(1 > e) /\ e - 1 + 1 = e
    BY <1>1
  <2>. HIDE DEF A, B
  <2>. QED  BY <2>1, FS_Interval
<1>4. IsFiniteSet(A) /\ IsFiniteSet(B)
  BY <1>3, FS_Subset
<1>5. Cardinality(B) <= stream.shows[e] - 1
  BY <1>1, FewBefore, B \in SUBSET Numbers, stream.shows[e] \in Nat \ {0}
<1>6. (1..e) \ {e} = A \cup B
  <2>1. ASSUME NEW d \in 1..e, d # e  PROVE d \in A \cup B
    BY <1>1, <2>1, StreamFacts
  <2>2. e \notin A \cup B
    BY <1>1
  <2>. QED  BY <2>1, <2>2
<1>7. Cardinality(A \cup B) = e - 1
  <2>1. e \in 1..e
    BY <1>1
  <2>2. Cardinality((1..e) \ {e}) = Cardinality(1..e) - 1
    BY <1>3, <2>1, FS_RemoveElement
  <2>. QED  BY <1>3, <1>6, <2>2
<1>8. Cardinality(A \cup B) = Cardinality(A) + Cardinality(B) - Cardinality(A \cap B)
  BY <1>4, FS_Union
<1>9. Cardinality(A) \in Nat /\ Cardinality(B) \in Nat /\ Cardinality(A \cap B) \in Nat
  BY <1>4, FS_CardinalityType, FS_Intersection
<1>. HIDE DEF A, B
<1>. QED  BY <1>1, <1>2, <1>5, <1>7, <1>8, <1>9, StreamFacts

(* What has reached the decoder, opened at r, by packet c and has not been *)
(* put out before.                                                         *)
Reached(r, c) == {d \in Numbers : d <= c /\ stream.shows[d] >= stream.shows[r] /\ stream.shows[d] >= c - H}

\* From packet s + H on, more than H pictures have reached the decoder and are not out.
LEMMA HoldsMany ==
  ASSUME StreamOK(stream), NEW r \in stream.key, NEW c \in Numbers, stream.shows[r] + H <= c
  PROVE  IsFiniteSet(Reached(r, c)) /\ Cardinality(Reached(r, c)) > H
<1>. DEFINE B == {d \in 1..c : stream.shows[d] < c - H}
<1>1. c \in 1..P /\ stream.shows[r] \in 1..P /\ H \in Nat
      /\ \A d \in 1..c : d \in Numbers /\ stream.shows[d] \in 1..P
  BY StreamFacts DEF Numbers
<1>2. IsFiniteSet(1..c) /\ Cardinality(1..c) = c
  BY <1>1, FS_Interval
<1>3. IsFiniteSet(B) /\ Cardinality(B) <= c - H - 1
  BY <1>1, FewBefore, B \in SUBSET Numbers, c - H \in Nat \ {0}
<1>4. Reached(r, c) = (1..c) \ B
  <2>1. ASSUME NEW d \in Reached(r, c)  PROVE d \in (1..c) \ B
    BY <1>1 DEF Reached, Numbers
  <2>2. ASSUME NEW d \in (1..c) \ B  PROVE d \in Reached(r, c)
    BY <1>1 DEF Reached
  <2>. QED  BY <2>1, <2>2
<1>5. Cardinality((1..c) \ B) = c - Cardinality((1..c) \cap B) /\ IsFiniteSet((1..c) \ B)
  BY <1>2, FS_Difference
<1>6. (1..c) \cap B = B
  OBVIOUS
<1>7. Cardinality(B) \in Nat
  BY <1>3, FS_CardinalityType
<1>8. Cardinality(Reached(r, c)) = c - Cardinality(B)
  BY <1>4, <1>5, <1>6
<1>9. c - Cardinality(B) > H
  BY <1>1, <1>3, <1>7
<1>. QED  BY <1>4, <1>5, <1>8, <1>9

\* Before, at most H have.
LEMMA HoldsFew ==
  ASSUME StreamOK(stream), NEW r \in stream.key, NEW c \in Numbers, c < stream.shows[r] + H
  PROVE  IsFiniteSet(Reached(r, c)) /\ Cardinality(Reached(r, c)) <= H
<1>. DEFINE s == stream.shows[r]
            W == {d \in 1..c : stream.shows[d] >= s}
            B == {d \in 1..c : stream.shows[d] < s}
<1>1. c \in 1..P /\ s \in 1..P /\ H \in Nat /\ r \in 1..P
      /\ \A d \in 1..c : d \in Numbers /\ stream.shows[d] \in 1..P
  BY StreamFacts DEF Numbers
<1>2. IsFiniteSet(1..c) /\ Cardinality(1..c) = c
  BY <1>1, FS_Interval
<1>3. Reached(r, c) \subseteq W
  BY <1>1 DEF Reached, Numbers
<1>4. IsFiniteSet(W) /\ IsFiniteSet(B)
  BY <1>2, FS_Subset
<1>5. SUFFICES Cardinality(W) <= H
  BY <1>1, <1>3, <1>4, FS_Subset, FS_CardinalityType
<1>6. CASE \E e \in Numbers : e > c /\ stream.shows[e] < s
  <2>1. PICK e \in Numbers : e > c /\ stream.shows[e] < s
    BY <1>6
  <2>. DEFINE A == {d \in 1..e : stream.shows[d] > stream.shows[e]}
  <2>2. Cardinality(A) <= H
    BY DEF StreamOK, H
  <2>3. e \in 1..P /\ stream.shows[e] \in 1..P
    BY StreamFacts DEF Numbers
  <2>4. W \in SUBSET A
    BY <1>1, <2>1, <2>3
  <2>5. IsFiniteSet(A)
    BY <2>3, FS_Interval, FS_Subset, A \in SUBSET (1..e)
  <2>6. Cardinality(W) <= Cardinality(A)
    BY <2>4, <2>5, FS_Subset
  <2>7. Cardinality(W) \in Nat /\ Cardinality(A) \in Nat
    BY <1>4, <2>5, FS_CardinalityType
  <2>. HIDE DEF A, W
  <2>. QED  BY <1>1, <2>2, <2>6, <2>7
<1>7. CASE \A e \in Numbers : stream.shows[e] < s => e <= c
  <2>. DEFINE T == 1..(s - 1)
              g == [d \in B |-> stream.shows[d]]
  <2>1. g \in [B -> T]
    BY <1>1
  <2>2. \A t \in T : \E d \in B : g[d] = t
    <3>. SUFFICES ASSUME NEW t \in T  PROVE \E d \in B : g[d] = t
      OBVIOUS
    <3>1. t \in Numbers /\ t < s
      BY <1>1, StreamFacts DEF Numbers
    <3>2. PICK d \in Numbers : stream.shows[d] = t
      BY <3>1, Onto
    <3>3. d \in 1..c
      BY <1>1, <1>7, <3>1, <3>2 DEF Numbers
    <3>. QED  BY <3>1, <3>2, <3>3
  <2>3. g \in Surjection(B, T)
    BY <2>1, <2>2, Fun_IsSurj
  <2>4. Cardinality(T) <= Cardinality(B)
    BY <1>4, <2>3, FS_Surjection
  <2>5. Cardinality(T) = s - 1
    BY <1>1, FS_Interval
  <2>6. W = (1..c) \ B
    BY <1>1
  <2>7. Cardinality(W) = c - Cardinality((1..c) \cap B)
    BY <1>2, <2>6, FS_Difference
  <2>8. (1..c) \cap B = B
    OBVIOUS
  <2>9. Cardinality(B) \in Nat
    BY <1>4, FS_CardinalityType
  <2>10. Cardinality(W) = c - Cardinality(B) /\ s - 1 <= Cardinality(B)
    BY <2>4, <2>5, <2>7, <2>8
  <2>. HIDE DEF W, B, T, g
  <2>. QED  BY <1>1, <2>9, <2>10
<1>. QED  BY <1>6, <1>7, <1>1 DEF Numbers

(* The picture that is due is there.                                       *)
LEMMA DueArrived ==
  ASSUME StreamOK(stream), NEW c \in Int, NEW p \in Numbers, p + H <= c
  PROVE  \E d \in Numbers : d <= c /\ stream.shows[d] = p
<1>1. PICK d \in Numbers : stream.shows[d] = p
  BY Onto
<1>2. d <= p + H
  BY <1>1, Arrives
<1>. QED  BY <1>1, <1>2, StreamFacts DEF Numbers

(***************************************************************************)
(* Least and greatest numbers                                              *)
(***************************************************************************)
(* A set of numbers that is not empty has a least one.                     *)
LEMMA NatLeast ==
  ASSUME NEW T, T \subseteq Nat, T # {}
  PROVE  Least(T) \in T /\ \A n \in T : Least(T) <= n
<1>. DEFINE R == OpToRel(<, Nat)
<1>1. IsWellFoundedOn(R, Nat)
  BY NatLessThanWellFounded
<1>2. PICK m \in T : \A n \in T : <<n, m>> \notin R
  BY <1>1, WFMin
<1>3. \A n \in T : ~(n < m)
  BY <1>2 DEF OpToRel
<1>4. \A n \in T : m <= n
  BY <1>3
<1>. QED  BY <1>4 DEF Least

(* A set of packets that is not empty has a last one.                      *)
LEMMA GreatestIn ==
  ASSUME P \in Nat, NEW S, S \subseteq Numbers, S # {}
  PROVE  Greatest(S) \in S /\ \A y \in S : y <= Greatest(S)
<1>. DEFINE T == {P - x : x \in S}
<1>1. T \subseteq Nat /\ T # {}
  BY DEF Numbers
<1>2. Least(T) \in T /\ \A n \in T : Least(T) <= n
  BY <1>1, NatLeast
<1>3. PICK x \in S : Least(T) = P - x
  BY <1>2
<1>4. ASSUME NEW y \in S  PROVE y <= x
  <2>1. P - x <= P - y
    BY <1>2, <1>3
  <2>. QED  BY <2>1 DEF Numbers
<1>. HIDE DEF T
<1>. QED  BY <1>4 DEF Greatest

(***************************************************************************)
(* Points to start from                                                    *)
(***************************************************************************)
LEMMA SampleIs ==
  ASSUME StreamOK(stream), NEW p \in Numbers
  PROVE  SampleNumber(p) \in Numbers /\ stream.shows[SampleNumber(p)] = p
BY Onto DEF SampleNumber

\* The point a packet belongs to.
LEMMA KeyIs ==
  ASSUME StreamOK(stream), NEW c \in Numbers
  PROVE  /\ KeyOf(c) \in stream.key /\ KeyOf(c) <= c
         /\ \A k \in stream.key : k <= c => k <= KeyOf(c)
<1>. DEFINE S == {k \in stream.key : k <= c}
<1>1. 1 \in S /\ S \subseteq Numbers /\ P \in Nat
  BY StreamFacts DEF Numbers
<1>2. Greatest(S) \in S /\ \A y \in S : y <= Greatest(S)
  BY <1>1, GreatestIn
<1>. QED  BY <1>2 DEF KeyOf

(* Opened at a point, the decoder can use what is not shown before it.     *)
LEMMA DecodableFrom ==
  ASSUME StreamOK(stream), NEW r \in stream.key, NEW c \in Numbers, r <= c
  PROVE  Decodable(c, r) <=> stream.shows[c] >= stream.shows[r]
<1>. DEFINE keys == {k \in stream.key : r <= k /\ k <= c}
            K == KeyOf(c)
<1>1. r \in 1..P /\ c \in 1..P /\ stream.shows[r] \in 1..P /\ stream.shows[c] \in 1..P /\ stream.key \subseteq 1..P /\ P \in Nat
  BY StreamFacts DEF Numbers
<1>2. r \in keys /\ keys # {}
  BY <1>1
<1>3. K \in stream.key /\ K <= c /\ r <= K /\ \A k \in stream.key : k <= c => k <= K
  BY KeyIs
<1>4. IsFiniteSet(keys)
  <2>1. keys \in SUBSET (1..P)
    BY <1>1
  <2>2. IsFiniteSet(1..P)
    BY <1>1, FS_Interval
  <2>. QED  BY <2>1, <2>2, FS_Subset
<1>5. CASE K = r
  <2>1. keys = {r}
    BY <1>1, <1>3, <1>5
  <2>2. Cardinality(keys) = 1
    BY <2>1, FS_Singleton
  <2>. QED  BY <1>1, <1>2, <1>5, <2>2 DEF Decodable, Leading
<1>6. CASE K # r
  <2>1. r < K
    BY <1>1, <1>3, <1>6
  <2>2. stream.shows[r] < stream.shows[c]
    BY <1>3, <2>1, StreamFacts
  <2>3. {r, K} \in SUBSET keys
    BY <1>1, <1>2, <1>3
  <2>4. Cardinality({r} \cup {K}) = 2
    <3>1. IsFiniteSet({r}) /\ Cardinality({r}) = 1 /\ K \notin {r}
      BY <1>6, FS_Singleton
    <3>2. Cardinality({r} \cup {K}) = Cardinality({r}) + 1
      BY <3>1, FS_AddElement
    <3>. QED  BY <3>1, <3>2
  <2>5. Cardinality({r, K}) <= Cardinality(keys)
    BY <1>4, <2>3, FS_Subset
  <2>6. {r, K} = {r} \cup {K} /\ Cardinality(keys) \in Nat
    BY <1>4, FS_CardinalityType
  <2>7. Cardinality(keys) > 1
    BY <2>4, <2>5, <2>6
  <2>. QED  BY <1>1, <1>2, <2>2, <2>7 DEF Decodable
<1>. QED  BY <1>5, <1>6

(* Where the stream is not short, each point gives a picture before the    *)
(* last packet.                                                            *)
LEMMA NotShort ==
  ASSUME StreamOK(stream), ~Short, NEW k \in stream.key
  PROVE  stream.shows[k] + H <= P
<1>. SUFFICES ASSUME ~(stream.shows[k] + H <= P)  PROVE FALSE
  OBVIOUS
<1>. DEFINE D == {c \in k..P : Decodable(c, k)}
<1>1. k \in 1..P /\ stream.shows[k] \in 1..P /\ H \in Nat /\ P \in Nat /\ P \in Numbers
  BY StreamFacts DEF Numbers
<1>2. IsFiniteSet(Reached(k, P)) /\ Cardinality(Reached(k, P)) <= H
  BY <1>1, HoldsFew
<1>3. ASSUME NEW c \in D  PROVE c \in Reached(k, P)
  <2>1. c \in Numbers /\ k <= c /\ c <= P
    BY <1>1 DEF Numbers
  <2>2. stream.shows[c] >= stream.shows[k]
    BY <2>1, DecodableFrom
  <2>3. stream.shows[c] \in 1..P
    BY <2>1, StreamFacts DEF Numbers
  <2>. QED  BY <1>1, <2>1, <2>2, <2>3 DEF Reached
<1>4. IsFiniteSet(D) /\ Cardinality(D) <= Cardinality(Reached(k, P))
  BY <1>2, <1>3, FS_Subset, D \in SUBSET Reached(k, P)
<1>5. Cardinality(D) \in Nat /\ Cardinality(Reached(k, P)) \in Nat
  BY <1>2, <1>4, FS_CardinalityType
<1>6. Cardinality(D) <= H
  BY <1>1, <1>2, <1>4, <1>5
<1>. QED  BY <1>6 DEF Short, H

(* find_random_accessible_point finds one that is shown no later than the  *)
(* picture, which it can therefore be decoded from.                        *)
LEMMA PointFound ==
  ASSUME StreamOK(stream), NEW p \in Numbers, p >= stream.shows[1]
  PROVE  RapOf(p) \in stream.key /\ stream.shows[RapOf(p)] <= p
<1>. DEFINE c == SampleNumber(p)
            keys == {k \in stream.key : k <= c}
            G == KeyOf(c)
<1>1. c \in Numbers /\ stream.shows[c] = p /\ p \in 1..P
  BY SampleIs DEF Numbers
<1>2. G \in keys /\ G = Greatest(keys) /\ \A k \in keys : k <= G
  BY <1>1, KeyIs DEF KeyOf
<1>3. keys \subseteq Numbers /\ P \in Nat /\ stream.shows[G] \in 1..P /\ 1 \in stream.key
  BY <1>2, StreamFacts DEF Numbers
<1>. HIDE DEF c
<1>4. CASE ~Leading(c)
  <2>1. RapOf(p) = G
    BY <1>2, <1>4 DEF RapOf, FindRandomAccessiblePoint, c
  <2>. QED  BY <1>1, <1>2, <1>3, <1>4, <2>1 DEF Leading
<1>5. CASE Leading(c) /\ keys \ {G} = {}
  <2>1. RapOf(p) = 1
    BY <1>2, <1>5 DEF RapOf, FindRandomAccessiblePoint, c
  <2>. QED  BY <1>1, <1>3, <2>1
<1>6. CASE Leading(c) /\ keys \ {G} # {}
  <2>1. RapOf(p) = Greatest(keys \ {G})
    BY <1>2, <1>6 DEF RapOf, FindRandomAccessiblePoint, c
  <2>2. Greatest(keys \ {G}) \in keys \ {G}
    BY <1>3, <1>6, GreatestIn
  <2>3. RapOf(p) \in stream.key /\ RapOf(p) < G /\ G <= c
    BY <1>1, <1>2, <1>3, <2>1, <2>2 DEF Numbers
  <2>4. stream.shows[RapOf(p)] < stream.shows[c]
    BY <1>1, <1>2, <2>3, StreamFacts
  <2>5. stream.shows[RapOf(p)] \in 1..P
    BY <2>3, StreamFacts DEF Numbers
  <2>. QED  BY <1>1, <2>3, <2>4, <2>5
<1>. QED  BY <1>4, <1>5, <1>6

(* The first valid picture exists, and where nothing is broken it is the   *)
(* one the stream begins with.                                             *)
LEMMA FirstValidIs ==
  ASSUME StreamOK(stream)
  PROVE  FirstValid \in Numbers /\ (stream.broken = {} => FirstValid = stream.shows[1])
<1>. DEFINE V == {stream.shows[c] : c \in {d \in Numbers \ stream.broken : Decodable(d, 1)}}
<1>1. V \subseteq Nat /\ V \subseteq Numbers
  BY StreamFacts DEF Numbers
<1>2. \A c \in Numbers : Decodable(c, 1) <=> stream.shows[c] >= stream.shows[1]
  BY DecodableFrom, StreamFacts DEF Numbers
<1>3. V # {}
  BY <1>2 DEF StreamOK
<1>4. Least(V) \in V /\ \A n \in V : Least(V) <= n
  BY <1>1, <1>3, NatLeast
<1>5. ASSUME stream.broken = {}  PROVE Least(V) = stream.shows[1]
  <2>1. 1 \in Numbers /\ stream.shows[1] \in Nat
    BY StreamFacts DEF Numbers
  <2>2. stream.shows[1] \in V
    BY <1>2, <1>5, <2>1
  <2>3. \A n \in V : n >= stream.shows[1]
    BY <1>2
  <2>4. Least(V) \in Nat
    BY <1>1, <1>4
  <2>5. Least(V) >= stream.shows[1] /\ Least(V) <= stream.shows[1]
    BY <1>4, <2>2, <2>3
  <2>. HIDE DEF V
  <2>. QED  BY <2>1, <2>4, <2>5
<1>. QED  BY <1>1, <1>4, <1>5 DEF FirstValid

(***************************************************************************)
(* One packet                                                              *)
(***************************************************************************)
LEMMA BuffersDiffer ==
  ASSUME StreamOK(stream), NEW c \in Numbers, NEW d \in Numbers, Buffer(c) = Buffer(d)
  PROVE  c = d
<1>1. Buffer(c).picture = stream.shows[c] /\ Buffer(d).picture = stream.shows[d]
  BY DEF Buffer
<1>. QED  BY <1>1, StreamFacts

\* As many pictures are held as packets wait.
LEMMA HeldSize ==
  ASSUME StreamOK(stream), NEW W \in SUBSET Numbers, IsFiniteSet(W)
  PROVE  IsFiniteSet(Held(W)) /\ Cardinality(Held(W)) = Cardinality(W)
<1>. DEFINE f == [d \in W |-> Buffer(d)]
<1>1. f \in [W -> Held(W)] /\ \A h \in Held(W) : \E d \in W : f[d] = h
  BY DEF Held
<1>2. \A c, d \in W : f[c] = f[d] => c = d
  BY BuffersDiffer
<1>3. f \in Bijection(W, Held(W))
  BY <1>1, <1>2, Fun_IsBij
<1>4. ExistsBijection(W, Held(W))
  BY <1>3 DEF ExistsBijection
<1>. QED  BY <1>4, FS_Bijection

(* The picture shown first goes first, and alone.                          *)
LEMMA FirstOut ==
  ASSUME StreamOK(stream), NEW W \in SUBSET Numbers, NEW d \in W,
         \A e \in W : stream.shows[d] <= stream.shows[e]
  PROVE  First(Held(W)) = Buffer(d) /\ Held(W) \ {Buffer(d)} = Held(W \ {d})
<1>1. \A e \in W : Buffer(e).picture = stream.shows[e] /\ stream.shows[e] \in 1..P
  BY StreamFacts DEF Buffer, Numbers
<1>2. Buffer(d) \in Held(W) /\ \A g \in Held(W) : Buffer(d).picture <= g.picture
  BY <1>1 DEF Held
<1>3. ASSUME NEW h \in Held(W), \A g \in Held(W) : h.picture <= g.picture  PROVE h = Buffer(d)
  <2>1. PICK e \in W : h = Buffer(e)
    BY DEF Held
  <2>2. stream.shows[e] <= stream.shows[d]
    BY <1>1, <1>2, <1>3, <2>1
  <2>3. stream.shows[e] = stream.shows[d]
    BY <1>1, <2>2
  <2>. QED  BY <2>1, <2>3, StreamFacts
<1>4. Held(W) \ {Buffer(d)} = Held(W \ {d})
  BY BuffersDiffer DEF Held
<1>. QED  BY <1>2, <1>3, <1>4 DEF First

(* What is held before and after a packet the decoder can use.             *)
LEMMA ReachedIs ==
  ASSUME StreamOK(stream), NEW r \in stream.key, NEW c \in Numbers, stream.shows[c] >= stream.shows[r]
  PROVE  Reached(r, c) = Waiting(r, c - 1) \cup {c}
<1>1. c \in 1..P /\ stream.shows[c] \in 1..P /\ stream.shows[r] \in 1..P /\ H \in Nat /\ c <= stream.shows[c] + H
      /\ \A d \in Numbers : d \in 1..P /\ stream.shows[d] \in 1..P
  BY StreamFacts, Arrives DEF Numbers
<1>2. ASSUME NEW d \in Reached(r, c), d # c  PROVE d \in Waiting(r, c - 1)
  <2>1. d \in Numbers /\ d \in 1..P /\ stream.shows[d] \in 1..P
    BY <1>1 DEF Reached
  <2>2. d <= c /\ stream.shows[d] >= stream.shows[r] /\ stream.shows[d] >= c - H
    BY DEF Reached
  <2>3. d <= c - 1 /\ stream.shows[d] > (c - 1) - H
    BY <1>1, <1>2, <2>1, <2>2
  <2>. QED  BY <2>1, <2>2, <2>3 DEF Waiting
<1>3. ASSUME NEW d \in Waiting(r, c - 1)  PROVE d \in Reached(r, c)
  <2>1. d \in Numbers /\ d \in 1..P /\ stream.shows[d] \in 1..P
    BY <1>1 DEF Waiting
  <2>2. d <= c - 1 /\ stream.shows[d] >= stream.shows[r] /\ stream.shows[d] > (c - 1) - H
    BY DEF Waiting
  <2>3. d <= c /\ stream.shows[d] >= c - H
    BY <1>1, <2>1, <2>2
  <2>. QED  BY <2>1, <2>2, <2>3 DEF Reached
<1>4. c \in Reached(r, c)
  BY <1>1 DEF Reached
<1>. QED  BY <1>2, <1>3, <1>4

\* Before the first picture is due, nothing has gone.
LEMMA WaitingEarly ==
  ASSUME StreamOK(stream), NEW r \in stream.key, NEW c \in Numbers, c < stream.shows[r] + H
  PROVE  Waiting(r, c) = Reached(r, c)
<1>1. c \in 1..P /\ stream.shows[r] \in 1..P /\ H \in Nat
      /\ \A d \in Numbers : d \in 1..P /\ stream.shows[d] \in 1..P
  BY StreamFacts DEF Numbers
<1>2. ASSUME NEW d \in Numbers  PROVE d \in Waiting(r, c) <=> d \in Reached(r, c)
  <2>1. d \in 1..P /\ stream.shows[d] \in 1..P
    BY <1>1
  <2>. QED  BY <1>1, <2>1 DEF Reached, Waiting
<1>. QED  BY <1>2 DEF Reached, Waiting

(* From packet s + H on, behind the last packet too, what is held loses    *)
(* exactly the picture that is due, and this is the first of it.           *)
LEMMA DueGoes ==
  ASSUME StreamOK(stream), NEW r \in stream.key, NEW c \in Int, stream.shows[r] + H <= c, c - H \in Numbers
  PROVE  \E d \in Reached(r, c) :
           /\ Buffer(d) = [picture |-> c - H, id |-> Own(c - H)]
           /\ First(Held(Reached(r, c))) = Buffer(d)
           /\ Held(Reached(r, c)) \ {Buffer(d)} = Held(Waiting(r, c))
<1>1. stream.shows[r] \in 1..P /\ H \in Nat
      /\ \A d \in Numbers : d \in 1..P /\ stream.shows[d] \in 1..P
  BY StreamFacts DEF Numbers
<1>2. PICK d \in Numbers : d <= c /\ stream.shows[d] = c - H
  BY <1>1, DueArrived
<1>3. d \in Reached(r, c) /\ \A e \in Reached(r, c) : stream.shows[d] <= stream.shows[e]
  BY <1>1, <1>2 DEF Reached
<1>4. Waiting(r, c) = Reached(r, c) \ {d}
  <2>1. ASSUME NEW e \in Waiting(r, c)  PROVE e \in Reached(r, c) /\ e # d
    BY <1>1, <1>2 DEF Reached, Waiting
  <2>2. ASSUME NEW e \in Reached(r, c), e # d  PROVE e \in Waiting(r, c)
    <3>1. e \in Numbers /\ stream.shows[e] # c - H
      BY <1>2, <2>2, StreamFacts DEF Reached
    <3>. QED  BY <1>1, <2>2, <3>1 DEF Reached, Waiting
  <2>. QED  BY <2>1, <2>2
<1>5. Reached(r, c) \in SUBSET Numbers
  BY DEF Reached
<1>6. First(Held(Reached(r, c))) = Buffer(d) /\ Held(Reached(r, c)) \ {Buffer(d)} = Held(Reached(r, c) \ {d})
  BY <1>3, <1>5, FirstOut
<1>7. Buffer(d) = [picture |-> c - H, id |-> Own(c - H)]
  BY <1>2 DEF Buffer
<1>. QED  BY <1>3, <1>4, <1>6, <1>7

(* A leading picture that is lost changes nothing, and no picture is due   *)
(* yet.                                                                    *)
LEMMA LeadingLost ==
  ASSUME StreamOK(stream), NEW r \in stream.key, NEW c \in Numbers, stream.shows[c] < stream.shows[r]
  PROVE  c < stream.shows[r] + H /\ Waiting(r, c) = Waiting(r, c - 1)
<1>1. c \in 1..P /\ stream.shows[c] \in 1..P /\ stream.shows[r] \in 1..P /\ H \in Nat /\ c <= stream.shows[c] + H
      /\ \A d \in Numbers : d \in 1..P /\ stream.shows[d] \in 1..P
  BY StreamFacts, Arrives DEF Numbers
<1>2. c < stream.shows[r] + H
  BY <1>1
<1>3. \A d \in Numbers : d \in Waiting(r, c) <=> d \in Waiting(r, c - 1)
  <2>. SUFFICES ASSUME NEW d \in Numbers  PROVE d \in Waiting(r, c) <=> d \in Waiting(r, c - 1)
    OBVIOUS
  <2>1. d \in 1..P /\ stream.shows[d] \in 1..P /\ (d = c => stream.shows[d] < stream.shows[r])
    BY <1>1
  <2>. QED  BY <1>1, <1>2, <2>1 DEF Waiting
<1>. QED  BY <1>2, <1>3 DEF Waiting

(* Nothing is held before the point.                                       *)
LEMMA NothingBefore ==
  ASSUME StreamOK(stream), NEW r \in stream.key
  PROVE  Waiting(r, r - 1) = {}
<1>1. r \in 1..P /\ r \in Numbers /\ stream.shows[r] \in 1..P /\ \A d \in Numbers : d \in 1..P /\ stream.shows[d] \in 1..P
  BY StreamFacts DEF Numbers
<1>2. ASSUME NEW d \in Waiting(r, r - 1)  PROVE FALSE
  <2>1. d \in Numbers /\ d <= r - 1 /\ stream.shows[d] >= stream.shows[r]
    BY DEF Waiting
  <2>2. d < r /\ stream.shows[d] \in 1..P
    BY <1>1, <2>1
  <2>3. stream.shows[d] < stream.shows[r]
    BY <2>1, <2>2, StreamFacts
  <2>. QED  BY <1>1, <2>1, <2>2, <2>3
<1>. QED  BY <1>2

\* A packet that is in step gives its picture its own number.
LEMMA OrderIdIs ==
  ASSUME StreamOK(stream), NEW c \in Numbers
  PROVE  OutputOrderId(c) = Own(stream.shows[c])
BY DEF OutputOrderId, Own, Numbered, Reordered

(* What becomes of packet c, where nothing is broken.                      *)
LEMMA OutcomeIs ==
  ASSUME StreamOK(stream), stream.broken = {}, NEW r \in stream.key, NEW c \in Numbers, r <= c,
         libav.held = Held(Waiting(r, c - 1)), libav.begin = r \/ (libav.begin = 0 /\ c = r),
         call.current = c, NEW o \in Outcomes(c)
  PROVE  /\ o.held = Held(Waiting(r, c))
         /\ c < stream.shows[r] + H =>
              /\ ~o.got /\ o.frame = frame
              /\ o.ret = "error" => stream.shows[c] < stream.shows[r]
         /\ stream.shows[r] + H <= c =>
              o.got /\ o.frame = [picture |-> c - H, id |-> Own(c - H)] /\ o.ret # "error"
<1>. DEFINE begin == IF libav.begin = 0 THEN c ELSE libav.begin
            held == libav.held \cup {[picture |-> stream.shows[c], id |-> OutputOrderId(call.current)]}
<1>1. r \in 1..P /\ c \in 1..P /\ stream.shows[c] \in 1..P /\ stream.shows[r] \in 1..P /\ H \in Nat
  BY StreamFacts DEF Numbers
<1>2. begin = r
  BY <1>1
<1>3. o \in (IF ~Decodable(c, r)
             THEN {Outcome(x, FALSE, frame, libav.held) : x \in {"error", "fine"}}
             ELSE IF Cardinality(held) <= H THEN {Outcome("fine", FALSE, frame, held)}
             ELSE {Outcome("fine", TRUE, First(held), held \ {First(held)})})
  BY <1>2 DEF Outcomes, H
<1>4. Decodable(c, r) <=> stream.shows[c] >= stream.shows[r]
  BY DecodableFrom
<1>. HIDE DEF held, begin
<1>5. CASE ~Decodable(c, r)
  <2>1. stream.shows[c] < stream.shows[r]
    BY <1>1, <1>4, <1>5
  <2>2. c < stream.shows[r] + H /\ Waiting(r, c) = Waiting(r, c - 1)
    BY <2>1, LeadingLost
  <2>3. ~o.got /\ o.frame = frame /\ o.held = libav.held
    BY <1>3, <1>5 DEF Outcome
  <2>. QED  BY <1>1, <2>1, <2>2, <2>3
<1>6. CASE Decodable(c, r)
  <2>1. stream.shows[c] >= stream.shows[r]
    BY <1>4, <1>6
  <2>2. held = Held(Reached(r, c))
    <3>1. held = Held(Waiting(r, c - 1)) \cup {Buffer(c)}
      BY OrderIdIs DEF held, Buffer
    <3>. QED  BY <2>1, <3>1, ReachedIs DEF Held
  <2>3. Reached(r, c) \in SUBSET Numbers
    BY DEF Reached
  <2>4. CASE c < stream.shows[r] + H
    <3>1. IsFiniteSet(Reached(r, c)) /\ Cardinality(Reached(r, c)) <= H
      BY <2>4, HoldsFew
    <3>2. Cardinality(held) <= H
      BY <2>2, <2>3, <3>1, HeldSize
    <3>3. o = Outcome("fine", FALSE, frame, held)
      BY <1>3, <1>6, <3>2
    <3>4. Waiting(r, c) = Reached(r, c)
      BY <2>4, WaitingEarly
    <3>. QED  BY <1>1, <2>2, <2>4, <3>3, <3>4 DEF Outcome
  <2>5. CASE stream.shows[r] + H <= c
    <3>1. IsFiniteSet(Reached(r, c)) /\ Cardinality(Reached(r, c)) > H
      BY <2>5, HoldsMany
    <3>2. Cardinality(held) = Cardinality(Reached(r, c)) /\ Cardinality(held) \in Nat
      BY <2>2, <2>3, <3>1, HeldSize, FS_CardinalityType
    <3>3. ~(Cardinality(held) <= H)
      BY <1>1, <3>1, <3>2
    <3>4. o = Outcome("fine", TRUE, First(held), held \ {First(held)})
      BY <1>3, <1>6, <3>3
    <3>5. c - H \in Numbers /\ c \in Int
      BY <1>1, <2>5, StreamFacts DEF Numbers
    <3>6. First(held) = [picture |-> c - H, id |-> Own(c - H)] /\ held \ {First(held)} = Held(Waiting(r, c))
      BY <2>2, <2>5, <3>5, DueGoes
    <3>7. ~(c < stream.shows[r] + H)
      BY <1>1, <2>5
    <3>. QED  BY <3>4, <3>6, <3>7 DEF Outcome
  <2>. QED  BY <1>1, <2>4, <2>5
<1>. QED  BY <1>5, <1>6

(***************************************************************************)
(* Types                                                                   *)
(***************************************************************************)
LEMMA MoreFacts ==
  ASSUME StreamKept
  PROVE  /\ StreamOK(stream) /\ P \in Nat /\ P > 1
         /\ stream.pts \in [Numbers -> Nat] /\ stream.drift \in SUBSET Int
         /\ stream.announced \in Nat /\ stream.dts_based \in BOOLEAN /\ stream.seek_mode \in Modes
         /\ stream.key \subseteq Numbers /\ 1 \in stream.key
BY DecoderAssumption, StreamFacts DEF StreamKept, StreamOK

\* find_random_accessible_point finds a point, of whatever stream.
LEMMA PointIs ==
  ASSUME StreamKept, NEW p \in Numbers, NEW c \in Int
  PROVE  FindRandomAccessiblePoint(p, c) \in stream.key
<1>. DEFINE keys == {k \in stream.key : k <= c}
            usable == IF Leading(SampleNumber(p)) THEN keys \ {Greatest(keys)} ELSE keys
<1>1. usable \subseteq keys /\ keys \subseteq stream.key /\ stream.key \subseteq Numbers /\ P \in Nat /\ 1 \in stream.key
  BY MoreFacts
<1>2. usable # {} => Greatest(usable) \in usable
  BY <1>1, GreatestIn
<1>3. FindRandomAccessiblePoint(p, c) = IF usable = {} THEN 1 ELSE Greatest(usable)
  BY DEF FindRandomAccessiblePoint
<1>. HIDE DEF usable, keys
<1>. QED  BY <1>1, <1>2, <1>3

(* The picture shown first is one of them.                                 *)
LEMMA FirstIn ==
  ASSUME NEW S \in SUBSET Buffers, S # {}, P \in Nat
  PROVE  First(S) \in S
<1>. DEFINE T == {h.picture : h \in S}
<1>1. T \subseteq Nat /\ T # {}
  BY DEF Buffers
<1>2. Least(T) \in T /\ \A n \in T : Least(T) <= n
  BY <1>1, NatLeast
<1>3. PICK h \in S : h.picture = Least(T)
  BY <1>2
<1>4. \A g \in S : h.picture <= g.picture
  BY <1>2, <1>3
<1>. QED  BY <1>4 DEF First

Feeding == call.at \in {"seek", "get"} /\ CanFeed

\* What is fed is a packet.
LEMMA FedIs ==
  ASSUME StreamKept, TypeInv, Feeding
  PROVE  Fed \in Numbers
<1>1. P \in Nat /\ P > 1 /\ stream.key \subseteq 1..P /\ libav.next \in 1..P + 1 /\ libav.next <= P /\ call.rap \in Nat
  BY MoreFacts DEF TypeInv, TypeOK, Libavs, Calls, Feeding, CanFeed, EndOfStream, Numbers
<1>2. CASE Corrects
  <2>1. libav.next <= call.rap
    BY <1>1, <1>2 DEF Feeding, CanFeed, SoughtTooFar
  <2>2. call.rap <= P
    <3>1. call.at = "seek" => call.rap \in stream.key \/ call.rap <= 1
      BY DEF TypeInv, InHand
    <3>2. call.at = "get" => call.rap <= P \/ call.rap < call.current
      BY <1>2 DEF TypeInv, InStep, Corrects
    <3>. QED  BY <1>1, <1>2, <3>1, <3>2 DEF Feeding, Corrects
  <2>. QED  BY <1>1, <1>2, <2>1, <2>2 DEF Fed, Numbers
<1>3. CASE ~Corrects
  BY <1>1, <1>3 DEF Fed, Numbers
<1>. QED  BY <1>2, <1>3

OutcomeSet == [ret : {"error", "fine"}, got : BOOLEAN, frame : Buffers, held : SUBSET Buffers]

\* Numbers of pictures, also of those counted behind the end.
LEMMA OrderIdType ==
  ASSUME StreamKept, NEW c \in Nat
  PROVE  OutputOrderId(c) \in Nat
<1>1. \A d \in Numbers : stream.shows[d] \in Nat
  BY MoreFacts, StreamFacts DEF Numbers
<1>. QED  BY <1>1 DEF OutputOrderId

\* What a packet may lead to.
LEMMA OutcomeType ==
  ASSUME StreamKept, TypeInv, Feeding, NEW o \in Outcomes(Fed)
  PROVE  o \in OutcomeSet
<1>. DEFINE h == [picture |-> stream.shows[Fed], id |-> OutputOrderId(call.current)]
            held == libav.held \cup {h}
<1>1. Fed \in Numbers
  BY FedIs
<1>2. libav.held \in SUBSET Buffers /\ frame \in Buffers /\ call.current \in Nat
  BY DEF TypeInv, TypeOK, Libavs, Calls
<1>3. h \in Buffers
  <2>1. stream.shows[Fed] \in Numbers
    BY <1>1, MoreFacts, StreamFacts
  <2>2. OutputOrderId(call.current) \in Nat
    BY <1>2, OrderIdType
  <2>. QED  BY <2>1, <2>2 DEF Buffers, Numbers
<1>4. held \in SUBSET Buffers /\ held # {}
  BY <1>2, <1>3
<1>5. First(held) \in held
  BY <1>4, FirstIn, MoreFacts
<1>6. \/ o \in {Outcome(x, FALSE, frame, libav.held) : x \in {"error", "fine"}}
      \/ o = Outcome("fine", FALSE, frame, held)
      \/ o = Outcome("fine", TRUE, First(held), held \ {First(held)})
  BY DEF Outcomes
<1>7. held \ {First(held)} \in SUBSET Buffers /\ First(held) \in Buffers
  BY <1>4, <1>5
<1>. HIDE DEF held
<1>8. CASE o \in {Outcome(x, FALSE, frame, libav.held) : x \in {"error", "fine"}}
  <2>1. PICK x \in {"error", "fine"} : o = Outcome(x, FALSE, frame, libav.held)
    BY <1>8
  <2>. QED  BY <1>2, <2>1 DEF Outcome, OutcomeSet
<1>9. CASE o = Outcome("fine", FALSE, frame, held)
  BY <1>2, <1>4, <1>9 DEF Outcome, OutcomeSet
<1>10. CASE o = Outcome("fine", TRUE, First(held), held \ {First(held)})
  BY <1>7, <1>10 DEF Outcome, OutcomeSet
<1>. QED  BY <1>6, <1>8, <1>9, <1>10

\* What the handler remembers of a packet.
LEMMA AfterDecodeType ==
  ASSUME TypeOK, NEW o \in OutcomeSet, NEW delay \in Int
  PROVE  /\ AfterDecode(o, delay) \in Handlers
         /\ AfterDecode(o, delay).last_fed = call.current
         /\ AfterDecode(o, delay).last_rap = IF Fed \in stream.key THEN call.current ELSE vdhp.last_rap
BY DEF TypeOK, AfterDecode, Handlers, Calls, OutcomeSet


(* A request has ended.                                                    *)
LEMMA EndKeeps ==
  ASSUME StreamKept, TypeInv, stream' = stream, call' = NoCall,
         vdhp' \in Handlers, libav' \in Libavs, frame' \in Buffers, doubt' \in BOOLEAN,
         answer' \in [picture : 0..P, shown : 0..P, ok : BOOLEAN],
         stream.dts_based => vdhp'.last_rap <= P \/ vdhp'.last_rap <= vdhp'.last_fed
  PROVE  TypeInv'
<1>1. call' \in Calls
  BY MoreFacts DEF NoCall, Calls, Modes, MAX_ERROR_COUNT
<1>2. TypeOK'
  BY <1>1 DEF TypeOK, Buffers, Calls, Handlers, Libavs, Numbers
<1>3. InHand'
  BY DEF InHand, NoCall, Idle, UNSET, MAX_ERROR_COUNT
<1>4. stream.dts_based => InStep'
  BY DEF InStep, NoCall, UNSET
<1>. QED  BY <1>2, <1>3, <1>4 DEF TypeInv

(* A request has been answered with the picture in the buffer.             *)
LEMMA SucceedKeeps ==
  ASSUME StreamKept, TypeInv, ~Idle, stream' = stream, libav' \in Libavs,
         NEW handler \in Handlers, NEW buffer \in Buffers, Succeed(handler, buffer),
         stream.dts_based => handler.last_rap <= P \/ handler.last_rap <= handler.last_fed
  PROVE  TypeInv'
<1>1. /\ P \in Nat /\ stream.pts \in [Numbers -> Nat] /\ doubt \in BOOLEAN
      /\ call.picture \in Numbers /\ call.picture \in 1..P + 1 /\ call.picture \in 0..P
  BY MoreFacts DEF TypeInv, InHand, TypeOK, Numbers
<1>2. /\ vdhp' = [handler EXCEPT !.last_frame = call.picture] /\ call' = NoCall
      /\ frame' = [buffer EXCEPT !.id = stream.pts[call.picture]]
      /\ answer' = [picture |-> call.picture, shown |-> buffer.picture, ok |-> TRUE] /\ doubt' = doubt
  BY DEF Succeed, Deliver, Answer
<1>3. vdhp' \in Handlers /\ vdhp'.last_rap = handler.last_rap /\ vdhp'.last_fed = handler.last_fed
  BY <1>1, <1>2 DEF Handlers
<1>4. frame' \in Buffers /\ answer' \in [picture : 0..P, shown : 0..P, ok : BOOLEAN]
  BY <1>1, <1>2 DEF Buffers
<1>. QED  BY <1>1, <1>2, <1>3, <1>4, EndKeeps

(* get_frame has begun, or has found the picture in the buffer.            *)
LEMMA GetFrameKeeps ==
  ASSUME StreamKept, TypeInv, ~Idle, stream' = stream, libav' \in Libavs,
         NEW handler \in Handlers, NEW start \in Nat, NEW rap \in Nat, NEW buffer \in Buffers,
         GetFrame(handler, start, rap, buffer),
         call.rap_pos # UNSET => rap \in stream.key,
         call.rap_pos = UNSET /\ call.errors > 0 => rap <= 1,
         stream.dts_based =>
           /\ handler.last_rap <= P \/ handler.last_rap <= handler.last_fed
           /\ call.rap_pos # UNSET => handler.last_rap <= P
           /\ call.rap_pos # UNSET => start = rap \/ libav'.next > P \/ libav'.next = start
           /\ rap <= P \/ rap < start
           /\ handler.last_rap <= P \/ handler.last_rap <= start \/ (libav'.next > P /\ start <= 1)
  PROVE  TypeInv'
<1>. DEFINE goal == call.picture + handler.delay_count
<1>1. /\ call \in Calls /\ P \in Nat /\ doubt \in BOOLEAN
      /\ answer \in [picture : 0..P, shown : 0..P, ok : BOOLEAN]
      /\ stream.pts \in [Numbers -> Nat]
      /\ call.picture \in Numbers /\ call.picture \in 1..P + 1 /\ call.picture \in 0..P /\ goal \in Int
  <2>1. P \in Nat /\ stream.pts \in [Numbers -> Nat] /\ call.picture \in Numbers
    BY MoreFacts DEF TypeInv, InHand
  <2>2. call.picture \in 1..P + 1 /\ call.picture \in 0..P
    BY <2>1 DEF Numbers
  <2>3. goal \in Int
    BY <2>2 DEF Handlers
  <2>. QED  BY <2>1, <2>2, <2>3 DEF TypeInv, TypeOK
<1>2. CASE Succeed(handler, buffer)
  BY <1>2, SucceedKeeps
<1>3. CASE GoesOn([call EXCEPT !.at = "get", !.current = start, !.goal = goal, !.rap = rap, !.got = FALSE],
                  handler, buffer)
  <2>1. /\ call' = [call EXCEPT !.at = "get", !.current = start, !.goal = goal, !.rap = rap, !.got = FALSE]
        /\ vdhp' = handler /\ frame' = buffer /\ answer' = answer /\ doubt' = doubt
    BY <1>3 DEF GoesOn
  <2>2. call' \in Calls
    BY <1>1, <2>1 DEF Calls
  <2>3. /\ call'.at = "get" /\ call'.current = start /\ call'.rap = rap /\ call'.picture = call.picture
        /\ call'.rap_pos = call.rap_pos /\ call'.mode = call.mode /\ call'.errors = call.errors
    BY <1>1, <2>1 DEF Calls
  <2>4. TypeOK'
    BY <1>1, <2>1, <2>2 DEF TypeOK, Buffers, Calls, Handlers, Libavs, Numbers
  <2>5. InHand'
    BY <1>1, <2>3 DEF InHand, TypeInv, Idle
  <2>6. stream.dts_based => InStep'
    BY <2>1, <2>3 DEF InStep, EndOfStream
  <2>. QED  BY <2>4, <2>5, <2>6 DEF TypeInv
<1>. QED  BY <1>2, <1>3 DEF GetFrame

(* A seek has begun.                                                       *)
LEMMA SeekVideoKeeps ==
  ASSUME StreamKept, TypeInv, ~Idle,
         NEW handler \in Handlers, NEW rap \in Nat, NEW rap_pos \in 0..P, NEW mode \in Modes,
         NEW errors \in 0..MAX_ERROR_COUNT + 1,
         SeekVideo(handler, rap, rap_pos, mode, errors),
         mode # "aggressive" => errors <= MAX_ERROR_COUNT,
         rap_pos # UNSET => rap \in stream.key,
         rap_pos = UNSET => rap <= 1,
         stream.dts_based =>
           /\ handler.last_rap <= P \/ handler.last_rap <= handler.last_fed
           /\ rap_pos # UNSET => handler.last_rap <= P
  PROVE  TypeInv'
<1>1. /\ call \in Calls /\ libav \in Libavs /\ frame \in Buffers /\ call.picture \in Numbers
      /\ P \in Nat /\ stream.announced \in Nat
      /\ answer \in [picture : 0..P, shown : 0..P, ok : BOOLEAN]
  BY MoreFacts DEF TypeInv, TypeOK, InHand
<1>2. PICK q \in Landings(rap_pos) : libav' = [next |-> q, begin |-> 0, held |-> {}]
  BY DEF SeekVideo
<1>3. libav' \in Libavs
  BY <1>1, <1>2 DEF Landings, Libavs, Numbers
<1>4. /\ call' = [call EXCEPT !.at = "seek", !.current = rap, !.goal = call.picture + stream.announced,
                              !.rap = rap, !.rap_pos = rap_pos, !.delay = stream.announced,
                              !.ready = FALSE, !.rap_pts = 0, !.mode = mode, !.errors = errors]
      /\ vdhp' = [handler EXCEPT !.delay_count = 0]
      /\ UNCHANGED <<stream, frame, answer>>
  BY DEF SeekVideo
<1>11. doubt' \in BOOLEAN
  BY DEF SeekVideo
<1>5. call' \in Calls
  <2>. DEFINE c1 == [call EXCEPT !.at = "seek", !.current = rap, !.goal = call.picture + stream.announced,
                                 !.rap = rap, !.rap_pos = rap_pos]
  <2>1. call.picture + stream.announced \in Int
    BY <1>1 DEF Numbers
  <2>2. c1 \in Calls
    BY <1>1, <2>1 DEF Calls
  <2>3. \A c \in Calls : [c EXCEPT !.delay = stream.announced] \in Calls
    BY <1>1 DEF Calls
  <2>4. \A c \in Calls : [c EXCEPT !.ready = FALSE] \in Calls
    BY DEF Calls
  <2>5. \A c \in Calls : [c EXCEPT !.rap_pts = 0] \in Calls
    BY DEF Calls
  <2>6. \A c \in Calls : [c EXCEPT !.mode = mode] \in Calls
    BY DEF Calls
  <2>7. \A c \in Calls : [c EXCEPT !.errors = errors] \in Calls
    BY DEF Calls
  <2>8. call' = [c1 EXCEPT !.delay = stream.announced, !.ready = FALSE, !.rap_pts = 0,
                           !.mode = mode, !.errors = errors]
    BY <1>4
  <2>. DEFINE c2 == [c1 EXCEPT !.delay = stream.announced]
              c3 == [c2 EXCEPT !.ready = FALSE]
              c4 == [c3 EXCEPT !.rap_pts = 0]
              c5 == [c4 EXCEPT !.mode = mode]
  <2>9. c2 \in Calls
    BY <2>2, <2>3
  <2>10. c3 \in Calls
    BY <2>9, <2>4
  <2>11. c4 \in Calls
    BY <2>10, <2>5
  <2>12. c5 \in Calls
    BY <2>11, <2>6
  <2>. QED  BY <2>12, <2>7, <2>8
<1>6. /\ call'.at = "seek" /\ call'.current = rap /\ call'.rap = rap /\ call'.picture = call.picture
      /\ call'.goal = call.picture + stream.announced
      /\ call'.rap_pos = rap_pos /\ call'.mode = mode /\ call'.errors = errors
  BY <1>1, <1>4 DEF Calls
<1>7. vdhp' \in Handlers /\ vdhp'.last_rap = handler.last_rap /\ vdhp'.last_fed = handler.last_fed
  BY <1>4 DEF Handlers
<1>8. TypeOK'
  BY <1>1, <1>3, <1>4, <1>5, <1>7, <1>11 DEF TypeOK, Buffers, Calls, Handlers, Libavs, Numbers
<1>9. InHand'
  BY <1>1, <1>4, <1>6 DEF InHand, Idle
<1>10. stream.dts_based => InStep'
  BY <1>4, <1>6, <1>7 DEF InStep
<1>. QED  BY <1>4, <1>8, <1>9, <1>10 DEF TypeInv

(* An attempt has failed.                                                  *)
LEMMA FailKeeps ==
  ASSUME StreamKept, TypeInv, stream' = stream, ~Idle, call.at # "asked", libav' \in Libavs,
         NEW handler \in Handlers, NEW buffer \in Buffers, GoRetry(handler, buffer),
         call.rap_pos = UNSET /\ call.at = "seek" => call.rap <= 1,
         stream.dts_based => /\ handler.last_rap <= P \/ handler.last_rap <= handler.last_fed
                             /\ call.rap_pos # UNSET => handler.last_rap <= P
  PROVE  TypeInv'
<1>1. /\ call' = [call EXCEPT !.at = "retry"] /\ vdhp' = handler /\ frame' = buffer
      /\ answer' = answer /\ doubt' = doubt
  BY DEF GoRetry, GoesOn
<1>2. call \in Calls
  BY DEF TypeInv, TypeOK
<1>3. call' \in Calls
  BY <1>1, <1>2 DEF Calls
<1>4. /\ call'.at = "retry" /\ call'.rap = call.rap /\ call'.picture = call.picture
      /\ call'.rap_pos = call.rap_pos /\ call'.mode = call.mode /\ call'.errors = call.errors
  BY <1>1, <1>2 DEF Calls
<1>5. TypeOK'
  BY <1>1, <1>3 DEF TypeInv, TypeOK, Buffers, Calls, Handlers, Libavs, Numbers
<1>6. InHand'
  BY <1>4 DEF InHand, TypeInv, Idle
<1>7. stream.dts_based => InStep'
  BY <1>1, <1>4 DEF InStep
<1>. QED  BY <1>5, <1>6, <1>7 DEF TypeInv

(* The numbers of a packet fed from a corrected seek are exact.            *)
LEMMA FeedKeepsStep ==
  ASSUME StreamKept, TypeInv, Feeding, stream.dts_based, NEW o \in Outcomes(Fed), NEW delay \in Int
  PROVE  LET last == AfterDecode(o, delay).last_rap
         IN  /\ last <= P \/ last <= call.current
             /\ call.rap_pos # UNSET \/ call.at = "seek" => last <= P /\ Fed = call.current
<1>1. /\ AfterDecode(o, delay).last_rap = IF Fed \in stream.key THEN call.current ELSE vdhp.last_rap
      /\ call \in Calls /\ vdhp \in Handlers /\ libav \in Libavs
  BY OutcomeType, AfterDecodeType DEF TypeInv, TypeOK
<1>2. P \in Nat /\ P > 1 /\ stream.key \subseteq 1..P /\ 1 \in stream.key /\ Fed \in 1..P
      /\ libav.next \in Nat /\ libav.next <= P /\ call.current \in Nat /\ call.rap \in Nat /\ vdhp.last_rap \in Nat
  <2>1. P \in Nat /\ P > 1 /\ stream.key \subseteq 1..P /\ 1 \in stream.key /\ Fed \in 1..P
    BY MoreFacts, FedIs DEF Numbers
  <2>2. libav.next \in Nat /\ call.current \in Nat /\ call.rap \in Nat /\ vdhp.last_rap \in Nat
    BY <1>1 DEF Libavs, Calls, Handlers
  <2>3. libav.next <= P
    BY <2>1, <2>2 DEF Feeding, CanFeed, EndOfStream
  <2>. QED  BY <2>1, <2>2, <2>3
<1>3. Fed = IF call.current = call.rap THEN call.rap ELSE libav.next
  BY DEF Fed, Corrects
<1>4. ASSUME call.rap_pos # UNSET \/ call.at = "seek"  PROVE Fed = call.current
  <2>1. call.current = call.rap \/ libav.next = call.current
    BY <1>2, <1>4 DEF TypeInv, InStep, EndOfStream, Feeding
  <2>. QED  BY <1>3, <2>1
<1>5. ASSUME call.rap_pos # UNSET \/ call.at = "seek"  PROVE AfterDecode(o, delay).last_rap <= P
  <2>1. CASE Fed \in stream.key
    BY <1>1, <1>2, <1>4, <1>5, <2>1
  <2>2. CASE Fed \notin stream.key
    <3>1. vdhp.last_rap <= P
      <4>1. CASE call.rap_pos # UNSET
        BY <4>1 DEF TypeInv, InStep
      <4>2. CASE call.rap_pos = UNSET /\ call.at = "seek"
        <5>1. call.rap <= 1
          BY <4>2 DEF TypeInv, InHand
        <5>2. call.current # call.rap
          BY <1>2, <1>3, <2>2, <5>1
        <5>. QED  BY <4>2, <5>2 DEF TypeInv, InStep
      <4>. QED  BY <1>5, <4>1, <4>2
    <3>. QED  BY <1>1, <2>2, <3>1
  <2>. QED  BY <2>1, <2>2
<1>6. ASSUME call.rap_pos = UNSET, call.at = "get"
      PROVE  AfterDecode(o, delay).last_rap <= P \/ AfterDecode(o, delay).last_rap <= call.current
  <2>1. vdhp.last_rap <= P \/ vdhp.last_rap <= call.current
    BY <1>2, <1>6 DEF TypeInv, InStep, EndOfStream
  <2>. QED  BY <1>1, <1>2, <2>1
<1>. QED  BY <1>4, <1>5, <1>6 DEF Feeding

(***************************************************************************)
(* Each action keeps the types                                             *)
(***************************************************************************)
LEMMA TypesHere ==
  ASSUME StreamKept, TypeInv
  PROVE  /\ call \in Calls /\ vdhp \in Handlers /\ libav \in Libavs /\ frame \in Buffers /\ doubt \in BOOLEAN
         /\ answer \in [picture : 0..P, shown : 0..P, ok : BOOLEAN]
         /\ P \in Nat /\ P > 1 /\ libav.next \in Nat /\ stream.announced \in Nat
         /\ call.current \in Nat /\ call.goal \in Int /\ call.rap \in Nat /\ call.delay \in Int
         /\ vdhp.last_rap \in Nat /\ vdhp.last_fed \in Nat /\ vdhp.delay_count \in Int
         /\ stream.key \subseteq 1..P /\ 1 \in stream.key
<1>1. call \in Calls /\ vdhp \in Handlers /\ libav \in Libavs /\ frame \in Buffers /\ doubt \in BOOLEAN
      /\ answer \in [picture : 0..P, shown : 0..P, ok : BOOLEAN]
  BY DEF TypeInv, TypeOK
<1>2. /\ call.current \in Nat /\ call.goal \in Int /\ call.rap \in Nat /\ call.delay \in Int
      /\ vdhp.last_rap \in Nat /\ vdhp.last_fed \in Nat /\ vdhp.delay_count \in Int
      /\ libav.next \in 1..P + 1
  BY <1>1 DEF Calls, Handlers, Libavs
<1>. QED  BY <1>1, <1>2, MoreFacts DEF Numbers

\* A request is made.
LEMMA AskTyped ==
  ASSUME StreamKept, TypeInv, NEW p \in Numbers, Ask(p)
  PROVE  TypeInv'
<1>1. /\ call' = [NoCall EXCEPT !.at = "asked", !.picture = p, !.mode = stream.seek_mode]
      /\ UNCHANGED <<stream, vdhp, libav, frame, answer, doubt>>
  BY DEF Ask
<1>2. /\ call'.at = "asked" /\ call'.picture = p /\ call'.rap_pos = UNSET /\ call'.errors = 0
      /\ call' \in Calls
  <2>1. NoCall \in Calls
    BY MoreFacts DEF NoCall, Calls, Modes, MAX_ERROR_COUNT
  <2>2. \A c \in Calls : [c EXCEPT !.at = "asked"] \in Calls
    BY DEF Calls
  <2>3. \A c \in Calls : [c EXCEPT !.picture = p] \in Calls
    BY MoreFacts, p \in 0..P DEF Calls, Numbers
  <2>4. \A c \in Calls : [c EXCEPT !.mode = stream.seek_mode] \in Calls
    BY MoreFacts DEF Calls
  <2>5. call' \in Calls
    BY <1>1, <2>1, <2>2, <2>3, <2>4
  <2>. QED  BY <1>1, <2>5 DEF NoCall, UNSET
<1>3. TypeOK'
  BY <1>1, <1>2, TypesHere DEF TypeOK, Buffers, Calls, Handlers, Libavs, Numbers
<1>4. InHand'
  BY <1>2 DEF InHand, Idle, UNSET, MAX_ERROR_COUNT
<1>5. stream.dts_based => InStep'
  BY <1>1, <1>2 DEF InStep, TypeInv, UNSET
<1>. QED  BY <1>1, <1>3, <1>4, <1>5 DEF TypeInv

\* A request is answered at once, goes on or seeks.
LEMMA BeginTyped ==
  ASSUME StreamKept, TypeInv, Begin
  PROVE  TypeInv'
<1>1. call.at = "asked" /\ call.picture \in Numbers /\ ~Idle /\ call.rap_pos = UNSET /\ call.errors = 0
  BY DEF Begin, SameAgain, BeforeFirstValid, GoOn, SeekFirst, Sought, TypeInv, InHand, Idle
<1>2. CASE SameAgain
  <2>1. call' = NoCall /\ answer' = [picture |-> call.picture, shown |-> frame.picture, ok |-> TRUE]
        /\ UNCHANGED <<stream, vdhp, libav, frame, doubt>>
    BY <1>2 DEF SameAgain, Answer
  <2>2. answer' \in [picture : 0..P, shown : 0..P, ok : BOOLEAN]
    BY <1>1, <2>1, TypesHere DEF Buffers, Numbers
  <2>3. stream.dts_based => vdhp'.last_rap <= P \/ vdhp'.last_rap <= vdhp'.last_fed
    BY <2>1 DEF TypeInv, InStep
  <2>. QED  BY <2>1, <2>2, <2>3, TypesHere, EndKeeps
<1>3. CASE BeforeFirstValid
  <2>1. /\ vdhp' = [vdhp EXCEPT !.last_frame = P + 1] /\ call' = NoCall
        /\ frame' = [[picture |-> vdhp.first_valid, id |-> 0] EXCEPT !.id = stream.pts[call.picture]]
        /\ answer' = [picture |-> call.picture, shown |-> vdhp.first_valid, ok |-> TRUE]
        /\ UNCHANGED <<stream, libav, doubt>>
    BY <1>3 DEF BeforeFirstValid, Deliver, Answer
  <2>2. /\ vdhp' \in Handlers /\ vdhp'.last_rap = vdhp.last_rap /\ vdhp'.last_fed = vdhp.last_fed
        /\ vdhp.first_valid \in Numbers
    BY <2>1, TypesHere DEF Handlers
  <2>3. stream.pts[call.picture] \in Nat /\ vdhp.first_valid \in 0..P /\ call.picture \in 0..P
    BY <1>1, <2>2, MoreFacts DEF Numbers
  <2>4. frame' \in Buffers /\ answer' \in [picture : 0..P, shown : 0..P, ok : BOOLEAN]
    BY <2>1, <2>3 DEF Buffers
  <2>5. stream.dts_based => vdhp'.last_rap <= P \/ vdhp'.last_rap <= vdhp'.last_fed
    BY <2>2 DEF TypeInv, InStep
  <2>. QED  BY <2>1, <2>2, <2>4, <2>5, TypesHere, EndKeeps
<1>4. CASE GoOn
  <2>1. GetFrame(vdhp, vdhp.last_fed + 1, vdhp.last_rap, frame) /\ UNCHANGED <<stream, libav>>
    BY <1>4 DEF GoOn
  <2>2. stream.dts_based => vdhp.last_rap <= P \/ vdhp.last_rap <= vdhp.last_fed
    BY DEF TypeInv, InStep
  <2>3. vdhp.last_fed + 1 \in Nat /\ (vdhp.last_rap <= vdhp.last_fed => vdhp.last_rap < vdhp.last_fed + 1)
        /\ (vdhp.last_rap <= vdhp.last_fed => vdhp.last_rap <= vdhp.last_fed + 1)
    BY TypesHere
  <2>. QED  BY <1>1, <2>1, <2>2, <2>3, TypesHere, GetFrameKeeps
<1>5. CASE SeekFirst
  <2>. DEFINE rap == RapOf(call.picture)
              handler == [vdhp EXCEPT !.last_rap = rap]
  <2>1. SeekVideo(handler, rap, rap, call.mode, 0)
    BY <1>5 DEF SeekFirst
  <2>2. rap \in stream.key /\ rap \in 0..P /\ rap \in Nat /\ rap # UNSET /\ rap <= P
    <3>1. SampleNumber(call.picture) \in Int
      BY <1>1, SampleIs, MoreFacts DEF Numbers
    <3>2. rap \in stream.key
      BY <1>1, <3>1, PointIs DEF RapOf
    <3>. QED  BY <3>2, TypesHere DEF UNSET
  <2>. HIDE DEF rap
  <2>3. handler \in Handlers /\ handler.last_rap = rap
    BY <2>2, TypesHere DEF Handlers
  <2>4. call.mode \in Modes /\ 0 \in 0..MAX_ERROR_COUNT + 1 /\ 0 <= MAX_ERROR_COUNT
    BY TypesHere DEF Calls, MAX_ERROR_COUNT
  <2>. HIDE DEF handler
  <2>. QED  BY <1>1, <2>1, <2>2, <2>3, <2>4, SeekVideoKeeps
<1>. QED  BY <1>2, <1>3, <1>4, <1>5 DEF Begin

\* Where the packet has taken libav.
LEMMA DecodeType ==
  ASSUME StreamKept, TypeInv, Feeding, NEW o \in OutcomeSet, Decode(o)
  PROVE  libav' \in Libavs /\ libav'.next = Fed + 1
<1>1. Fed \in Numbers /\ P \in Nat /\ libav \in Libavs
  BY FedIs, TypesHere
<1>2. libav' = [next |-> Fed + 1, held |-> o.held, begin |-> IF libav.begin = 0 THEN Fed ELSE libav.begin]
  BY DEF Decode
<1>3. Fed + 1 \in 1..P + 1 /\ (IF libav.begin = 0 THEN Fed ELSE libav.begin) \in 0..P
  BY <1>1 DEF Numbers, Libavs
<1>. QED  BY <1>2, <1>3 DEF Libavs, OutcomeSet

\* What seek_video makes of a packet.
LEMMA ObservedType ==
  ASSUME StreamKept, TypeInv, NEW o \in OutcomeSet
  PROVE  Observed(o).count \in Int /\ Observed(o).delay \in Int /\ Observed(o).goal \in Int
<1>1. o.frame.id \in Int /\ o.got \in BOOLEAN /\ o.frame.id \in Nat
  BY DEF OutcomeSet, Buffers
<1>2. SeekDelay \in Int
  BY TypesHere DEF SeekDelay, Min2
<1>. QED  BY <1>1, <1>2, TypesHere DEF Observed

\* The number of the point is one.
LEMMA RapPtsType ==
  ASSUME StreamKept, TypeInv
  PROVE  RapPts \in Nat
BY TypesHere, OrderIdType DEF RapPts, Calls

\* The turns of the loop of seek_video.
LEMMA SeekTyped ==
  ASSUME StreamKept, TypeInv, Seek
  PROVE  TypeInv'
<1>1. /\ ~Idle /\ call.at # "asked" /\ stream' = stream
      /\ call.rap_pos # UNSET => call.rap \in stream.key
      /\ call.rap_pos = UNSET /\ (call.at = "seek" \/ call.errors > 0) => call.rap <= 1
  BY DEF Seek, SeekMisses, SeekFeeds, SeekEnds, Idle, TypeInv, InHand
<1>2. ASSUME stream.dts_based
      PROVE  /\ vdhp.last_rap <= P \/ vdhp.last_rap <= vdhp.last_fed
             /\ call.rap_pos # UNSET => vdhp.last_rap <= P
  BY <1>2 DEF TypeInv, InStep
<1>3. CASE SeekMisses
  <2>1. libav' \in Libavs
    <3>1. libav.next + 1 \in 1..P + 1
      BY <1>3, TypesHere DEF SeekMisses, SoughtTooFar, EndOfStream, Libavs
    <3>. QED  BY <1>3, <3>1, TypesHere DEF SeekMisses, Libavs
  <2>2. GoRetry(vdhp, frame)
    BY <1>3 DEF SeekMisses
  <2>. QED  BY <1>1, <1>2, <2>1, <2>2, TypesHere, FailKeeps
<1>4. CASE SeekFeeds
  <2>1. Feeding /\ call.at = "seek"
    BY <1>4 DEF SeekFeeds, Feeding
  <2>2. PICK o \in Outcomes(Fed) :
          /\ Decode(o)
          /\ IF o.got /\ o.frame.id = call.picture
             THEN GetFrame(AfterDecode(o, Observed(o).count), call.current + 1, call.rap, o.frame)
             ELSE IF Error(o) /\ call.mode = "normal" THEN GoRetry(AfterDecode(o, Observed(o).count), o.frame)
             ELSE /\ call' = [call EXCEPT !.current = @ + 1, !.goal = Observed(o).goal, !.delay = Observed(o).delay,
                                          !.ready = @ \/ o.got, !.rap_pts = RapPts]
                  /\ vdhp' = AfterDecode(o, Observed(o).count) /\ frame' = o.frame
                  /\ doubt' = (doubt \/ Error(o) \/ Unnoticed(o))
                  /\ UNCHANGED answer
    BY <1>4 DEF SeekFeeds
  <2>. DEFINE seen == Observed(o)
              handler == AfterDecode(o, seen.count)
  <2>3. o \in OutcomeSet /\ o.frame \in Buffers
    BY <2>1, OutcomeType DEF OutcomeSet
  <2>4. seen.count \in Int /\ seen.delay \in Int /\ seen.goal \in Int
    BY <2>3, ObservedType
  <2>5. handler \in Handlers /\ handler.last_fed = call.current
    BY <2>3, <2>4, AfterDecodeType DEF TypeInv
  <2>6. libav' \in Libavs /\ libav'.next = Fed + 1
    BY <2>1, <2>2, <2>3, DecodeType
  <2>7. ASSUME stream.dts_based
        PROVE  handler.last_rap <= P /\ Fed = call.current /\ call.rap <= call.current
    BY <2>1, <2>4, <2>7, FeedKeepsStep DEF TypeInv, InStep
  <2>. HIDE DEF seen, handler
  <2>8. CASE GetFrame(handler, call.current + 1, call.rap, o.frame)
    <3>1. call.current + 1 \in Nat /\ (call.rap <= call.current => call.rap < call.current + 1)
      BY TypesHere
    <3>. QED  BY <1>1, <2>3, <2>5, <2>6, <2>7, <2>8, <3>1, TypesHere, GetFrameKeeps
  <2>9. CASE GoRetry(handler, o.frame)
    BY <1>1, <2>3, <2>5, <2>6, <2>7, <2>9, FailKeeps
  <2>10. CASE /\ call' = [call EXCEPT !.current = @ + 1, !.goal = seen.goal, !.delay = seen.delay,
                                      !.ready = @ \/ o.got, !.rap_pts = RapPts]
              /\ vdhp' = handler /\ frame' = o.frame
              /\ doubt' = (doubt \/ Error(o) \/ Unnoticed(o))
              /\ UNCHANGED answer
    <3>1. call' \in Calls
      <4>1. \A c \in Calls : [c EXCEPT !.current = call.current + 1] \in Calls
        BY TypesHere DEF Calls
      <4>2. \A c \in Calls : [c EXCEPT !.goal = seen.goal] \in Calls
        BY <2>4 DEF Calls
      <4>3. \A c \in Calls : [c EXCEPT !.delay = seen.delay] \in Calls
        BY <2>4 DEF Calls
      <4>4. \A c \in Calls : [c EXCEPT !.ready = @ \/ o.got] \in Calls
        BY <2>3 DEF Calls, OutcomeSet
      <4>5. \A c \in Calls : [c EXCEPT !.rap_pts = RapPts] \in Calls
        BY RapPtsType DEF Calls
      <4>. DEFINE c1 == [call EXCEPT !.current = call.current + 1]
                  c2 == [c1 EXCEPT !.goal = seen.goal]
                  c3 == [c2 EXCEPT !.delay = seen.delay]
                  c4 == [c3 EXCEPT !.ready = @ \/ o.got]
      <4>6. c1 \in Calls
        BY <4>1, TypesHere
      <4>7. c2 \in Calls
        BY <4>2, <4>6
      <4>8. c3 \in Calls
        BY <4>3, <4>7
      <4>9. c4 \in Calls
        BY <4>4, <4>8
      <4>10. call' = [c4 EXCEPT !.rap_pts = RapPts]
        BY <2>10
      <4>. QED  BY <4>5, <4>9, <4>10
    <3>2. /\ call'.at = "seek" /\ call'.current = call.current + 1 /\ call'.rap = call.rap
          /\ call'.picture = call.picture /\ call'.rap_pos = call.rap_pos /\ call'.mode = call.mode
          /\ call'.errors = call.errors
      BY <2>1, <2>10, TypesHere DEF Calls
    <3>3. TypeOK'
      <4>1. doubt' \in BOOLEAN
        BY <2>10
      <4>. QED  BY <1>1, <2>3, <2>5, <2>6, <2>10, <3>1, <4>1, TypesHere DEF TypeOK, Buffers, Calls, Handlers, Libavs, Numbers
    <3>4. InHand'
      BY <1>1, <2>1, <3>2 DEF InHand, TypeInv, Idle
    <3>5. stream.dts_based => InStep'
      <4>. SUFFICES ASSUME stream.dts_based  PROVE InStep'
        OBVIOUS
      <4>1. vdhp'.last_rap <= P /\ libav'.next = call'.current /\ call'.rap < call'.current /\ call'.rap <= call'.current
            /\ call'.rap # call'.current
        BY <2>6, <2>7, <2>10, <3>2, TypesHere
      <4>. QED  BY <3>2, <4>1 DEF InStep
    <3>. QED  BY <1>1, <3>3, <3>4, <3>5 DEF TypeInv
  <2>. QED  BY <2>2, <2>8, <2>9, <2>10 DEF seen, handler
<1>5. CASE SeekEnds
  <2>. DEFINE handler == [vdhp EXCEPT !.delay_count = SeekDelay]
  <2>1. call.at = "seek" /\ UNCHANGED libav /\ GetFrame(handler, call.current, call.rap, frame)
    BY <1>5 DEF SeekEnds
  <2>2. handler \in Handlers /\ handler.last_rap = vdhp.last_rap /\ handler.last_fed = vdhp.last_fed
    <3>1. SeekDelay \in Int
      BY TypesHere DEF SeekDelay, Min2
    <3>. QED  BY <3>1, TypesHere DEF Handlers
  <2>. HIDE DEF handler
  <2>3. call.rap <= P
    BY <1>1, <2>1, TypesHere
  <2>4. ASSUME stream.dts_based
        PROVE  vdhp.last_rap <= P \/ (libav.next > P /\ call.current <= 1)
    <3>1. CASE call.rap_pos # UNSET
      BY <1>2, <2>4, <3>1
    <3>2. CASE call.current # call.rap
      BY <2>1, <2>4, <3>2 DEF TypeInv, InStep
    <3>3. CASE call.rap_pos = UNSET /\ call.current = call.rap
      <4>1. call.current <= 1 /\ call.goal = call.picture + stream.announced
        BY <1>1, <2>1, <2>4, <3>3 DEF TypeInv, InStep
      <4>2. call.picture \in 1..P
        BY <1>1 DEF TypeInv, InHand, Numbers
      <4>3. ~Beyond(call.current, call.goal)
        BY <4>1, <4>2, TypesHere DEF Beyond
      <4>. QED  BY <1>5, <4>1, <4>3 DEF SeekEnds, EndOfStream
    <3>. QED  BY <3>1, <3>2, <3>3
  <2>5. ASSUME stream.dts_based
        PROVE  call.current = call.rap \/ libav.next > P \/ libav.next = call.current
    BY <2>1, <2>5 DEF TypeInv, InStep, EndOfStream
  <2>. QED  BY <1>1, <1>2, <2>1, <2>2, <2>3, <2>4, <2>5, TypesHere, GetFrameKeeps
<1>. QED  BY <1>3, <1>4, <1>5 DEF Seek

(* Leaving with what there is, or failing.                                 *)
LEMMA LeaveKeeps ==
  ASSUME StreamKept, TypeInv, call.at \in {"get", "flush"}, stream' = stream, libav' = libav, NEW got, Leave(got)
  PROVE  TypeInv'
<1>1. /\ ~Idle /\ call.at # "asked" /\ call.at # "seek"
      /\ Succeed(vdhp, frame) \/ GoRetry(vdhp, frame)
  BY DEF Leave, Idle
<1>2. stream.dts_based => /\ vdhp.last_rap <= P \/ vdhp.last_rap <= vdhp.last_fed
                          /\ call.rap_pos # UNSET => vdhp.last_rap <= P
  BY DEF TypeInv, InStep
<1>3. libav' \in Libavs
  BY TypesHere
<1>. QED  BY <1>1, <1>2, <1>3, TypesHere, FailKeeps, SucceedKeeps

\* The turns of the loop of get_frame.
LEMMA GetTyped ==
  ASSUME StreamKept, TypeInv, Get
  PROVE  TypeInv'
<1>1. call.at = "get" /\ ~Idle /\ stream' = stream
  BY DEF Get, GetFeeds, GetEnds, Idle
<1>2. CASE GetFeeds
  <2>1. Feeding
    BY <1>2 DEF GetFeeds, Feeding
  <2>2. PICK o \in Outcomes(Fed) :
          LET id == o.frame.id
              delay == IF ~o.got THEN vdhp.delay_count + 1
                       ELSE IF id = 0 THEN vdhp.delay_count ELSE call.current - id
          IN  /\ Decode(o)
              /\ \/ GoRetry(AfterDecode(o, vdhp.delay_count), o.frame)
                 \/ Succeed(AfterDecode(o, delay), o.frame)
                 \/ GoRetry(AfterDecode(o, delay), o.frame)
                 \/ GoesOn([call EXCEPT !.current = @ + 1, !.got = o.got,
                                        !.goal = @ + delay - vdhp.delay_count],
                          AfterDecode(o, delay), o.frame)
    BY <1>2 DEF GetFeeds
  <2>. DEFINE id == o.frame.id
              delay == IF ~o.got THEN vdhp.delay_count + 1
                       ELSE IF id = 0 THEN vdhp.delay_count ELSE call.current - id
  <2>3. o \in OutcomeSet /\ o.frame \in Buffers /\ id \in Int /\ o.got \in BOOLEAN
    <3>1. o \in OutcomeSet
      BY <2>1, OutcomeType
    <3>. QED  BY <3>1 DEF OutcomeSet, Buffers
  <2>4. delay \in Int /\ vdhp.delay_count \in Int
    BY <2>3, TypesHere
  <2>. HIDE DEF delay
  <2>5. libav' \in Libavs /\ libav'.next = Fed + 1
    BY <2>1, <2>2, <2>3, DecodeType
  <2>6. ASSUME NEW d \in Int
        PROVE  /\ AfterDecode(o, d) \in Handlers /\ AfterDecode(o, d).last_fed = call.current
               /\ stream.dts_based =>
                    /\ AfterDecode(o, d).last_rap <= P \/ AfterDecode(o, d).last_rap <= call.current
                    /\ call.rap_pos # UNSET => AfterDecode(o, d).last_rap <= P /\ Fed = call.current
    BY <2>1, <2>3, FeedKeepsStep, AfterDecodeType DEF TypeInv
  <2>7. ASSUME NEW d \in Int, GoRetry(AfterDecode(o, d), o.frame)  PROVE TypeInv'
    BY <1>1, <2>3, <2>5, <2>6, <2>7, FailKeeps
  <2>8. CASE Succeed(AfterDecode(o, delay), o.frame)
    BY <1>1, <2>3, <2>4, <2>5, <2>6, <2>8, SucceedKeeps
  <2>9. CASE GoesOn([call EXCEPT !.current = @ + 1, !.got = o.got, !.goal = @ + delay - vdhp.delay_count],
                    AfterDecode(o, delay), o.frame)
    <3>1. /\ call' = [call EXCEPT !.current = @ + 1, !.got = o.got, !.goal = @ + delay - vdhp.delay_count]
          /\ vdhp' = AfterDecode(o, delay) /\ frame' = o.frame /\ answer' = answer /\ doubt' = doubt
      BY <2>9 DEF GoesOn
    <3>2. call' \in Calls
      <4>1. call.current + 1 \in Nat /\ call.goal + delay - vdhp.delay_count \in Int
        BY <2>4, TypesHere
      <4>. QED  BY <2>3, <3>1, <4>1, TypesHere DEF Calls
    <3>3. /\ call'.at = "get" /\ call'.current = call.current + 1 /\ call'.rap = call.rap
          /\ call'.picture = call.picture /\ call'.rap_pos = call.rap_pos /\ call'.mode = call.mode
          /\ call'.errors = call.errors
      BY <1>1, <3>1, TypesHere DEF Calls
    <3>4. TypeOK'
      BY <1>1, <2>3, <2>4, <2>5, <2>6, <3>1, <3>2, TypesHere DEF TypeOK, Buffers, Calls, Handlers, Libavs, Numbers
    <3>5. InHand'
      BY <1>1, <3>3 DEF InHand, TypeInv, Idle
    <3>6. stream.dts_based => InStep'
      <4>. SUFFICES ASSUME stream.dts_based  PROVE InStep'
        OBVIOUS
      <4>1. /\ vdhp'.last_rap <= P \/ vdhp'.last_rap <= call.current
            /\ call'.rap_pos # UNSET => vdhp'.last_rap <= P /\ libav'.next = call'.current
            /\ vdhp'.last_fed = call.current /\ vdhp'.last_rap \in Nat
        BY <2>4, <2>5, <2>6, <3>1, <3>3 DEF Handlers
      <4>2. call'.rap <= P \/ call'.rap < call'.current
        <5>1. call.rap <= P \/ call.rap < call.current
          BY <1>1 DEF TypeInv, InStep
        <5>. QED  BY <3>3, <5>1, TypesHere
      <4>3. vdhp'.last_rap <= call.current => vdhp'.last_rap <= call'.current
        BY <3>3, <4>1, TypesHere
      <4>. QED  BY <3>3, <4>1, <4>2, <4>3 DEF InStep
    <3>. QED  BY <1>1, <3>4, <3>5, <3>6 DEF TypeInv
  <2>. QED  BY <2>2, <2>4, <2>7, <2>8, <2>9 DEF delay
<1>3. CASE GetEnds
  <2>1. libav' = libav
    BY <1>3 DEF GetEnds
  <2>2. CASE Leave(call.got)
    BY <1>1, <2>1, <2>2, LeaveKeeps
  <2>3. CASE call.current > P /\ GoesOn([call EXCEPT !.at = "flush"], vdhp, frame)
    <3>1. /\ call' = [call EXCEPT !.at = "flush"] /\ vdhp' = vdhp /\ frame' = frame
          /\ answer' = answer /\ doubt' = doubt
      BY <2>3 DEF GoesOn
    <3>2. /\ call' \in Calls /\ call'.at = "flush" /\ call'.current = call.current /\ call'.rap = call.rap
          /\ call'.picture = call.picture /\ call'.rap_pos = call.rap_pos /\ call'.mode = call.mode
          /\ call'.errors = call.errors
      BY <3>1, TypesHere DEF Calls
    <3>3. TypeOK'
      BY <1>1, <2>1, <3>1, <3>2, TypesHere DEF TypeOK, Buffers, Calls, Handlers, Libavs, Numbers
    <3>4. InHand'
      BY <1>1, <3>2 DEF InHand, TypeInv, Idle
    <3>5. stream.dts_based => InStep'
      BY <1>1, <2>3, <3>1, <3>2, TypesHere DEF InStep, TypeInv
    <3>. QED  BY <1>1, <3>3, <3>4, <3>5 DEF TypeInv
  <2>. QED  BY <1>3, <2>2, <2>3 DEF GetEnds
<1>. QED  BY <1>2, <1>3 DEF Get

\* The turns of its second loop.
LEMMA FlushTyped ==
  ASSUME StreamKept, TypeInv, Flush
  PROVE  TypeInv'
<1>1. call.at = "flush" /\ ~Idle /\ call.at # "asked" /\ call.at # "seek" /\ stream' = stream
  BY DEF Flush, AlreadyStored, FlushesNothing, Flushes, FlushFails, FlushEnds, FlushCrashes, Idle
<1>2. ASSUME stream.dts_based
      PROVE  /\ vdhp.last_rap <= P \/ vdhp.last_rap <= call.current
             /\ call.rap_pos # UNSET => vdhp.last_rap <= P
  BY <1>1, <1>2 DEF TypeInv, InStep
<1>. DEFINE handler == [vdhp EXCEPT !.last_fed = call.current]
<1>3. handler \in Handlers /\ handler.last_fed = call.current /\ handler.last_rap = vdhp.last_rap
  BY TypesHere DEF Handlers
<1>4. CASE AlreadyStored
  <2>1. Succeed(handler, frame) /\ libav' \in Libavs
    BY <1>4, TypesHere DEF AlreadyStored
  <2>. QED  BY <1>1, <1>2, <1>3, <2>1, TypesHere, SucceedKeeps
<1>5. CASE FlushesNothing
  <2>1. GoRetry(handler, Empty) /\ libav' \in Libavs
    BY <1>5, TypesHere DEF FlushesNothing
  <2>2. Empty \in Buffers
    BY TypesHere DEF Empty, Buffers
  <2>. QED  BY <1>1, <1>2, <1>3, <2>1, <2>2, FailKeeps
<1>9. CASE FlushFails
  <2>1. GoRetry(vdhp, Empty) /\ libav' \in Libavs
    BY <1>9, TypesHere DEF FlushFails
  <2>2. Empty \in Buffers
    BY TypesHere DEF Empty, Buffers
  <2>3. stream.dts_based => vdhp.last_rap <= P \/ vdhp.last_rap <= vdhp.last_fed
    BY DEF TypeInv, InStep
  <2>. QED  BY <1>1, <1>2, <2>1, <2>2, <2>3, TypesHere, FailKeeps
<1>6. CASE Flushes
  <2>. DEFINE h == First(libav.held)
              delay == IF h.id = 0 THEN vdhp.delay_count ELSE call.current - h.id
  <2>1. libav.held # {} /\ libav' = [libav EXCEPT !.held = @ \ {h}]
        /\ GoesOn([call EXCEPT !.current = @ + 1, !.got = TRUE, !.goal = @ + delay - vdhp.delay_count],
                   [vdhp EXCEPT !.last_fed = call.current, !.delay_count = delay], h)
    BY <1>6 DEF Flushes
  <2>2. libav.held \in SUBSET Buffers /\ libav' \in Libavs
    BY <2>1, TypesHere DEF Libavs
  <2>3. h \in Buffers
    BY <2>1, <2>2, FirstIn, TypesHere
  <2>. HIDE DEF h
  <2>4. delay \in Int
    BY <2>3, TypesHere DEF Buffers
  <2>. HIDE DEF delay
  <2>5. /\ call' = [call EXCEPT !.current = @ + 1, !.got = TRUE, !.goal = @ + delay - vdhp.delay_count]
        /\ vdhp' = [vdhp EXCEPT !.last_fed = call.current, !.delay_count = delay] /\ frame' = h
        /\ answer' = answer /\ doubt' = doubt
    BY <2>1 DEF GoesOn
  <2>6. call' \in Calls
    <3>1. call.current + 1 \in Nat /\ call.goal + delay - vdhp.delay_count \in Int
      BY <2>4, TypesHere
    <3>. QED  BY <2>5, <3>1, TypesHere DEF Calls
  <2>7. /\ call'.at = "flush" /\ call'.current = call.current + 1 /\ call'.rap = call.rap
        /\ call'.picture = call.picture /\ call'.rap_pos = call.rap_pos /\ call'.mode = call.mode
        /\ call'.errors = call.errors
    BY <1>1, <2>5, TypesHere DEF Calls
  <2>8. vdhp' \in Handlers /\ vdhp'.last_fed = call.current /\ vdhp'.last_rap = vdhp.last_rap
    BY <2>4, <2>5, TypesHere DEF Handlers
  <2>9. TypeOK'
    BY <1>1, <2>2, <2>3, <2>5, <2>6, <2>8, TypesHere DEF TypeOK, Buffers, Calls, Handlers, Libavs, Numbers
  <2>10. InHand'
    BY <1>1, <2>7 DEF InHand, TypeInv, Idle
  <2>11. stream.dts_based => InStep'
    <3>1. vdhp.last_rap <= call.current => vdhp.last_rap <= call'.current
      BY <2>7, TypesHere
    <3>. QED  BY <1>2, <2>7, <2>8, <3>1 DEF InStep
  <2>. QED  BY <1>1, <2>9, <2>10, <2>11 DEF TypeInv
<1>7. CASE FlushEnds
  BY <1>1, <1>7, LeaveKeeps DEF FlushEnds
<1>8. CASE FlushCrashes
  <2>1. call' = [call EXCEPT !.at = "crashed"] /\ UNCHANGED <<stream, vdhp, libav, frame, answer, doubt>>
    BY <1>8 DEF FlushCrashes
  <2>2. /\ call' \in Calls /\ call'.at = "crashed" /\ call'.rap = call.rap
        /\ call'.picture = call.picture /\ call'.rap_pos = call.rap_pos /\ call'.mode = call.mode
        /\ call'.errors = call.errors
    BY <2>1, TypesHere DEF Calls
  <2>3. TypeOK'
    BY <2>1, <2>2, TypesHere DEF TypeOK, Buffers, Calls, Handlers, Libavs, Numbers
  <2>4. InHand'
    BY <1>1, <2>1, <2>2 DEF InHand, TypeInv, Idle
  <2>5. stream.dts_based => InStep'
    BY <2>1, <2>2 DEF InStep, TypeInv
  <2>. QED  BY <1>1, <2>3, <2>4, <2>5 DEF TypeInv
<1>. QED  BY <1>4, <1>5, <1>6, <1>7, <1>8, <1>9 DEF Flush

\* What follows a failed attempt.
LEMMA RetryTyped ==
  ASSUME StreamKept, TypeInv, Retry
  PROVE  TypeInv'
<1>1. call.at = "retry" /\ ~Idle /\ call.picture \in Numbers
  BY DEF Retry, GiveUp, RetryIgnoring, RetryEarlier, Idle, TypeInv, InHand
<1>2. /\ call.rap_pos # UNSET => call.rap \in stream.key
      /\ call.rap_pos = UNSET /\ call.errors > 0 => call.rap <= 1
      /\ call.mode # "aggressive" => call.errors <= MAX_ERROR_COUNT
      /\ call.errors \in 0..MAX_ERROR_COUNT + 1 /\ call.mode \in Modes /\ call.rap_pos \in 0..P
  BY <1>1, TypesHere DEF TypeInv, InHand, Calls
<1>3. CASE GiveUp
  <2>1. /\ call' = NoCall /\ answer' = [picture |-> call.picture, shown |-> 0, ok |-> FALSE] /\ doubt' = TRUE
        /\ UNCHANGED <<stream, vdhp, libav, frame>>
    BY <1>3 DEF GiveUp, Answer
  <2>2. answer' \in [picture : 0..P, shown : 0..P, ok : BOOLEAN]
    BY <1>1, <2>1, TypesHere DEF Numbers
  <2>3. stream.dts_based => vdhp'.last_rap <= P \/ vdhp'.last_rap <= vdhp'.last_fed
    BY <2>1 DEF TypeInv, InStep
  <2>. QED  BY <2>1, <2>2, <2>3, TypesHere, EndKeeps
<1>4. CASE RetryIgnoring
  <2>1. SeekVideo(vdhp, call.rap, call.rap_pos, "aggressive", call.errors + 1)
    BY <1>4 DEF RetryIgnoring
  <2>2. call.errors + 1 \in 0..MAX_ERROR_COUNT + 1 /\ "aggressive" \in Modes
    BY <1>2, <1>4 DEF RetryIgnoring, MAX_ERROR_COUNT, Modes
  <2>3. call.rap_pos = UNSET => call.rap <= 1
    BY <1>2, <1>4 DEF RetryIgnoring, Exhausted, MAX_ERROR_COUNT
  <2>4. stream.dts_based => /\ vdhp.last_rap <= P \/ vdhp.last_rap <= vdhp.last_fed
                            /\ call.rap_pos # UNSET => vdhp.last_rap <= P
    BY DEF TypeInv, InStep
  <2>. QED  BY <1>1, <1>2, <2>1, <2>2, <2>3, <2>4, TypesHere, SeekVideoKeeps
<1>5. CASE RetryEarlier
  <2>. DEFINE rap == FindRandomAccessiblePoint(call.picture, call.rap - 1)
              handler == [vdhp EXCEPT !.last_rap = rap]
  <2>1. SeekVideo(handler, rap, rap, call.mode, call.errors + 1)
    BY <1>5 DEF RetryEarlier
  <2>2. rap \in stream.key /\ rap \in 0..P /\ rap \in Nat /\ rap # UNSET /\ rap <= P
    <3>1. call.rap - 1 \in Int
      BY TypesHere
    <3>2. rap \in stream.key
      BY <1>1, <3>1, PointIs
    <3>. QED  BY <3>2, TypesHere DEF UNSET
  <2>. HIDE DEF rap
  <2>3. handler \in Handlers /\ handler.last_rap = rap
    BY <2>2, TypesHere DEF Handlers
  <2>4. call.errors + 1 \in 0..MAX_ERROR_COUNT + 1 /\ call.errors + 1 <= MAX_ERROR_COUNT
    BY <1>2, <1>5 DEF RetryEarlier, Exhausted, MAX_ERROR_COUNT
  <2>. HIDE DEF handler
  <2>. QED  BY <1>1, <1>2, <2>1, <2>2, <2>3, <2>4, SeekVideoKeeps
<1>. QED  BY <1>3, <1>4, <1>5 DEF Retry

\* The beginning.
LEMMA InitTyped ==
  ASSUME Init
  PROVE  StreamKept /\ TypeInv
<1>1. StreamKept /\ StreamOK(stream) /\ P \in Nat /\ P > 1
  BY MoreFacts DEF Init, StreamKept
<1>2. FirstValid \in Numbers
  BY <1>1, FirstValidIs
<1>3. vdhp \in Handlers /\ vdhp.last_rap = 0
  BY <1>1, <1>2 DEF Init, Handlers
<1>4. call \in Calls /\ call = NoCall
  BY <1>1 DEF Init, NoCall, Calls, Modes, MAX_ERROR_COUNT
<1>5. libav \in Libavs
  BY <1>1 DEF Init, Libavs
<1>6. frame \in Buffers
  <2>1. 1 \in 0..P /\ 0 \in 0..P
    BY <1>1
  <2>2. SampleNumber(1) \in Nat
    BY <1>1, SampleIs, StreamFacts DEF Numbers
  <2>3. OutputOrderId(SampleNumber(1)) \in Nat
    BY <1>1, <2>2, OrderIdType
  <2>. QED  BY <2>1, <2>3 DEF Init, Empty, Buffers
<1>7. answer \in [picture : 0..P, shown : 0..P, ok : BOOLEAN] /\ doubt \in BOOLEAN
  <2>1. 0 \in 0..P /\ answer = [picture |-> 0, shown |-> 0, ok |-> FALSE] /\ doubt = FALSE
    BY <1>1 DEF Init
  <2>. QED  BY <2>1
<1>8. InHand
  BY <1>4 DEF InHand, NoCall, Idle, UNSET, MAX_ERROR_COUNT
<1>9. InStep
  BY <1>1, <1>3, <1>4 DEF InStep, NoCall, UNSET
<1>. QED  BY <1>1, <1>3, <1>4, <1>5, <1>6, <1>7, <1>8, <1>9 DEF TypeInv, TypeOK

\* Every step.
LEMMA TypeStep ==
  ASSUME StreamKept, TypeInv, [Next]_vars
  PROVE  StreamKept' /\ TypeInv'
<1>1. ASSUME UNCHANGED vars  PROVE StreamKept' /\ TypeInv'
  BY <1>1 DEF vars, StreamKept, TypeInv, TypeOK, InHand, InStep, Idle, EndOfStream, Buffers, Calls, Handlers, Libavs, Numbers
<1>2. CASE Next
  <2>1. ASSUME NEW p \in Numbers, Ask(p)  PROVE TypeInv'
    BY <2>1, AskTyped
  <2>2. ASSUME Handle  PROVE TypeInv'
    <3>1. CASE Begin
      BY <3>1, BeginTyped
    <3>2. CASE Seek
      BY <3>2, SeekTyped
    <3>3. CASE Get
      BY <3>3, GetTyped
    <3>4. CASE Flush
      BY <3>4, FlushTyped
    <3>5. CASE Retry
      BY <3>5, RetryTyped
    <3>. QED  BY <2>2, <3>1, <3>2, <3>3, <3>4, <3>5 DEF Handle
  <2>3. CASE Crashed
    BY <1>1, <2>3 DEF Crashed
  <2>4. stream' = stream
    BY <1>2 DEF Next, Ask, Handle, Begin, SameAgain, BeforeFirstValid, GoOn, SeekFirst, SeekVideo,
                Seek, SeekMisses, SeekFeeds, SeekEnds, Get, GetFeeds, GetEnds,
                Flush, AlreadyStored, FlushesNothing, Flushes, FlushFails, FlushEnds, FlushCrashes,
                Retry, GiveUp, RetryIgnoring, RetryEarlier, Crashed, vars
  <2>. QED  BY <1>2, <2>1, <2>2, <2>3, <2>4 DEF Next, StreamKept
<1>. QED  BY <1>1, <1>2

(* The types are kept on every stream, however broken, and a request gives *)
(* up or ignores errors after MAX_ERROR_COUNT retries.                     *)
THEOREM TypeCorrect == Spec => []TypeOK
<1>1. Init => StreamKept /\ TypeInv
  BY InitTyped
<1>2. (StreamKept /\ TypeInv) /\ [Next]_vars => (StreamKept /\ TypeInv)'
  BY TypeStep
<1>3. StreamKept /\ TypeInv => TypeOK
  BY DEF TypeInv
<1>. QED  BY <1>1, <1>2, <1>3, PTL DEF Spec

(***************************************************************************)
(* The sound streams: how the numbers keep in step                         *)
(***************************************************************************)
SoundHere == StreamKept /\ TypeInv /\ Sound /\ SoundInv

\* What a sound stream gives.
LEMMA SoundFacts ==
  ASSUME SoundHere
  PROVE  /\ StreamOK(stream) /\ stream.broken = {} /\ ~Short /\ ~Mistakable
         /\ (\A d \in stream.drift : d <= 0) /\ Told /\ ~stream.flush_fails
         /\ H \in Nat /\ H <= stream.announced
         /\ \A d \in Numbers : stream.shows[d] \in 1..P
         /\ vdhp.first_valid = stream.shows[1] /\ vdhp.first_valid \in 1..P
         /\ call.errors = 0 /\ vdhp.delay_count >= 0
         /\ call.at \in {"idle", "asked", "seek", "get", "flush"}
BY MoreFacts, StreamFacts DEF SoundHere, Sound, SoundInv, Numbers

(* A point is not behind the picture it shows: what was coded before it is *)
(* shown before it.                                                        *)
LEMMA PointEarly ==
  ASSUME StreamOK(stream), NEW r \in stream.key
  PROVE  r \in 1..P /\ stream.shows[r] \in 1..P /\ r <= stream.shows[r]
<1>. DEFINE B == 1..(r - 1)
<1>1. r \in 1..P /\ r \in Numbers /\ stream.shows[r] \in 1..P /\ P \in Nat
  BY StreamFacts DEF Numbers
<1>2. B \in SUBSET Numbers /\ stream.shows[r] \in Nat \ {0}
  BY <1>1 DEF Numbers
<1>3. \A d \in B : stream.shows[d] < stream.shows[r]
  BY <1>1, <1>2, StreamFacts
<1>4. Cardinality(B) = r - 1
  BY <1>1, FS_Interval
<1>. HIDE DEF B
<1>5. Cardinality(B) <= stream.shows[r] - 1
  BY <1>2, <1>3, FewBefore
<1>. QED  BY <1>1, <1>4, <1>5

(* Where the pictures come without numbers, they are coded as shown.       *)
LEMMA InOrder ==
  ASSUME ~Numbered, NEW c \in Numbers
  PROVE  stream.shows[c] = c
BY DEF Numbered, Reordered

(* The decoder has got as far as packet c, of those from point r on.       *)
RunsOn(r, c) == /\ r \in stream.key /\ r <= c
                /\ libav'.begin = r /\ libav'.next = Min2(c, P) + 1
                /\ libav'.held = Held(Waiting(r, c))

\* A handler and a buffer, about to be taken over, that agree with it.
SettlesAt(handler, buffer, r, c) ==
  /\ RunsOn(r, c) /\ stream.shows[r] + H <= c
  /\ buffer.picture = c - H /\ buffer.id # c - H + 1
  /\ handler.delay_count = H /\ handler.has_dec_frame
  /\ handler.last_fed = c /\ handler.last_rap <= c
  /\ handler.first_valid = vdhp.first_valid

\* A step leaves the decoder settled.
LEMMA SettledNext ==
  ASSUME stream' = stream, NEW r, NEW c, SettlesAt(vdhp', frame', r, c)
  PROVE  /\ vdhp'.last_fed = c => Settled(vdhp.last_fed)'
         /\ call'.current - 1 = c => Settled(call.current - 1)'
<1>1. /\ r \in stream.key /\ r <= c /\ libav'.begin = r /\ libav'.next = Min2(c, P) + 1
      /\ libav'.held = Held(Waiting(r, c)) /\ stream.shows[r] + H <= c
      /\ frame'.picture = c - H /\ frame'.id # c - H + 1
      /\ vdhp'.delay_count = H /\ vdhp'.has_dec_frame /\ vdhp'.last_fed = c /\ vdhp'.last_rap <= c
  BY DEF SettlesAt, RunsOn
<1>2. H' = H
  BY DEF H
<1>3. vdhp'.last_fed = c => (libav.held = Held(Waiting(libav.begin, vdhp.last_fed)))'
  BY <1>1, <1>2 DEF Held, Waiting, Buffer, Own, Numbered, Reordered
<1>4. call'.current - 1 = c => (libav.held = Held(Waiting(libav.begin, call.current - 1)))'
  BY <1>1, <1>2 DEF Held, Waiting, Buffer, Own, Numbered, Reordered
<1>5. vdhp'.last_fed = c => Settled(vdhp.last_fed)'
  BY <1>1, <1>2, <1>3 DEF Settled, Running, Min2
<1>6. call'.current - 1 = c => Settled(call.current - 1)'
  BY <1>1, <1>2, <1>4 DEF Settled, Running, Min2
<1>. QED  BY <1>5, <1>6

(* What was settled and has not been touched.                              *)
LEMMA SettledStays ==
  ASSUME NEW handler, NEW c, Settled(c), libav' = libav,
         handler.delay_count = vdhp.delay_count, handler.has_dec_frame = vdhp.has_dec_frame,
         handler.last_fed = c, handler.last_rap = vdhp.last_rap, handler.first_valid = vdhp.first_valid
  PROVE  SettlesAt(handler, frame, libav.begin, c)
BY DEF Settled, Running, SettlesAt, RunsOn

(* The request is answered with picture c - H, and the decoder is there.   *)
LEMMA SucceedSound ==
  ASSUME SoundHere, Wanted, stream' = stream, NEW handler \in Handlers, NEW buffer \in Buffers, NEW r, NEW c \in Int,
         Succeed(handler, buffer), SettlesAt(handler, buffer, r, c), call.picture = c - H
  PROVE  SoundInv'
<1>1. /\ vdhp' = [handler EXCEPT !.last_frame = call.picture] /\ call' = NoCall
      /\ frame' = [buffer EXCEPT !.id = stream.pts[call.picture]]
      /\ answer' = [picture |-> call.picture, shown |-> buffer.picture, ok |-> TRUE] /\ doubt' = doubt
  BY DEF Succeed, Deliver, Answer
<1>2. /\ vdhp'.last_frame = call.picture /\ vdhp'.last_fed = handler.last_fed
      /\ vdhp'.last_rap = handler.last_rap /\ vdhp'.delay_count = handler.delay_count
      /\ vdhp'.has_dec_frame = handler.has_dec_frame /\ vdhp'.first_valid = handler.first_valid
  BY <1>1 DEF Handlers
<1>3. stream.pts[call.picture] # call.picture + 1
  BY SoundFacts DEF Mistakable, Wanted
<1>4. frame'.picture = buffer.picture /\ frame'.id = stream.pts[call.picture]
  BY <1>1 DEF Buffers
<1>5. SettlesAt(vdhp', frame', r, c) /\ vdhp'.last_fed = c
  <2>1. frame'.id # c - H + 1 /\ frame'.picture = c - H
    BY <1>3, <1>4 DEF SettlesAt
  <2>. QED  BY <1>2, <2>1 DEF SettlesAt, RunsOn
<1>6. Settled(vdhp.last_fed)'
  BY <1>5, SettledNext
<1>7. H' = H /\ H \in Nat /\ vdhp'.delay_count = H
  BY <1>5, SoundFacts DEF H, SettlesAt
<1>8. Remembered'
  BY <1>2, <1>5, <1>6, <1>7 DEF Remembered, Wanted, SettlesAt
<1>9. vdhp'.first_valid = stream.shows[1] /\ vdhp'.first_valid = vdhp.first_valid
  BY <1>2, SoundFacts DEF SettlesAt
<1>10. answer'.shown = (IF answer'.picture < vdhp'.first_valid THEN vdhp'.first_valid ELSE answer'.picture)
  BY <1>1, <1>9, SoundFacts DEF SettlesAt, Wanted, Numbers
<1>. QED  BY <1>1, <1>7, <1>8, <1>9, <1>10 DEF SoundInv, NoCall, Promised, Idle

\* A request that goes on as it should.
LEMMA GettingNext ==
  ASSUME SoundHere, Wanted, stream' = stream, NEW r, NEW c \in Nat, SettlesAt(vdhp', frame', r, c),
         call'.at = "get" \/ (call'.at = "flush" /\ P <= c /\ H > 0),
         call'.picture = call.picture, call'.errors = call.errors, call'.current = c + 1, call'.rap <= c,
         call'.rap \in Nat, call'.goal = call.picture + H, c <= call.picture + H,
         c = call.picture + H => call'.got
  PROVE  SoundInv'
<1>1. call'.current - 1 = c
  OBVIOUS
<1>2. Settled(call.current - 1)'
  BY <1>1, SettledNext
<1>3. H' = H /\ H \in Nat /\ vdhp'.delay_count = H /\ vdhp'.first_valid = vdhp.first_valid
  BY SoundFacts DEF H, SettlesAt
<1>4. call.picture \in Nat /\ P \in Nat
  BY TypesHere DEF Wanted, SoundHere, Numbers
<1>5. Getting'
  BY <1>2, <1>3, <1>4 DEF Getting, Wanted
<1>. QED  BY <1>3, <1>4, <1>5, SoundFacts DEF SoundInv, Idle

(* get_frame has begun, or has found the picture in the buffer.            *)
LEMMA GetFrameSound ==
  ASSUME SoundHere, Wanted, stream' = stream, NEW handler \in Handlers, NEW buffer \in Buffers, NEW r, NEW c \in Nat,
         NEW rap \in Nat, NEW start \in Nat, start = c + 1,
         GetFrame(handler, start, rap, buffer), SettlesAt(handler, buffer, r, c), rap <= c, c <= call.picture + H
  PROVE  SoundInv'
<1>1. call.picture \in Nat /\ H \in Nat /\ handler.delay_count = H /\ call \in Calls
  BY SoundFacts, TypesHere DEF Wanted, SoundHere, SettlesAt, Numbers
<1>2. CASE Succeed(handler, buffer) /\ c = call.picture + H
  BY <1>1, <1>2, SucceedSound
<1>3. CASE /\ GoesOn([call EXCEPT !.at = "get", !.current = start, !.goal = call.picture + handler.delay_count,
                                  !.rap = rap, !.got = FALSE], handler, buffer)
           /\ c # call.picture + H
  <2>1. /\ call' = [call EXCEPT !.at = "get", !.current = start, !.goal = call.picture + handler.delay_count,
                                !.rap = rap, !.got = FALSE]
        /\ vdhp' = handler /\ frame' = buffer
    BY <1>3 DEF GoesOn
  <2>2. /\ call'.at = "get" /\ call'.picture = call.picture /\ call'.errors = call.errors
        /\ call'.current = c + 1 /\ call'.rap = rap /\ call'.goal = call.picture + H
    BY <1>1, <2>1 DEF Calls
  <2>. QED  BY <1>1, <1>3, <2>1, <2>2, GettingNext
<1>. QED  BY <1>1, <1>2, <1>3 DEF GetFrame, Beyond

(* Where a request that is being sought or got has its packet.             *)
LEMMA NextFed ==
  ASSUME SoundHere, Feeding
  PROVE  Fed = call.current /\ call.current \in Numbers
<1>1. P \in Nat /\ libav.next \in Nat /\ libav.next >= 1 /\ libav.next <= P /\ call.current \in Nat /\ call.rap \in Nat
  <2>1. libav \in Libavs /\ P \in Nat /\ libav.next \in Nat /\ call.current \in Nat /\ call.rap \in Nat
    BY TypesHere DEF SoundHere
  <2>. QED  BY <2>1 DEF Feeding, CanFeed, EndOfStream, Libavs
<1>2. CASE call.at = "seek"
  <2>1. Seeking
    BY <1>2 DEF SoundHere, SoundInv
  <2>2. CASE call.current = call.rap
    <3>1. Fresh(call.rap) /\ call.rap \in 1..P
      BY <2>1, <2>2, SoundFacts, PointEarly DEF Seeking
    <3>. QED  BY <1>1, <2>2, <3>1 DEF Fresh, Fed, Corrects, Numbers
  <2>3. CASE call.current # call.rap
    <3>1. libav.next = Min2(call.current - 1, P) + 1 /\ call.current > call.rap
      BY <2>1, <2>3 DEF Seeking, Underway, Running
    <3>2. libav.next = call.current
      BY <1>1, <3>1 DEF Min2
    <3>. QED  BY <1>1, <2>3, <3>2 DEF Fed, Corrects, Numbers
  <2>. QED  BY <2>2, <2>3
<1>3. CASE call.at = "get"
  <2>1. libav.next = Min2(call.current - 1, P) + 1 /\ call.rap < call.current
    BY <1>3 DEF SoundHere, SoundInv, Getting, Settled, Running
  <2>2. libav.next = call.current /\ call.rap # call.current
    BY <1>1, <2>1 DEF Min2
  <2>. QED  BY <1>1, <2>2 DEF Fed, Corrects, Numbers
<1>. QED  BY <1>2, <1>3 DEF Feeding

\* What is remembered between requests, and not touched.
LEMMA RememberedStays ==
  ASSUME Remembered, UNCHANGED <<stream, vdhp, libav, frame>>
  PROVE  Remembered'
<1>1. CASE vdhp.last_frame \in Numbers
  <2>1. Settled(vdhp.last_fed) /\ vdhp.last_frame = vdhp.last_fed - H /\ vdhp.last_frame >= vdhp.first_valid
    BY <1>1 DEF Remembered
  <2>2. SettlesAt(vdhp, frame, libav.begin, vdhp.last_fed)
    BY <2>1, SettledStays
  <2>3. Settled(vdhp.last_fed)'
    BY <2>2, SettledNext
  <2>4. H' = H
    BY DEF H
  <2>. QED  BY <2>1, <2>3, <2>4 DEF Remembered
<1>2. CASE vdhp.last_frame \notin Numbers
  BY <1>2 DEF Remembered
<1>. QED  BY <1>1, <1>2

\* A request is made.
LEMMA AskSound ==
  ASSUME SoundHere, NEW p \in Numbers, Ask(p)
  PROVE  SoundInv'
<1>1. call.at = "idle" /\ Remembered
  BY DEF Ask, SoundHere, SoundInv
<1>2. /\ call' = [NoCall EXCEPT !.at = "asked", !.picture = p, !.mode = stream.seek_mode]
      /\ UNCHANGED <<stream, vdhp, libav, frame, answer, doubt>>
  BY DEF Ask
<1>3. call'.at = "asked" /\ call'.picture = p /\ call'.errors = 0
  BY <1>2 DEF NoCall
<1>4. Remembered'
  BY <1>1, <1>2, RememberedStays
<1>. QED  BY <1>2, <1>3, <1>4, SoundFacts DEF SoundInv, Idle

\* It is answered at once, goes on, or seeks from a point its picture can be decoded from.
LEMMA BeginSound ==
  ASSUME SoundHere, Begin
  PROVE  SoundInv'
<1>1. call.at = "asked" /\ call.picture \in Numbers /\ Remembered
  BY DEF Begin, SameAgain, BeforeFirstValid, GoOn, SeekFirst, Sought, SoundHere, SoundInv
<1>2. /\ P \in Nat /\ call.picture \in 1..P /\ vdhp \in Handlers /\ call \in Calls /\ frame \in Buffers
      /\ vdhp.last_fed \in Nat /\ vdhp.last_rap \in Nat /\ vdhp.last_frame \in 1..P + 1 /\ H \in Nat
  <2>1. P \in Nat /\ vdhp \in Handlers /\ call \in Calls /\ frame \in Buffers
    BY TypesHere DEF SoundHere
  <2>. QED  BY <1>1, <2>1, SoundFacts DEF Numbers, Handlers
<1>3. CASE SameAgain
  <2>1. call' = NoCall /\ answer' = [picture |-> call.picture, shown |-> frame.picture, ok |-> TRUE]
        /\ UNCHANGED <<stream, vdhp, libav, frame, doubt>> /\ call.picture = vdhp.last_frame
    BY <1>3 DEF SameAgain, Answer
  <2>2. frame.picture = call.picture /\ call.picture >= vdhp.first_valid
    <3>1. Settled(vdhp.last_fed) /\ vdhp.last_frame = vdhp.last_fed - H /\ vdhp.last_frame >= vdhp.first_valid
      BY <1>1, <2>1 DEF Remembered
    <3>. QED  BY <2>1, <3>1 DEF Settled
  <2>3. Remembered'
    BY <1>1, <2>1, RememberedStays
  <2>4. answer'.shown = (IF answer'.picture < vdhp'.first_valid THEN vdhp'.first_valid ELSE answer'.picture)
    BY <1>2, <2>1, <2>2, SoundFacts
  <2>. QED  BY <2>1, <2>3, <2>4, SoundFacts DEF SoundInv, NoCall, Promised, Idle
<1>4. CASE BeforeFirstValid
  <2>1. /\ vdhp' = [vdhp EXCEPT !.last_frame = P + 1] /\ call' = NoCall
        /\ answer' = [picture |-> call.picture, shown |-> vdhp.first_valid, ok |-> TRUE]
        /\ UNCHANGED stream /\ call.picture < vdhp.first_valid
    BY <1>4 DEF BeforeFirstValid, Deliver, Answer
  <2>2. vdhp'.last_frame = P + 1 /\ vdhp'.first_valid = vdhp.first_valid /\ vdhp'.delay_count = vdhp.delay_count
    BY <1>2, <2>1 DEF Handlers
  <2>3. Remembered'
    BY <1>2, <2>2 DEF Remembered, Numbers
  <2>4. answer'.shown = (IF answer'.picture < vdhp'.first_valid THEN vdhp'.first_valid ELSE answer'.picture)
    BY <2>1, <2>2
  <2>. QED  BY <2>1, <2>2, <2>3, <2>4, SoundFacts DEF SoundInv, NoCall, Promised, Idle
<1>5. CASE GoOn
  <2>1. /\ GetFrame(vdhp, vdhp.last_fed + 1, vdhp.last_rap, frame) /\ UNCHANGED <<stream, libav>>
        /\ call.picture > vdhp.last_frame /\ call.picture >= vdhp.first_valid
    BY <1>5 DEF GoOn, Near, SameRap, Sought
  <2>2. vdhp.last_frame \in Numbers
    BY <1>2, <2>1 DEF Numbers
  <2>3. Settled(vdhp.last_fed) /\ vdhp.last_frame = vdhp.last_fed - H
    BY <1>1, <2>2 DEF Remembered
  <2>4. SettlesAt(vdhp, frame, libav.begin, vdhp.last_fed) /\ vdhp.last_rap <= vdhp.last_fed
    BY <2>1, <2>3, SettledStays DEF Settled
  <2>5. vdhp.last_fed <= call.picture + H /\ vdhp.last_fed + 1 \in Nat
    BY <1>2, <2>1, <2>3
  <2>6. Wanted
    BY <1>1, <2>1 DEF Wanted
  <2>. QED  BY <1>2, <2>1, <2>4, <2>5, <2>6, GetFrameSound
<1>6. CASE SeekFirst
  <2>. DEFINE rap == RapOf(call.picture)
              handler == [vdhp EXCEPT !.last_rap = rap]
  <2>1. SeekVideo(handler, rap, rap, call.mode, 0) /\ call.picture >= vdhp.first_valid
    BY <1>6 DEF SeekFirst, Sought
  <2>2. rap \in stream.key /\ stream.shows[rap] <= call.picture
    BY <1>1, <2>1, SoundFacts, PointFound
  <2>3. rap \in 1..P /\ rap \in Nat /\ stream.shows[rap] \in 1..P /\ rap <= stream.shows[rap]
    BY <2>2, SoundFacts, PointEarly
  <2>. HIDE DEF rap
  <2>4. handler.first_valid = vdhp.first_valid /\ handler \in Handlers
    BY <1>2, <2>3 DEF Handlers
  <2>. HIDE DEF handler
  <2>5. /\ \E q \in Landings(rap) : libav' = [next |-> q, begin |-> 0, held |-> {}]
        /\ vdhp' = [handler EXCEPT !.delay_count = 0]
        /\ UNCHANGED <<stream, frame, answer>>
        /\ call' = [call EXCEPT !.at = "seek", !.current = rap, !.goal = call.picture + stream.announced,
                          !.rap = rap, !.rap_pos = rap, !.delay = stream.announced,
                          !.ready = FALSE, !.rap_pts = 0, !.mode = call.mode, !.errors = 0]
    BY <2>1 DEF SeekVideo
  <2>6. vdhp'.first_valid = vdhp.first_valid /\ vdhp'.delay_count = 0
    BY <2>4, <2>5 DEF Handlers
  <2>7. /\ call'.at = "seek" /\ call'.current = rap /\ call'.rap = rap /\ call'.picture = call.picture
        /\ call'.goal = call.picture + stream.announced
    BY <1>2, <2>5 DEF Calls
  <2>8. call'.delay = stream.announced /\ call'.ready = FALSE /\ call'.errors = 0
    BY <1>2, <2>5 DEF Calls
  <2>9. /\ libav'.held = {} /\ libav'.begin = 0 /\ libav'.next <= rap
        /\ ~stream.dts_based => libav'.next = rap
    <3>1. PICK q \in Landings(rap) : libav' = [next |-> q, begin |-> 0, held |-> {}]
      BY <2>5
    <3>2. PICK d \in stream.drift : q = rap + d
      BY <2>3, <3>1 DEF Landings, UNSET
    <3>3. d \in Int /\ d <= 0
      BY SoundFacts, MoreFacts DEF SoundHere
    <3>4. ~stream.dts_based => d = 0
      BY <3>2, SoundFacts DEF Told
    <3>. QED  BY <2>3, <3>1, <3>2, <3>3, <3>4
  <2>10. Fresh(call.rap)'
    BY <2>5, <2>7, <2>9 DEF Fresh
  <2>11. rap <= stream.shows[rap] + H
    BY <1>2, <2>3
  <2>12. H' = H
    BY <2>5 DEF H
  <2>13. NotYet'
    BY <2>5, <2>7, <2>8 DEF NotYet
  <2>14. Wanted'
    BY <1>1, <2>1, <2>6, <2>7 DEF Wanted
  <2>15. Seeking'
    BY <2>2, <2>5, <2>7, <2>10, <2>11, <2>12, <2>13, <2>14 DEF Seeking
  <2>. QED  BY <2>5, <2>6, <2>7, <2>8, <2>15, SoundFacts DEF SoundInv, Idle
<1>. QED  BY <1>3, <1>4, <1>5, <1>6 DEF Begin

(* A request being got leaves with the picture it has.                     *)
LEMMA LeaveSound ==
  ASSUME SoundHere, call.at \in {"get", "flush"}, UNCHANGED <<stream, libav>>, Leave(call.got),
         call.current = call.goal + 1
  PROVE  SoundInv'
<1>1. Getting
  BY DEF SoundHere, SoundInv
<1>2. Wanted /\ Settled(call.current - 1) /\ call.goal = call.picture + H /\ call.got
  BY <1>1 DEF Getting
<1>3. vdhp \in Handlers /\ frame \in Buffers /\ call.current \in Nat /\ H \in Nat /\ call.picture \in Nat
  BY <1>2, TypesHere, SoundFacts DEF SoundHere, Wanted, Numbers
<1>4. Succeed(vdhp, frame)
  BY <1>2 DEF Leave
<1>5. SettlesAt(vdhp, frame, libav.begin, call.current - 1)
  BY <1>2, SettledStays DEF Settled
<1>6. call.current - 1 \in Int /\ call.picture = (call.current - 1) - H
  BY <1>2, <1>3
<1>. QED  BY <1>2, <1>3, <1>4, <1>5, <1>6, SucceedSound

(* The decoder after a packet of a sound stream.                           *)
LEMMA FedRuns ==
  ASSUME SoundHere, NEW r \in stream.key, NEW c \in Numbers, r <= c, Fed = c, call.current = c,
         libav.held = Held(Waiting(r, c - 1)), libav.begin = r \/ (libav.begin = 0 /\ c = r),
         NEW o \in Outcomes(c), Decode(o)
  PROVE  RunsOn(r, c)
<1>1. o.held = Held(Waiting(r, c))
  BY OutcomeIs, SoundFacts
<1>2. libav' = [next |-> c + 1, held |-> o.held, begin |-> IF libav.begin = 0 THEN c ELSE libav.begin]
  BY DEF Decode
<1>3. Min2(c, P) = c /\ r # 0
  BY SoundFacts, PointEarly DEF Min2, Numbers
<1>. QED  BY <1>1, <1>2, <1>3 DEF RunsOn

\* get_frame feeds packets until the picture comes or the stream ends.
LEMMA GetSound ==
  ASSUME SoundHere, Get
  PROVE  SoundInv'
<1>. DEFINE r == libav.begin
            c == call.current
<1>1. call.at = "get" /\ Wanted /\ Settled(c - 1) /\ stream' = stream
  BY DEF Get, GetFeeds, GetEnds, SoundHere, SoundInv, Getting
<1>2. call.rap < c /\ call.goal = call.picture + H /\ c <= call.goal + 1 /\ (c = call.goal + 1 => call.got)
  BY <1>1 DEF SoundHere, SoundInv, Getting
<1>3. /\ r \in stream.key /\ r <= c - 1 /\ libav.next = Min2(c - 1, P) + 1
      /\ libav.held = Held(Waiting(r, c - 1)) /\ stream.shows[r] + H <= c - 1
      /\ vdhp.delay_count = H /\ vdhp.has_dec_frame /\ vdhp.last_fed = c - 1 /\ vdhp.last_rap <= c - 1
  BY <1>1 DEF Settled, Running
<1>4. /\ H \in Nat /\ P \in Nat /\ c \in Nat /\ call.picture \in 1..P /\ r \in 1..P /\ stream.shows[r] \in 1..P
      /\ vdhp \in Handlers /\ call \in Calls /\ call.rap \in Nat /\ call.goal \in Int /\ vdhp.last_rap \in Nat
      /\ vdhp.last_fed \in Nat
  BY <1>1, <1>3, TypesHere, SoundFacts, PointEarly DEF SoundHere, Wanted, Numbers
<1>5. SettlesAt(vdhp, frame, r, c - 1) \/ libav' # libav
  BY <1>1, <1>3, SettledStays
<1>6. CASE GetFeeds
  <2>1. Feeding /\ ~Beyond(c, call.goal)
    BY <1>6 DEF GetFeeds, Feeding
  <2>2. Fed = c /\ c \in Numbers
    BY <2>1, NextFed
  <2>3. PICK o \in Outcomes(c) :
          LET id == o.frame.id
              delay == IF ~o.got THEN vdhp.delay_count + 1
                       ELSE IF id = 0 THEN vdhp.delay_count ELSE call.current - id
           IN  /\ Decode(o)
               /\ IF o.ret = "error" THEN GoRetry(AfterDecode(o, vdhp.delay_count), o.frame)
                  ELSE IF o.got /\ id = call.picture THEN Succeed(AfterDecode(o, delay), o.frame)
                  ELSE IF o.got /\ id > call.picture THEN GoRetry(AfterDecode(o, delay), o.frame)
                  ELSE GoesOn([call EXCEPT !.current = @ + 1, !.got = o.got,
                                           !.goal = @ + delay - vdhp.delay_count],
                              AfterDecode(o, delay), o.frame)
    BY <1>6, <2>2 DEF GetFeeds
  <2>4. o.got /\ o.frame = [picture |-> c - H, id |-> Own(c - H)] /\ o.ret # "error"
    <3>1. r <= c /\ stream.shows[r] + H <= c
      BY <1>3, <1>4
    <3>. QED  BY <1>3, <2>2, <3>1, OutcomeIs, SoundFacts
  <2>5. RunsOn(r, c)
    <3>1. r <= c
      BY <1>3, <1>4
    <3>. QED  BY <1>3, <2>2, <2>3, <3>1, FedRuns
  <2>6. o.frame.picture = c - H /\ o.frame.id = Own(c - H) /\ o.frame.id \in {c - H, 0} /\ c - H >= 1
    BY <1>3, <1>4, <2>4 DEF Own
  <2>. DEFINE handler == AfterDecode(o, H)
              delay == IF ~o.got THEN vdhp.delay_count + 1
                       ELSE IF o.frame.id = 0 THEN vdhp.delay_count ELSE call.current - o.frame.id
  <2>7. delay = H
    BY <1>3, <1>4, <2>4, <2>6
  <2>8. o \in OutcomeSet /\ o.frame \in Buffers
    BY <2>1, <2>2, OutcomeType DEF SoundHere, OutcomeSet
  <2>9. /\ handler \in Handlers /\ handler.last_fed = c
        /\ handler.last_rap = IF Fed \in stream.key THEN c ELSE vdhp.last_rap
    BY <1>4, <2>8, AfterDecodeType DEF SoundHere, TypeInv
  <2>10. handler.delay_count = H /\ handler.has_dec_frame /\ handler.first_valid = vdhp.first_valid
    BY <1>4, <2>4, <2>8 DEF AfterDecode, Handlers, OutcomeSet
  <2>11. SettlesAt(handler, o.frame, r, c)
    <3>1. handler.last_rap <= c
      BY <1>3, <1>4, <2>9
    <3>2. stream.shows[r] + H <= c
      BY <1>3, <1>4
    <3>3. o.frame.id # c - H + 1
      BY <1>4, <2>6
    <3>. QED  BY <2>5, <2>6, <2>9, <2>10, <3>1, <3>2, <3>3 DEF SettlesAt
  <2>12. c <= call.picture + H
    BY <1>2, <1>4, <2>1 DEF Beyond
  <2>. HIDE DEF delay
  <2>13. CASE o.frame.id = call.picture /\ Succeed(AfterDecode(o, delay), o.frame)
    <3>1. call.picture = c - H /\ c \in Int
      BY <1>4, <2>6, <2>13
    <3>. QED  BY <1>1, <2>7, <2>8, <2>9, <2>11, <2>13, <3>1, SucceedSound
  <2>14. CASE o.frame.id > call.picture
    BY <1>4, <2>6, <2>12, <2>14
  <2>15. CASE GoesOn([call EXCEPT !.current = @ + 1, !.got = o.got, !.goal = @ + delay - vdhp.delay_count],
                     AfterDecode(o, delay), o.frame)
    <3>1. /\ call' = [call EXCEPT !.current = @ + 1, !.got = o.got, !.goal = @ + delay - vdhp.delay_count]
          /\ vdhp' = handler /\ frame' = o.frame
      BY <2>7, <2>15 DEF GoesOn
    <3>2. /\ call'.at = "get" /\ call'.picture = call.picture /\ call'.errors = call.errors
          /\ call'.current = c + 1 /\ call'.rap = call.rap /\ call'.got = o.got
          /\ call'.goal = call.goal + delay - vdhp.delay_count
      BY <1>1, <1>4, <3>1 DEF Calls
    <3>3. call'.goal = call.picture + H /\ call'.rap <= c /\ call'.rap \in Nat
      BY <1>2, <1>3, <1>4, <2>7, <3>2
    <3>4. SettlesAt(vdhp', frame', r, c)
      BY <2>11, <3>1
    <3>. QED  BY <1>1, <1>4, <2>4, <2>12, <3>2, <3>3, <3>4, GettingNext
  <2>. QED  BY <2>3, <2>4, <2>13, <2>14, <2>15 DEF delay
<1>7. CASE GetEnds
  <2>1. UNCHANGED <<stream, libav>> /\ (Beyond(c, call.goal) \/ EndOfStream)
    BY <1>7 DEF GetEnds
  <2>2. CASE Beyond(c, call.goal)
    <3>1. c = call.goal + 1
      BY <1>2, <1>4, <2>2 DEF Beyond
    <3>2. Leave(call.got)
      BY <1>7, <2>2 DEF GetEnds
    <3>. QED  BY <1>1, <2>1, <3>1, <3>2, LeaveSound
  <2>3. CASE ~Beyond(c, call.goal)
    <3>1. c <= call.goal /\ P < c /\ c <= call.picture + H
      <4>1. libav.next > P
        BY <2>1, <2>3 DEF EndOfStream
      <4>. QED  BY <1>2, <1>3, <1>4, <2>3, <4>1 DEF Beyond, Min2
    <3>2. H > 0
      BY <1>2, <1>4, <3>1
    <3>3. GoesOn([call EXCEPT !.at = "flush"], vdhp, frame)
      BY <1>3, <1>4, <1>7, <2>3, <3>1, <3>2 DEF GetEnds
    <3>4. call' = [call EXCEPT !.at = "flush"] /\ vdhp' = vdhp /\ frame' = frame
      BY <3>3 DEF GoesOn
    <3>5. /\ call'.at = "flush" /\ call'.picture = call.picture /\ call'.errors = call.errors
          /\ call'.current = c /\ call'.rap = call.rap /\ call'.goal = call.goal /\ call'.got = call.got
      BY <1>4, <3>4 DEF Calls
    <3>6. SettlesAt(vdhp', frame', r, c - 1)
      BY <1>5, <2>1, <3>4
    <3>7. c - 1 \in Nat /\ P <= c - 1 /\ c = (c - 1) + 1 /\ call.rap <= c - 1 /\ c - 1 <= call.picture + H
          /\ c - 1 # call.picture + H
      BY <1>2, <1>4, <3>1
    <3>. HIDE DEF c, r
    <3>. QED  BY <1>1, <1>2, <1>4, <3>2, <3>5, <3>6, <3>7, GettingNext
  <2>. QED  BY <2>2, <2>3
<1>. QED  BY <1>6, <1>7 DEF Get

(* Behind the last packet a step stands for a picture flushed.             *)
LEMMA FlushSound ==
  ASSUME SoundHere, Flush
  PROVE  SoundInv'
<1>. DEFINE r == libav.begin
            c == call.current
<1>1. call.at = "flush" /\ Wanted /\ Settled(c - 1) /\ stream' = stream /\ P < c /\ H > 0
  BY DEF Flush, AlreadyStored, FlushesNothing, Flushes, FlushFails, FlushEnds, FlushCrashes, SoundHere, SoundInv, Getting
<1>2. call.rap < c /\ call.goal = call.picture + H /\ c <= call.goal + 1 /\ (c = call.goal + 1 => call.got)
  BY <1>1 DEF SoundHere, SoundInv, Getting
<1>3. /\ r \in stream.key /\ r <= c - 1 /\ libav.next = Min2(c - 1, P) + 1
      /\ libav.held = Held(Waiting(r, c - 1)) /\ stream.shows[r] + H <= c - 1
      /\ vdhp.delay_count = H /\ vdhp.has_dec_frame /\ vdhp.last_fed = c - 1 /\ vdhp.last_rap <= c - 1
      /\ frame.id # (c - 1) - H + 1
  BY <1>1 DEF Settled, Running
<1>4. /\ H \in Nat /\ P \in Nat /\ c \in Nat /\ call.picture \in 1..P /\ r \in 1..P /\ stream.shows[r] \in 1..P
      /\ vdhp \in Handlers /\ call \in Calls /\ call.rap \in Nat /\ call.goal \in Int /\ vdhp.last_rap \in Nat
      /\ vdhp.last_fed \in Nat /\ libav \in Libavs
  BY <1>1, <1>3, TypesHere, SoundFacts, PointEarly DEF SoundHere, Wanted, Numbers
<1>5. CASE AlreadyStored
  <2>1. frame.id = c - H
    BY <1>3, <1>5 DEF AlreadyStored, Stored, Estimated
  <2>. QED  BY <1>3, <1>4, <2>1
<1>6. CASE FlushEnds
  <2>1. UNCHANGED <<stream, libav>> /\ Beyond(c, call.goal) /\ Leave(call.got)
    BY <1>6 DEF FlushEnds
  <2>2. c = call.goal + 1
    BY <1>2, <1>4, <2>1 DEF Beyond
  <2>. QED  BY <1>1, <2>1, <2>2, LeaveSound
<1>7. CASE FlushCrashes
  BY <1>3, <1>7 DEF FlushCrashes
<1>8. CASE ~Beyond(c, call.goal) /\ (FlushesNothing \/ Flushes)
  <2>1. c <= call.picture + H /\ c - H \in Numbers /\ c \in Int /\ stream.shows[r] + H <= c
    BY <1>2, <1>3, <1>4, <1>8 DEF Beyond, Numbers
  <2>2. Waiting(r, c - 1) = Reached(r, c)
    <3>1. \A d \in Numbers : d \in 1..P /\ stream.shows[d] \in 1..P
      BY SoundFacts DEF Numbers
    <3>2. ASSUME NEW d \in Numbers  PROVE d \in Waiting(r, c - 1) <=> d \in Reached(r, c)
      <4>1. d \in 1..P /\ stream.shows[d] \in 1..P /\ d <= c - 1 /\ d <= c
        BY <1>1, <1>4, <3>1
      <4>. QED  BY <1>4, <4>1 DEF Waiting, Reached
    <3>. QED  BY <3>2 DEF Waiting, Reached
  <2>3. PICK d \in Reached(r, c) :
          /\ Buffer(d) = [picture |-> c - H, id |-> Own(c - H)]
          /\ First(Held(Reached(r, c))) = Buffer(d)
          /\ Held(Reached(r, c)) \ {Buffer(d)} = Held(Waiting(r, c))
    <3>. HIDE DEF r, c
    <3>. QED  BY <1>3, <2>1, DueGoes, SoundFacts
  <2>4. libav.held # {}
    BY <1>3, <2>2, <2>3 DEF Held
  <2>5. Flushes
    BY <1>8, <2>4 DEF FlushesNothing
  <2>. DEFINE h == First(libav.held)
              delay == IF h.id = 0 THEN vdhp.delay_count ELSE call.current - h.id
  <2>6. /\ h = [picture |-> c - H, id |-> Own(c - H)]
        /\ libav.held \ {h} = Held(Waiting(r, c))
    BY <1>3, <2>2, <2>3
  <2>7. /\ libav' = [libav EXCEPT !.held = @ \ {h}]
        /\ GoesOn([call EXCEPT !.current = @ + 1, !.got = TRUE, !.goal = @ + delay - vdhp.delay_count],
                  [vdhp EXCEPT !.last_fed = call.current, !.delay_count = delay], h)
    BY <2>5 DEF Flushes
  <2>. HIDE DEF h
  <2>8. delay = H /\ h.picture = c - H /\ h.id # c - H + 1
    <3>1. h.picture = c - H /\ (h.id = c - H \/ h.id = 0)
      BY <2>6 DEF Own
    <3>. QED  BY <1>3, <1>4, <2>1, <3>1 DEF Numbers
  <2>. HIDE DEF delay
  <2>9. /\ call' = [call EXCEPT !.current = @ + 1, !.got = TRUE, !.goal = @ + delay - vdhp.delay_count]
        /\ vdhp' = [vdhp EXCEPT !.last_fed = call.current, !.delay_count = delay] /\ frame' = h
    BY <2>7 DEF GoesOn
  <2>10. /\ call'.at = "flush" /\ call'.picture = call.picture /\ call'.errors = call.errors
         /\ call'.current = c + 1 /\ call'.rap = call.rap /\ call'.got = TRUE
         /\ call'.goal = call.goal + delay - vdhp.delay_count
    BY <1>1, <1>4, <2>9 DEF Calls
  <2>11. call'.goal = call.picture + H /\ call'.rap <= c /\ call'.rap \in Nat /\ P <= c
    BY <1>1, <1>2, <1>3, <1>4, <2>8, <2>10
  <2>12. /\ vdhp'.last_fed = c /\ vdhp'.delay_count = H /\ vdhp'.has_dec_frame
         /\ vdhp'.last_rap = vdhp.last_rap /\ vdhp'.first_valid = vdhp.first_valid
    BY <1>3, <1>4, <2>8, <2>9 DEF Handlers
  <2>13. RunsOn(r, c)
    <3>1. libav'.begin = r /\ libav'.next = libav.next /\ libav'.held = Held(Waiting(r, c))
      BY <1>4, <2>6, <2>7 DEF Libavs
    <3>2. libav.next = Min2(c, P) + 1 /\ r <= c
      BY <1>1, <1>3, <1>4 DEF Min2
    <3>. QED  BY <1>3, <3>1, <3>2 DEF RunsOn
  <2>14. SettlesAt(vdhp', frame', r, c)
    <3>1. vdhp'.last_rap <= c
      BY <1>3, <1>4, <2>12
    <3>. QED  BY <2>1, <2>8, <2>9, <2>12, <2>13, <3>1 DEF SettlesAt
  <2>. QED  BY <1>1, <1>4, <2>1, <2>10, <2>11, <2>14, GettingNext
<1>9. CASE FlushFails
  BY <1>9, SoundFacts DEF FlushFails
<1>. QED  BY <1>5, <1>6, <1>7, <1>8, <1>9 DEF Flush, FlushesNothing, Flushes

(* What seek_video sees of a packet.  Before the first picture is due,     *)
(* nothing that would change its numbers; a leading picture lost is told   *)
(* from an error.                                                          *)
LEMMA SeekSeesNothing ==
  ASSUME SoundHere, Seeking, call.at = "seek", NEW c \in Numbers, c = call.current, Fed = c,
         c < stream.shows[call.rap] + H,
         NEW o \in OutcomeSet, ~o.got, o.ret = "error" => stream.shows[c] < stream.shows[call.rap]
  PROVE  /\ Observed(o) = [count |-> vdhp.delay_count, delay |-> call.delay, goal |-> call.goal]
         /\ ~Error(o)
<1>. DEFINE r == call.rap
<1>1. /\ r \in stream.key /\ r \in 1..P /\ r \in Numbers /\ stream.shows[r] \in 1..P /\ c \in 1..P /\ stream.shows[c] \in 1..P
      /\ P \in Nat /\ H \in Nat /\ vdhp.last_rap \in Nat /\ stream.key \subseteq 1..P /\ c >= r
  <2>1. r \in stream.key /\ c >= r
    BY TypesHere DEF Seeking, Underway, SoundHere
  <2>2. r \in 1..P /\ stream.shows[r] \in 1..P /\ c \in 1..P /\ stream.shows[c] \in 1..P
    BY <2>1, SoundFacts, PointEarly DEF Numbers
  <2>. QED  BY <2>1, <2>2, SoundFacts, TypesHere DEF SoundHere, Numbers
<1>2. ~call.ready
  BY <1>1 DEF Seeking, NotYet
<1>3. ASSUME o.ret = "error"  PROVE OutputOrderId(c) # 0 /\ OutputOrderId(c) < RapPts
  <2>1. stream.shows[c] < stream.shows[r] /\ r < c
    BY <1>1, <1>3
  <2>2. Reordered
    <3>1. stream.shows[c] # c \/ stream.shows[r] # r
      BY <1>1, <2>1
    <3>. QED  BY <1>1, <3>1 DEF Reordered
  <2>3. OutputOrderId(c) = stream.shows[c]
    BY <2>2 DEF OutputOrderId
  <2>4. \A k \in stream.key : r < k => ~(k <= c)
    <3>. SUFFICES ASSUME NEW k \in stream.key, r < k, k <= c  PROVE FALSE
      OBVIOUS
    <3>1. stream.shows[r] < stream.shows[c]
      BY <1>1, SoundFacts, StreamFacts
    <3>. QED  BY <1>1, <2>1, <3>1
  <2>5. c \notin stream.key
    BY <1>1, <2>1, <2>4
  <2>6. vdhp.last_rap < c /\ call.rap_pts = stream.shows[r]
    <3>1. Underway(r)
      BY <2>1, <1>1 DEF Seeking
    <3>2. \A k \in stream.key : r < k => c <= k
      BY <1>1, <2>4
    <3>. QED  BY <2>2, <3>1, <3>2 DEF Underway
  <2>7. AfterDecode(Outcome("", FALSE, Empty, {}), 0).last_rap = vdhp.last_rap
    BY <2>5, TypesHere DEF AfterDecode, Handlers, SoundHere
  <2>8. RapPts = stream.shows[r]
    <3>1. call.current # vdhp.last_rap
      BY <1>1, <2>6
    <3>2. RapPts = call.rap_pts
      BY <2>7, <3>1 DEF RapPts
    <3>. QED  BY <2>6, <3>2
  <2>. QED  BY <1>1, <2>1, <2>3, <2>8
<1>4. ~Error(o)
  <2>1. OutputOrderId(c) \in Nat /\ RapPts \in Nat
    BY <1>1, OrderIdType, RapPtsType DEF SoundHere
  <2>. QED  BY <1>3, <2>1 DEF Error
<1>. QED  BY <1>2, <1>4 DEF Observed

(* From then on every picture says how far behind the decoder is.          *)
LEMMA SeekSees ==
  ASSUME SoundHere, Seeking, call.at = "seek", NEW c \in Numbers, c = call.current,
         stream.shows[call.rap] + H <= c, ~Beyond(c, call.goal),
         NEW o, o.got, o.frame = [picture |-> c - H, id |-> Own(c - H)]
  PROVE  /\ Observed(o).count = H /\ Observed(o).delay = H
         /\ Observed(o).goal \in Int /\ Observed(o).goal >= call.picture + H
         /\ ~Numbered => Observed(o).goal = call.picture + H
         /\ c <= call.picture + H
<1>. DEFINE r == call.rap
            A == stream.announced
<1>1. /\ r \in stream.key /\ r \in 1..P /\ r \in Numbers /\ stream.shows[r] \in 1..P /\ c \in 1..P /\ r <= stream.shows[r]
      /\ P \in Nat /\ H \in Nat /\ A \in Nat /\ H <= A /\ call.picture \in 1..P /\ stream.shows[r] <= call.picture
      /\ call.goal \in Int
  <2>1. r \in stream.key /\ call.picture \in 1..P /\ stream.shows[r] <= call.picture
    BY DEF Seeking, Wanted, Numbers
  <2>2. r \in 1..P /\ stream.shows[r] \in 1..P /\ c \in 1..P /\ r <= stream.shows[r]
    BY <2>1, SoundFacts, PointEarly DEF Numbers
  <2>. QED  BY <2>1, <2>2, SoundFacts, TypesHere DEF SoundHere, Numbers
<1>2. /\ call.delay \in Nat /\ call.delay >= H
      /\ call.goal >= call.picture + H
      /\ ~Numbered => call.goal = call.picture + call.delay
      /\ c <= call.picture + H
      /\ call.delay = H \/ (call.delay = A /\ call.goal = call.picture + A)
  <2>1. CASE c <= stream.shows[r] + H
    <3>1. call.delay = A /\ call.goal = call.picture + A
      BY <2>1 DEF Seeking, NotYet
    <3>. QED  BY <1>1, <2>1, <3>1
  <2>2. CASE ~(c <= stream.shows[r] + H)
    <3>1. ComingOut(c - 1)
      BY <2>2 DEF Seeking
    <3>2. /\ call.delay = H /\ call.goal >= call.picture + H
          /\ IF Numbered THEN c - 1 < call.picture + H ELSE call.goal = call.picture + H
      BY <3>1 DEF ComingOut
    <3>3. c <= call.picture + H
      BY <1>1, <3>2 DEF Beyond
    <3>. QED  BY <1>1, <3>2, <3>3
  <2>. QED  BY <2>1, <2>2
<1>3. o.frame.id = Own(c - H) /\ c - H >= 1
  BY <1>1
<1>4. SeekDelay = Min2(call.delay, c - r)
  BY <1>1, <1>2 DEF SeekDelay
<1>5. SeekDelay \in Int /\ SeekDelay <= call.delay /\ SeekDelay <= c - r
  BY <1>1, <1>2, <1>4 DEF Min2
<1>6. CASE Numbered
  <2>1. o.frame.id = c - H /\ o.frame.id # 0 /\ c - o.frame.id = H
    BY <1>1, <1>3, <1>6 DEF Own
  <2>2. Observed(o) = [count |-> H, delay |-> H, goal |-> call.goal + H - SeekDelay]
    BY <2>1 DEF Observed
  <2>3. call.goal + H - SeekDelay >= call.picture + H /\ call.goal + H - SeekDelay \in Int
    BY <1>1, <1>2, <1>5
  <2>. QED  BY <1>2, <1>6, <2>2, <2>3
<1>7. CASE ~Numbered
  <2>1. o.frame.id = 0
    BY <1>3, <1>7 DEF Own
  <2>2. stream.shows[r] = r
    BY <1>1, <1>7, InOrder
  <2>3. SeekDelay = H
    <3>1. c - r >= H
      BY <1>1, <2>2
    <3>2. CASE c - r = H
      <4>1. SeekDelay = Min2(call.delay, H)
        BY <1>4, <3>2
      <4>. QED  BY <1>1, <1>2, <4>1 DEF Min2
    <3>3. CASE c - r > H
      <4>1. ~(c <= stream.shows[r] + H)
        BY <1>1, <2>2, <3>3
      <4>2. call.delay = H
        BY <4>1 DEF Seeking, ComingOut
      <4>. QED  BY <1>1, <1>4, <3>3, <4>2 DEF Min2
    <3>. QED  BY <1>1, <3>1, <3>2, <3>3
  <2>4. Observed(o) = [count |-> H, delay |-> H, goal |-> call.goal - (call.delay - H)]
    BY <2>1, <2>3 DEF Observed
  <2>5. call.goal - (call.delay - H) = call.picture + H
    BY <1>1, <1>2, <1>7
  <2>. QED  BY <1>1, <1>2, <2>4, <2>5
<1>. QED  BY <1>6, <1>7

\* What a seek is about to take over.
LEMMA SeekingNext ==
  ASSUME SoundHere, Wanted, stream' = stream, NEW r, NEW c \in Nat, RunsOn(r, c), c <= P,
         stream.shows[r] <= call.picture,
         call'.at = "seek", call'.picture = call.picture, call'.errors = call.errors,
         call'.current = c + 1, call'.rap = r,
         vdhp'.first_valid = vdhp.first_valid, vdhp'.delay_count >= 0, vdhp'.last_rap <= c, vdhp'.last_rap \in Nat,
         vdhp'.last_fed = c,
         Reordered /\ (\A k \in stream.key : r < k => c < k) => call'.rap_pts = stream.shows[r],
         IF c < stream.shows[r] + H
         THEN /\ ~call'.ready /\ call'.delay = stream.announced
              /\ call'.goal = call.picture + stream.announced
         ELSE /\ call'.ready /\ call'.delay = H /\ vdhp'.has_dec_frame
              /\ frame'.picture = c - H /\ frame'.id = Own(c - H)
              /\ call'.goal \in Int /\ call'.goal >= call.picture + H
              /\ IF Numbered THEN c < call.picture + H
                 ELSE c <= call.picture + H /\ call'.goal = call.picture + H
  PROVE  SoundInv'
<1>1. /\ r \in stream.key /\ r \in 1..P /\ stream.shows[r] \in 1..P /\ r <= c /\ P \in Nat /\ H \in Nat
      /\ stream.key \subseteq 1..P
  <2>1. r \in stream.key /\ r <= c
    BY DEF RunsOn
  <2>. QED  BY <2>1, SoundFacts, PointEarly, TypesHere DEF SoundHere
<1>2. H' = H /\ Numbered' = Numbered /\ Reordered' = Reordered /\ \A p : Own(p)' = Own(p)
  BY DEF H, Numbered, Reordered, Own
<1>3. call'.current - 1 = c
  OBVIOUS
<1>4. Running(call.rap, call.current - 1)'
  <2>1. (libav.held = Held(Waiting(call.rap, call.current - 1)))'
    <3>1. libav'.held = Held(Waiting(r, c))
      BY DEF RunsOn
    <3>. QED  BY <1>2, <1>3, <3>1 DEF Held, Waiting, Buffer, Own, Numbered, Reordered
  <2>. QED  BY <1>3, <2>1 DEF Running, RunsOn, Min2
<1>5. Underway(call.rap)'
  <2>1. /\ call'.rap < call'.current /\ call'.current <= P + 1 /\ vdhp'.last_rap < call'.current
        /\ vdhp'.last_fed = call'.current - 1
    BY <1>1
  <2>2. ASSUME Reordered, \A k \in stream.key : r < k => c + 1 <= k  PROVE call'.rap_pts = stream.shows[r]
    <3>1. \A k \in stream.key : r < k => c < k
      BY <1>1, <2>2
    <3>. QED  BY <2>2, <3>1
  <2>. QED  BY <1>2, <1>4, <2>1, <2>2 DEF Underway
<1>6. Wanted'
  BY DEF Wanted
<1>7. IF call'.current <= stream.shows[r] + H THEN NotYet' ELSE ComingOut(call.current - 1)'
  <2>1. CASE c < stream.shows[r] + H
    <3>1. NotYet'
      BY <2>1 DEF NotYet
    <3>2. call'.current <= stream.shows[r] + H
      BY <1>1, <2>1
    <3>. QED  BY <3>1, <3>2
  <2>2. CASE ~(c < stream.shows[r] + H)
    <3>1. ComingOut(call.current - 1)'
      BY <1>2, <1>3, <2>2 DEF ComingOut
    <3>2. ~(call'.current <= stream.shows[r] + H)
      BY <1>1, <2>2
    <3>. QED  BY <3>1, <3>2
  <2>. QED  BY <2>1, <2>2
<1>8. call'.current # call'.rap
  BY <1>1
<1>9. Seeking'
  BY <1>1, <1>2, <1>5, <1>6, <1>7, <1>8 DEF Seeking
<1>. QED  BY <1>9, SoundFacts DEF SoundInv, Idle

\* seek_video feeds packets until the picture comes, or up to where it should.
LEMMA SeekSound ==
  ASSUME SoundHere, Seek
  PROVE  SoundInv'
<1>. DEFINE r == call.rap
            c == call.current
<1>1. stream' = stream
  BY DEF Seek, SeekMisses, SeekFeeds, SeekEnds
<1>2. /\ P \in Nat /\ P > 1 /\ H \in Nat /\ c \in Nat /\ r \in Nat /\ vdhp \in Handlers /\ call \in Calls
      /\ libav \in Libavs /\ vdhp.last_rap \in Nat /\ call.goal \in Int /\ libav.next \in Nat /\ frame \in Buffers
      /\ stream.announced \in Nat /\ H <= stream.announced
  BY TypesHere, SoundFacts DEF SoundHere
<1>3. ASSUME call.at = "seek"
      PROVE  /\ Seeking /\ Wanted /\ r \in stream.key /\ r \in 1..P /\ stream.shows[r] \in 1..P /\ r <= stream.shows[r]
             /\ stream.shows[r] <= call.picture /\ call.picture \in 1..P
             /\ c = r => Fresh(r)
             /\ c # r => /\ r < c /\ c <= P + 1 /\ Running(r, c - 1) /\ vdhp.last_rap < c /\ vdhp.last_fed = c - 1
  <2>1. Seeking
    BY <1>3 DEF SoundHere, SoundInv
  <2>2. Wanted /\ r \in stream.key /\ stream.shows[r] <= call.picture
    BY <2>1 DEF Seeking
  <2>3. r \in 1..P /\ stream.shows[r] \in 1..P /\ r <= stream.shows[r]
    BY <2>2, SoundFacts, PointEarly
  <2>. QED  BY <2>1, <2>2, <2>3 DEF Seeking, Wanted, Numbers, Underway
<1>4. ~SeekMisses
  <2>. SUFFICES ASSUME SeekMisses  PROVE FALSE
    OBVIOUS
  <2>1. call.at \in {"seek", "get"} /\ c = r /\ libav.next > r
    BY DEF SeekMisses, SoughtTooFar, Corrects
  <2>2. call.at # "get"
    BY <1>2, <2>1 DEF SoundHere, SoundInv, Getting
  <2>. QED  BY <1>2, <1>3, <2>1, <2>2 DEF Fresh
<1>5. CASE SeekFeeds
  <2>1. call.at = "seek" /\ ~Beyond(c, call.goal) /\ Feeding
    BY <1>5 DEF SeekFeeds, Feeding
  <2>2. Fed = c /\ c \in Numbers /\ c <= P
    <3>1. Fed = c /\ c \in Numbers
      BY <2>1, NextFed
    <3>. QED  BY <3>1 DEF Numbers
  <2>3. PICK o \in Outcomes(c) :
          /\ Decode(o)
          /\ IF o.got /\ o.frame.id = call.picture
             THEN GetFrame(AfterDecode(o, Observed(o).count), call.current + 1, call.rap, o.frame)
             ELSE IF Error(o) /\ call.mode = "normal" THEN GoRetry(AfterDecode(o, Observed(o).count), o.frame)
             ELSE /\ call' = [call EXCEPT !.current = @ + 1, !.goal = Observed(o).goal, !.delay = Observed(o).delay,
                                          !.ready = @ \/ o.got, !.rap_pts = RapPts]
                  /\ vdhp' = AfterDecode(o, Observed(o).count) /\ frame' = o.frame
                  /\ doubt' = (doubt \/ Error(o) \/ Unnoticed(o))
                  /\ UNCHANGED answer
    BY <1>5, <2>2 DEF SeekFeeds
  <2>. DEFINE seen == Observed(o)
              handler == AfterDecode(o, seen.count)
  <2>4. /\ libav.held = Held(Waiting(r, c - 1)) /\ (libav.begin = r \/ (libav.begin = 0 /\ c = r)) /\ r <= c
    <3>1. CASE c = r
      <4>1. Waiting(r, r - 1) = {}
        BY <1>3, <2>1, NothingBefore, SoundFacts
      <4>2. libav.held = {} /\ libav.begin = 0
        BY <1>3, <2>1, <3>1 DEF Fresh
      <4>. QED  BY <3>1, <4>1, <4>2, <1>2 DEF Held
    <3>2. CASE c # r
      BY <1>2, <1>3, <2>1, <3>2 DEF Running
    <3>. QED  BY <3>1, <3>2
  <2>5. RunsOn(r, c)
    BY <1>3, <2>1, <2>2, <2>3, <2>4, FedRuns
  <2>6. /\ c < stream.shows[r] + H => ~o.got /\ o.frame = frame /\ (o.ret = "error" => stream.shows[c] < stream.shows[r])
        /\ stream.shows[r] + H <= c =>
             o.got /\ o.frame = [picture |-> c - H, id |-> Own(c - H)] /\ o.ret # "error"
    BY <1>3, <2>1, <2>2, <2>4, OutcomeIs, SoundFacts
  <2>7. o \in OutcomeSet /\ o.frame \in Buffers
    BY <2>1, <2>2, OutcomeType DEF SoundHere, OutcomeSet
  <2>8. seen.count \in Int /\ seen.delay \in Int /\ seen.goal \in Int
    BY <2>7, ObservedType DEF SoundHere
  <2>9. /\ handler \in Handlers /\ handler.last_fed = c
        /\ handler.last_rap = IF c \in stream.key THEN c ELSE vdhp.last_rap
    BY <2>2, <2>7, <2>8, AfterDecodeType DEF SoundHere, TypeInv
  <2>10. /\ handler.delay_count = seen.count /\ handler.has_dec_frame = (vdhp.has_dec_frame \/ o.got)
         /\ handler.first_valid = vdhp.first_valid
    BY <1>2 DEF AfterDecode, Handlers
  <2>11. handler.last_rap <= c /\ handler.last_rap \in Nat
    BY <1>2, <1>3, <2>1, <2>9
  <2>12. Reordered /\ (\A k \in stream.key : r < k => c < k) => RapPts = stream.shows[r]
    <3>. SUFFICES ASSUME Reordered, \A k \in stream.key : r < k => c < k  PROVE RapPts = stream.shows[r]
      OBVIOUS
    <3>1. AfterDecode(Outcome("", FALSE, Empty, {}), 0).last_rap = IF c \in stream.key THEN c ELSE vdhp.last_rap
      BY <1>2, <2>2 DEF AfterDecode, Handlers
    <3>2. CASE c = r
      <4>1. OutputOrderId(c) = stream.shows[r] /\ stream.shows[r] # 0
        BY <1>3, <2>1, <2>2, <3>2 DEF OutputOrderId
      <4>. QED  BY <1>3, <2>1, <3>1, <3>2, <4>1 DEF RapPts
    <3>3. CASE c # r
      <4>1. r < c /\ vdhp.last_rap < c /\ Underway(r)
        BY <1>3, <2>1, <3>3 DEF Seeking
      <4>2. c \notin stream.key
        BY <1>2, <4>1
      <4>3. call.rap_pts = stream.shows[r]
        <5>1. \A k \in stream.key : r < k => c <= k
          <6>1. stream.key \subseteq 1..P
            BY TypesHere DEF SoundHere
          <6>. QED  BY <1>2, <6>1
        <5>. QED  BY <4>1, <5>1 DEF Underway
      <4>4. c # vdhp.last_rap
        BY <1>2, <4>1
      <4>. QED  BY <3>1, <4>2, <4>3, <4>4 DEF RapPts
    <3>. QED  BY <3>2, <3>3
  <2>13. vdhp.delay_count >= 0
    BY SoundFacts
  <2>14. CASE /\ call' = [call EXCEPT !.current = @ + 1, !.goal = seen.goal, !.delay = seen.delay,
                                      !.ready = @ \/ o.got, !.rap_pts = RapPts]
              /\ vdhp' = handler /\ frame' = o.frame
              /\ ~(o.got /\ o.frame.id = call.picture)
    <3>1. /\ call'.at = "seek" /\ call'.picture = call.picture /\ call'.errors = call.errors
          /\ call'.current = c + 1 /\ call'.rap = r
      BY <1>2, <2>1, <2>14 DEF Calls
    <3>2. call'.goal = seen.goal /\ call'.delay = seen.delay /\ call'.ready = (call.ready \/ o.got) /\ call'.rap_pts = RapPts
      BY <1>2, <2>14 DEF Calls
    <3>3. CASE c < stream.shows[r] + H
      <4>1. seen = [count |-> vdhp.delay_count, delay |-> call.delay, goal |-> call.goal] /\ ~o.got
        BY <1>3, <2>1, <2>2, <2>6, <2>7, <3>3, SeekSeesNothing
      <4>2. NotYet
        BY <1>2, <1>3, <2>1, <3>3 DEF Seeking
      <4>. HIDE DEF handler, seen
      <4>3. ~call'.ready
        BY <3>2, <4>1, <4>2 DEF NotYet
      <4>4. /\ call'.delay = stream.announced /\ call'.goal = call.picture + stream.announced
            /\ vdhp'.delay_count >= 0
        BY <2>10, <2>13, <2>14, <3>2, <4>1, <4>2 DEF NotYet
      <4>. QED  BY <1>1, <1>2, <1>3, <2>1, <2>2, <2>5, <2>9, <2>10, <2>11, <2>12, <2>14, <3>1, <3>2, <3>3, <4>3, <4>4, SeekingNext
    <3>4. CASE ~(c < stream.shows[r] + H)
      <4>1. stream.shows[r] + H <= c
        BY <1>2, <1>3, <2>1, <3>4
      <4>2. o.got /\ o.frame = [picture |-> c - H, id |-> Own(c - H)]
        BY <2>6, <4>1
      <4>3. /\ seen.count = H /\ seen.delay = H /\ seen.goal \in Int /\ seen.goal >= call.picture + H
            /\ ~Numbered => seen.goal = call.picture + H
            /\ c <= call.picture + H
        BY <1>3, <2>1, <2>2, <4>1, <4>2, SeekSees
      <4>4. Numbered => c < call.picture + H
        <5>. SUFFICES ASSUME Numbered  PROVE c < call.picture + H
          OBVIOUS
        <5>1. o.frame.id = c - H
          BY <4>2 DEF Own
        <5>. QED  BY <1>2, <1>3, <2>1, <2>14, <4>2, <4>3, <5>1
      <4>. HIDE DEF handler, seen
      <4>5. call'.ready /\ vdhp'.has_dec_frame
        BY <2>10, <2>14, <3>2, <4>2
      <4>6. /\ call'.delay = H /\ vdhp'.delay_count >= 0
            /\ frame'.picture = c - H /\ frame'.id = Own(c - H)
            /\ call'.goal \in Int /\ call'.goal >= call.picture + H
            /\ IF Numbered THEN c < call.picture + H
               ELSE c <= call.picture + H /\ call'.goal = call.picture + H
        BY <1>2, <2>10, <2>14, <3>2, <4>2, <4>3, <4>4
      <4>. QED  BY <1>1, <1>2, <1>3, <2>1, <2>2, <2>5, <2>9, <2>10, <2>11, <2>12, <2>14, <3>1, <3>2, <3>4, <4>5, <4>6, SeekingNext
    <3>. QED  BY <3>3, <3>4
  <2>15. CASE o.got /\ o.frame.id = call.picture /\ GetFrame(handler, c + 1, r, o.frame)
    <3>1. stream.shows[r] + H <= c
      BY <1>2, <1>3, <2>1, <2>6, <2>15
    <3>2. o.frame = [picture |-> c - H, id |-> Own(c - H)]
      BY <2>6, <3>1
    <3>3. seen.count = H /\ c <= call.picture + H
      BY <1>3, <2>1, <2>2, <2>15, <3>1, <3>2, SeekSees
    <3>4. o.frame.picture = c - H /\ o.frame.id # c - H + 1
      <4>1. o.frame.id \in {c - H, 0} /\ o.frame.picture = c - H
        BY <3>2 DEF Own
      <4>. QED  BY <1>2, <1>3, <2>1, <3>1, <4>1
    <3>5. SettlesAt(handler, o.frame, r, c)
      BY <2>5, <2>9, <2>10, <2>11, <2>15, <3>1, <3>3, <3>4 DEF SettlesAt
    <3>. HIDE DEF handler, seen
    <3>. QED  BY <1>1, <1>2, <1>3, <2>1, <2>4, <2>7, <2>9, <2>15, <3>3, <3>5, GetFrameSound
  <2>16. ~Error(o)
    <3>1. CASE c < stream.shows[r] + H
      BY <1>3, <2>1, <2>2, <2>6, <2>7, <3>1, SeekSeesNothing
    <3>2. CASE ~(c < stream.shows[r] + H)
      <4>1. stream.shows[r] + H <= c
        BY <1>2, <1>3, <2>1, <3>2
      <4>. QED  BY <2>6, <4>1 DEF Error
    <3>. QED  BY <3>1, <3>2
  <2>. QED  BY <2>3, <2>14, <2>15, <2>16
<1>6. CASE SeekEnds
  <2>. DEFINE handler == [vdhp EXCEPT !.delay_count = SeekDelay]
  <2>1. /\ call.at = "seek" /\ (Beyond(c, call.goal) \/ EndOfStream)
        /\ GetFrame(handler, c, r, frame) /\ UNCHANGED <<stream, libav>>
    BY <1>6 DEF SeekEnds
  <2>2. c # r
    <3>. SUFFICES ASSUME c = r  PROVE FALSE
      OBVIOUS
    <3>1. libav.next <= r /\ c <= stream.shows[r] + H
      BY <1>2, <1>3, <2>1 DEF Fresh
    <3>2. call.goal = call.picture + stream.announced
      BY <1>3, <2>1, <3>1 DEF Seeking, NotYet
    <3>. QED  BY <1>2, <1>3, <2>1, <3>1, <3>2 DEF Beyond, EndOfStream
  <2>3. r < c /\ c <= P + 1 /\ Running(r, c - 1) /\ vdhp.last_rap < c /\ vdhp.last_fed = c - 1
    BY <1>3, <2>1, <2>2
  <2>4. EndOfStream => c = P + 1
    BY <1>2, <2>3 DEF EndOfStream, Running, Min2
  <2>5. ~(c <= stream.shows[r] + H)
    <3>. SUFFICES ASSUME c <= stream.shows[r] + H  PROVE FALSE
      OBVIOUS
    <3>1. call.goal = call.picture + stream.announced
      BY <1>3, <2>1 DEF Seeking, NotYet
    <3>2. stream.shows[r] + H <= P
      BY <1>3, <2>1, NotShort, SoundFacts
    <3>. QED  BY <1>2, <1>3, <2>1, <2>4, <3>1, <3>2 DEF Beyond
  <2>6. ComingOut(c - 1)
    BY <1>3, <2>1, <2>5 DEF Seeking
  <2>7. /\ call.delay = H /\ vdhp.has_dec_frame /\ frame.picture = c - 1 - H /\ frame.id = Own(c - 1 - H)
        /\ IF Numbered THEN c - 1 < call.picture + H ELSE c - 1 <= call.picture + H
    BY <2>6 DEF ComingOut
  <2>8. SeekDelay = H
    BY <1>2, <1>3, <2>1, <2>5, <2>7 DEF SeekDelay, Min2
  <2>9. /\ handler \in Handlers /\ handler.delay_count = H /\ handler.has_dec_frame /\ handler.last_fed = c - 1
        /\ handler.last_rap = vdhp.last_rap /\ handler.first_valid = vdhp.first_valid
    BY <1>2, <2>3, <2>7, <2>8 DEF Handlers
  <2>10. frame.id # c - 1 - H + 1
    <3>1. frame.id \in {c - 1 - H, 0}
      BY <2>7 DEF Own
    <3>. QED  BY <1>2, <1>3, <2>1, <2>5, <3>1
  <2>11. RunsOn(r, c - 1)
    BY <2>1, <2>3 DEF RunsOn, Running
  <2>12. SettlesAt(handler, frame, r, c - 1)
    <3>1. stream.shows[r] + H <= c - 1 /\ handler.last_rap <= c - 1
      BY <1>2, <1>3, <2>1, <2>3, <2>5, <2>9
    <3>. QED  BY <2>7, <2>9, <2>10, <2>11, <3>1 DEF SettlesAt
  <2>13. c - 1 \in Nat /\ c = (c - 1) + 1 /\ r <= c - 1 /\ c - 1 <= call.picture + H
    BY <1>2, <1>3, <2>1, <2>3, <2>7
  <2>. HIDE DEF handler, c, r
  <2>. QED  BY <1>1, <1>2, <1>3, <2>1, <2>9, <2>12, <2>13, GetFrameSound
<1>. QED  BY <1>4, <1>5, <1>6 DEF Seek

(***************************************************************************)
(* The induction                                                           *)
(***************************************************************************)
LEMMA StreamStays ==
  ASSUME [Next]_vars
  PROVE  stream' = stream /\ Sound' = Sound
<1>1. stream' = stream
  BY DEF Next, Ask, Handle, Begin, SameAgain, BeforeFirstValid, GoOn, SeekFirst, SeekVideo,
         Seek, SeekMisses, SeekFeeds, SeekEnds, Get, GetFeeds, GetEnds,
         Flush, AlreadyStored, FlushesNothing, Flushes, FlushFails, FlushEnds, FlushCrashes,
         Retry, GiveUp, RetryIgnoring, RetryEarlier, Crashed, vars
<1>. QED  BY <1>1 DEF Sound, Short, Mistakable, Told, Reordered, Decodable, Leading, KeyOf

\* The invariant holds once the stream has been opened.
LEMMA InitSound ==
  ASSUME Init
  PROVE  IInv
<1>1. StreamKept /\ TypeInv /\ StreamOK(stream) /\ P \in Nat
  BY InitTyped, MoreFacts
<1>2. ASSUME Sound  PROVE SoundInv
  <2>1. vdhp.first_valid = stream.shows[1] /\ vdhp.last_frame = P + 1 /\ vdhp.delay_count = 0
    BY <1>1, <1>2, FirstValidIs DEF Init, Sound
  <2>2. Remembered
    BY <1>1, <2>1 DEF Remembered, Numbers
  <2>3. call = NoCall /\ answer.ok = FALSE
    BY DEF Init
  <2>. QED  BY <2>1, <2>2, <2>3 DEF SoundInv, NoCall, Idle
<1>. QED  BY <1>1, <1>2 DEF IInv

\* Every step keeps the invariant.
LEMMA SoundStep ==
  ASSUME IInv, [Next]_vars
  PROVE  IInv'
<1>1. stream' = stream /\ Sound' = Sound
  BY StreamStays
<1>2. StreamKept' /\ TypeInv'
  BY TypeStep DEF IInv
<1>3. ASSUME Sound  PROVE SoundInv'
  <2>1. SoundHere
    BY <1>3 DEF SoundHere, IInv
  <2>2. ASSUME UNCHANGED vars  PROVE SoundInv'
    BY <2>1, <2>2 DEF SoundHere, vars, SoundInv, Remembered, Settled, Running, Held, Waiting, Buffer, Own, Numbered,
          Reordered, H, Min2, Seeking, Getting, Wanted, Fresh, Underway, NotYet, ComingOut, Idle, Promised
  <2>3. ASSUME NEW p \in Numbers, Ask(p)  PROVE SoundInv'
    BY <2>1, <2>3, AskSound
  <2>4. CASE Begin
    BY <2>1, <2>4, BeginSound
  <2>5. CASE Seek
    BY <2>1, <2>5, SeekSound
  <2>6. CASE Get
    BY <2>1, <2>6, GetSound
  <2>7. CASE Flush
    BY <2>1, <2>7, FlushSound
  <2>8. ~Retry /\ ~Crashed
    BY <2>1, SoundFacts DEF Retry, GiveUp, RetryIgnoring, RetryEarlier, Crashed
  <2>. QED  BY <2>2, <2>3, <2>4, <2>5, <2>6, <2>7, <2>8 DEF Next, Handle
<1>. QED  BY <1>1, <1>2, <1>3 DEF IInv

\* The invariant, which the results below follow from.
THEOREM Invariant == Spec => []IInv
<1>1. Init => IInv
  BY InitSound
<1>2. IInv /\ [Next]_vars => IInv'
  BY SoundStep
<1>. QED  BY <1>1, <1>2, PTL DEF Spec

(***************************************************************************)
(* What follows                                                            *)
(***************************************************************************)
\* Right, with nothing presumed of the last seek.
NeverWrong == Idle /\ answer.ok => answer.shown = Promised(answer.picture)

(* On a sound stream every picture delivered is the one asked for.         *)
THEOREM ServedRight == Spec => [](Sound => Right /\ NeverWrong)
<1>1. IInv => (Sound => Right /\ NeverWrong)
  BY DEF IInv, SoundInv, Right, NeverWrong
<1>. QED  BY <1>1, Invariant, PTL

\* DelayExact, with nothing presumed of the last seek.
DelayKept == /\ vdhp.delay_count >= 0
             /\ Idle /\ vdhp.last_frame <= P => frame.picture = vdhp.last_fed - vdhp.delay_count

(* On a sound stream the estimated delay of the decoder is exact whenever  *)
(* a request has been served by decoding.                                  *)
THEOREM DelayRight == Spec => [](Sound => DelayExact /\ DelayKept)
<1>1. IInv => (Sound => DelayExact /\ DelayKept)
  <2>. SUFFICES ASSUME IInv, Sound  PROVE DelayExact /\ DelayKept
    OBVIOUS
  <2>1. SoundInv /\ vdhp.delay_count >= 0 /\ vdhp.last_frame \in 1..P + 1 /\ P \in Nat
    BY MoreFacts DEF IInv, SoundInv, TypeInv, TypeOK, Handlers
  <2>2. ASSUME Idle, vdhp.last_frame <= P  PROVE frame.picture = vdhp.last_fed - vdhp.delay_count
    <3>1. Remembered
      BY <2>1, <2>2 DEF SoundInv, Idle
    <3>2. vdhp.last_frame \in Numbers
      BY <2>1, <2>2 DEF Numbers
    <3>3. Settled(vdhp.last_fed)
      BY <3>1, <3>2 DEF Remembered
    <3>. QED  BY <3>3 DEF Settled
  <2>. QED  BY <2>1, <2>2 DEF DelayExact, DelayKept
<1>. QED  BY <1>1, Invariant, PTL

(* A stream without faults is served without a retry.                      *)
THEOREM NoRetry == Spec => []RetriesOnlyOnFault
<1>1. IInv => RetriesOnlyOnFault
  BY DEF IInv, SoundInv, RetriesOnlyOnFault
<1>. QED  BY <1>1, Invariant, PTL

(* On a sound stream the flush always has a buffer to ask: the crash needs *)
(* a fault, or a stream too short for its decoder.                         *)
THEOREM NoCrash == Spec => [](Sound => DecFrameStored /\ call.at # "crashed")
<1>1. IInv => (Sound => DecFrameStored /\ call.at # "crashed")
  BY DEF IInv, SoundInv, Getting, Settled, DecFrameStored
<1>. QED  BY <1>1, Invariant, PTL

(***************************************************************************)
(* The handler implements the server: its first states and its steps.      *)
(***************************************************************************)
LEMMA ServerInit ==
  ASSUME Init
  PROVE  Server!Init
<1>1. FirstValid \in Numbers
  BY MoreFacts, FirstValidIs DEF Init, StreamKept
<1>2. call.at = "idle" /\ vdhp.first_valid = FirstValid /\ answer = [picture |-> 0, shown |-> 0, ok |-> FALSE]
  BY DEF Init, NoCall
<1>3. Sound \in BOOLEAN
  BY DEF Sound
<1>. QED  BY <1>1, <1>2, <1>3 DEF Server!Init, Server!Pictures, Server!NoAnswer, Idle, Numbers

\* A step that answers the request, and one that leaves it in hand.
Ends == /\ call' = NoCall /\ answer'.picture = call.picture
        /\ vdhp'.first_valid = vdhp.first_valid /\ (answer'.ok \/ call.at = "retry")

Stays == /\ call'.at \notin {"idle", "crashed"} /\ call'.picture = call.picture
         /\ vdhp'.first_valid = vdhp.first_valid /\ answer' = answer

\* A picture delivered ends the request.
LEMMA SucceedEnds ==
  ASSUME NEW handler \in Handlers, NEW buffer, handler.first_valid = vdhp.first_valid, Succeed(handler, buffer)
  PROVE  Ends
BY DEF Succeed, Deliver, Answer, Ends, Handlers

\* get_frame begins with an answer or with its loop.
LEMMA GetFrameServes ==
  ASSUME call \in Calls, NEW handler \in Handlers, handler.first_valid = vdhp.first_valid,
         NEW start, NEW rap, NEW buffer, GetFrame(handler, start, rap, buffer)
  PROVE  Ends \/ Stays
<1>. DEFINE goal == call.picture + handler.delay_count
<1>1. CASE Succeed(handler, buffer)
  BY <1>1, SucceedEnds
<1>2. CASE GoesOn([call EXCEPT !.at = "get", !.current = start, !.goal = goal, !.rap = rap, !.got = FALSE],
                  handler, buffer)
  BY <1>2 DEF GoesOn, Stays, Calls
<1>. QED  BY <1>1, <1>2 DEF GetFrame

\* A failed attempt is no answer yet.
LEMMA GoRetryStays ==
  ASSUME call \in Calls, NEW handler, handler.first_valid = vdhp.first_valid, NEW buffer, GoRetry(handler, buffer)
  PROVE  Stays
BY DEF GoRetry, GoesOn, Stays, Calls

\* Nor is a seek.
LEMMA SeekVideoStays ==
  ASSUME call \in Calls, NEW handler \in Handlers, handler.first_valid = vdhp.first_valid,
         NEW rap, NEW rap_pos, NEW mode, NEW errors, SeekVideo(handler, rap, rap_pos, mode, errors)
  PROVE  Stays
<1>1. /\ call' = [call EXCEPT !.at = "seek", !.current = rap, !.goal = call.picture + stream.announced,
                              !.rap = rap, !.rap_pos = rap_pos, !.delay = stream.announced,
                              !.ready = FALSE, !.rap_pts = 0, !.mode = mode, !.errors = errors]
      /\ vdhp' = [handler EXCEPT !.delay_count = 0] /\ answer' = answer
  BY DEF SeekVideo
<1>2. call'.at = "seek" /\ call'.picture = call.picture
  BY <1>1 DEF Calls
<1>3. vdhp'.first_valid = vdhp.first_valid
  BY <1>1 DEF Handlers
<1>. QED  BY <1>1, <1>2, <1>3 DEF Stays

\* Every step of the handler answers, goes on or crashes.
LEMMA HandleServes ==
  ASSUME StreamKept, TypeInv, Handle
  PROVE  Ends \/ Stays \/ FlushCrashes
<1>1. call \in Calls /\ vdhp \in Handlers
  BY TypesHere
<1>2. CASE SameAgain \/ BeforeFirstValid \/ GiveUp
  BY <1>1, <1>2 DEF SameAgain, BeforeFirstValid, GiveUp, Deliver, Answer, Ends, Handlers
<1>3. CASE GoOn
  BY <1>1, <1>3, GetFrameServes DEF GoOn
<1>4. CASE SeekFirst \/ RetryIgnoring \/ RetryEarlier
  <2>1. \A rap \in Nat : [vdhp EXCEPT !.last_rap = rap] \in Handlers
                         /\ [vdhp EXCEPT !.last_rap = rap].first_valid = vdhp.first_valid
    BY <1>1 DEF Handlers
  <2>2. CASE SeekFirst
    <3>1. call.picture \in Numbers
      BY <2>2 DEF SeekFirst, Sought, TypeInv, InHand, Idle
    <3>2. SampleNumber(call.picture) \in Int
      BY <3>1, SampleIs, MoreFacts DEF Numbers
    <3>3. RapOf(call.picture) \in Nat
      BY <3>1, <3>2, PointIs, TypesHere DEF RapOf
    <3>. QED  BY <1>1, <2>1, <2>2, <3>3, SeekVideoStays DEF SeekFirst
  <2>3. CASE RetryIgnoring
    BY <1>1, <2>3, SeekVideoStays DEF RetryIgnoring
  <2>4. CASE RetryEarlier
    <3>1. call.picture \in Numbers /\ call.rap - 1 \in Int
      BY <2>4, TypesHere DEF RetryEarlier, TypeInv, InHand, Idle
    <3>2. FindRandomAccessiblePoint(call.picture, call.rap - 1) \in Nat
      BY <3>1, PointIs, TypesHere
    <3>. QED  BY <1>1, <2>1, <2>4, <3>2, SeekVideoStays DEF RetryEarlier
  <2>. QED  BY <1>4, <2>2, <2>3, <2>4
<1>5. CASE SeekMisses
  BY <1>1, <1>5, GoRetryStays DEF SeekMisses
<1>6. CASE SeekFeeds \/ GetFeeds
  <2>1. Feeding
    BY <1>6 DEF SeekFeeds, GetFeeds, Feeding
  <2>2. \A o \in Outcomes(Fed), d \in Int : /\ AfterDecode(o, d) \in Handlers
                                            /\ AfterDecode(o, d).first_valid = vdhp.first_valid
                                            /\ o \in OutcomeSet
    <3>. SUFFICES ASSUME NEW o \in Outcomes(Fed), NEW d \in Int
                  PROVE  /\ AfterDecode(o, d) \in Handlers /\ AfterDecode(o, d).first_valid = vdhp.first_valid
                         /\ o \in OutcomeSet
      OBVIOUS
    <3>1. o \in OutcomeSet
      BY <2>1, OutcomeType
    <3>. QED  BY <1>1, <3>1, AfterDecodeType DEF TypeInv, AfterDecode, Handlers
  <2>3. CASE SeekFeeds
    <3>1. PICK o \in Outcomes(Fed) :
            \/ GetFrame(AfterDecode(o, Observed(o).count), call.current + 1, call.rap, o.frame)
            \/ GoRetry(AfterDecode(o, Observed(o).count), o.frame)
            \/ /\ call' = [call EXCEPT !.current = @ + 1, !.goal = Observed(o).goal, !.delay = Observed(o).delay,
                                       !.ready = @ \/ o.got, !.rap_pts = RapPts]
               /\ vdhp' = AfterDecode(o, Observed(o).count) /\ UNCHANGED answer
      BY <2>3 DEF SeekFeeds
    <3>2. Observed(o).count \in Int
      BY <2>2, ObservedType
    <3>. DEFINE handler == AfterDecode(o, Observed(o).count)
    <3>3. handler \in Handlers /\ handler.first_valid = vdhp.first_valid
      BY <2>2, <3>2
    <3>. HIDE DEF handler
    <3>4. CASE GetFrame(handler, call.current + 1, call.rap, o.frame)
      BY <1>1, <3>3, <3>4, GetFrameServes
    <3>5. CASE GoRetry(handler, o.frame)
      BY <1>1, <3>3, <3>5, GoRetryStays
    <3>6. CASE /\ call' = [call EXCEPT !.current = @ + 1, !.goal = Observed(o).goal, !.delay = Observed(o).delay,
                                       !.ready = @ \/ o.got, !.rap_pts = RapPts]
               /\ vdhp' = handler /\ UNCHANGED answer
      <4>1. call'.at = "seek" /\ call'.picture = call.picture
        BY <1>1, <2>3, <3>6 DEF SeekFeeds, Calls
      <4>. QED  BY <3>3, <3>6, <4>1 DEF Stays
    <3>. QED  BY <3>1, <3>4, <3>5, <3>6 DEF handler
  <2>4. CASE GetFeeds
    <3>1. PICK o \in Outcomes(Fed) :
            LET delay == IF ~o.got THEN vdhp.delay_count + 1
                         ELSE IF o.frame.id = 0 THEN vdhp.delay_count ELSE call.current - o.frame.id
            IN  \/ GoRetry(AfterDecode(o, vdhp.delay_count), o.frame)
                \/ Succeed(AfterDecode(o, delay), o.frame)
                \/ GoRetry(AfterDecode(o, delay), o.frame)
                \/ GoesOn([call EXCEPT !.current = @ + 1, !.got = o.got, !.goal = @ + delay - vdhp.delay_count],
                          AfterDecode(o, delay), o.frame)
      BY <2>4 DEF GetFeeds
    <3>. DEFINE delay == IF ~o.got THEN vdhp.delay_count + 1
                         ELSE IF o.frame.id = 0 THEN vdhp.delay_count ELSE call.current - o.frame.id
    <3>2. delay \in Int /\ vdhp.delay_count \in Int
      <4>1. o.frame.id \in Int
        BY <2>2 DEF OutcomeSet, Buffers
      <4>. QED  BY <4>1, TypesHere
    <3>. HIDE DEF delay
    <3>3. ASSUME NEW d \in Int, GoRetry(AfterDecode(o, d), o.frame)  PROVE Stays
      BY <1>1, <2>2, <3>3, GoRetryStays
    <3>4. CASE Succeed(AfterDecode(o, delay), o.frame)
      BY <2>2, <3>2, <3>4, SucceedEnds
    <3>5. CASE GoesOn([call EXCEPT !.current = @ + 1, !.got = o.got, !.goal = @ + delay - vdhp.delay_count],
                      AfterDecode(o, delay), o.frame)
      <4>1. call'.at = "get" /\ call'.picture = call.picture
        BY <1>1, <2>4, <3>5 DEF GetFeeds, GoesOn, Calls
      <4>. QED  BY <2>2, <3>2, <3>5, <4>1 DEF GoesOn, Stays
    <3>. QED  BY <3>1, <3>2, <3>3, <3>4, <3>5 DEF delay
  <2>. QED  BY <1>6, <2>3, <2>4
<1>7. CASE SeekEnds
  <2>1. SeekDelay \in Int
    BY TypesHere DEF SeekDelay, Min2
  <2>2. [vdhp EXCEPT !.delay_count = SeekDelay] \in Handlers
        /\ [vdhp EXCEPT !.delay_count = SeekDelay].first_valid = vdhp.first_valid
    BY <1>1, <2>1 DEF Handlers
  <2>. QED  BY <1>1, <1>7, <2>2, GetFrameServes DEF SeekEnds
<1>8. ASSUME NEW got, Leave(got)  PROVE Ends \/ Stays
  BY <1>1, <1>8, SucceedEnds, GoRetryStays DEF Leave
<1>9. CASE GetEnds
  <2>1. CASE GoesOn([call EXCEPT !.at = "flush"], vdhp, frame)
    BY <1>1, <2>1 DEF GoesOn, Stays, Calls
  <2>. QED  BY <1>8, <1>9, <2>1 DEF GetEnds
<1>10. CASE AlreadyStored \/ FlushesNothing
  <2>1. [vdhp EXCEPT !.last_fed = call.current] \in Handlers
        /\ [vdhp EXCEPT !.last_fed = call.current].first_valid = vdhp.first_valid
    BY <1>1, TypesHere DEF Handlers
  <2>. QED  BY <1>1, <1>10, <2>1, SucceedEnds, GoRetryStays DEF AlreadyStored, FlushesNothing
<1>13. CASE FlushFails
  BY <1>1, <1>13, GoRetryStays DEF FlushFails
<1>11. CASE Flushes
  <2>1. /\ call'.at = "flush" /\ call'.picture = call.picture /\ vdhp'.first_valid = vdhp.first_valid
        /\ answer' = answer
    BY <1>1, <1>11 DEF Flushes, GoesOn, Calls, Handlers
  <2>. QED  BY <2>1 DEF Stays
<1>12. CASE FlushEnds
  BY <1>8, <1>12 DEF FlushEnds
<1>. QED
  BY <1>2, <1>3, <1>4, <1>5, <1>6, <1>7, <1>9, <1>10, <1>11, <1>12, <1>13
  DEF Handle, Begin, Seek, Get, Flush, Retry

\* And is one of the server, or none.
LEMMA ServerStep ==
  ASSUME IInv, IInv', [Next]_vars
  PROVE  [Server!Next]_(Server!vars)
<1>. DEFINE Asked == IF Idle THEN 0 ELSE IF call.at = "crashed" THEN -1 ELSE call.picture
<1>1. stream' = stream /\ Sound' = Sound
  BY StreamStays
<1>2. /\ StreamKept /\ TypeInv /\ P \in Nat
      /\ answer' \in [picture : 0..P, shown : 0..P, ok : BOOLEAN]
      /\ ~Idle => call.picture \in 1..P
  BY MoreFacts DEF IInv, TypeInv, TypeOK, InHand, Numbers
<1>3. CASE UNCHANGED vars
  BY <1>1, <1>3 DEF vars, Server!vars, Idle
<1>4. ASSUME NEW p \in Numbers, Ask(p)  PROVE Server!Ask(p)
  <2>1. call'.at = "asked" /\ call'.picture = p /\ Idle /\ UNCHANGED <<vdhp, answer>>
    BY <1>4 DEF Ask, NoCall, Idle
  <2>. QED  BY <1>1, <2>1 DEF Server!Ask, Idle
<1>5. CASE Handle
  <2>1. ~Idle /\ call.at # "crashed" /\ Asked = call.picture /\ call.picture \in 1..P
    BY <1>2, <1>5 DEF Handle, Begin, SameAgain, BeforeFirstValid, GoOn, SeekFirst, Sought,
         Seek, SeekMisses, SeekFeeds, SeekEnds, Get, GetFeeds, GetEnds,
         Flush, AlreadyStored, FlushesNothing, Flushes, FlushFails, FlushEnds, FlushCrashes,
         Retry, GiveUp, RetryIgnoring, RetryEarlier, Idle
  <2>2. CASE Ends
    <3>1. Asked' = 0 /\ Idle' /\ vdhp'.first_valid = vdhp.first_valid /\ answer'.picture = call.picture
      BY <2>2 DEF Ends, NoCall, Idle
    <3>2. answer' \in {a \in Server!Answers : a.picture = Asked}
      BY <1>2, <2>1, <3>1 DEF Server!Answers, Server!Pictures
    <3>3. ASSUME Sound  PROVE answer'.ok /\ answer'.shown = Server!Shown(Asked, vdhp.first_valid)
      <4>1. SoundInv /\ SoundInv'
        BY <1>1, <3>3 DEF IInv
      <4>2. answer'.ok
        BY <2>2, <4>1 DEF Ends, SoundInv
      <4>3. answer'.shown = IF answer'.picture < vdhp'.first_valid THEN vdhp'.first_valid ELSE answer'.picture
        BY <3>1, <4>1, <4>2 DEF SoundInv, Promised
      <4>. QED  BY <2>1, <3>1, <4>2, <4>3 DEF Server!Shown
    <3>. HIDE DEF Asked
    <3>4. Server!Answer
      BY <1>1, <2>1, <3>1, <3>2, <3>3 DEF Server!Answer, Server!Pictures, Asked
    <3>. QED  BY <3>4 DEF Server!Next
  <2>3. CASE Stays
    <3>1. Asked' = Asked /\ vdhp'.first_valid = vdhp.first_valid /\ answer' = answer
      BY <2>1, <2>3 DEF Stays, Idle
    <3>. QED  BY <1>1, <3>1 DEF Server!vars
  <2>4. CASE FlushCrashes
    <3>1. call'.at = "crashed" /\ UNCHANGED <<vdhp, answer>>
      BY <1>2, <2>4, TypesHere DEF FlushCrashes, Calls
    <3>2. ~Sound
      BY <1>1, <3>1 DEF IInv, SoundInv
    <3>3. Server!Crash
      BY <1>1, <2>1, <3>1, <3>2 DEF Server!Crash, Server!Pictures, Idle
    <3>. QED  BY <3>3 DEF Server!Next
  <2>. QED  BY <1>2, <1>5, <2>2, <2>3, <2>4, HandleServes
<1>6. CASE Crashed
  BY <1>3, <1>6 DEF Crashed
<1>. QED  BY <1>3, <1>4, <1>5, <1>6 DEF Next, Server!Next, Server!Pictures, Numbers

(* The handler implements the server: every request is answered or, on an  *)
(* unsound stream, ends in a crash; on a sound one the answer is right.    *)
THEOREM ServesSafely == Spec => Server!Init /\ [][Server!Next]_(Server!vars)
<1>1. Init => Server!Init
  BY ServerInit
<1>2. IInv /\ IInv' /\ [Next]_vars => [Server!Next]_(Server!vars)
  BY ServerStep
<1>. QED  BY <1>1, <1>2, Invariant, PTL DEF Spec
=============================================================================
