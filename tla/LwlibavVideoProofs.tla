------------------------- MODULE LwlibavVideoProofs -------------------------
(***************************************************************************)
(* Proofs about LwlibavVideo, for every number of pictures and every set   *)
(* of order lists that VideoAssumption allows: the caches are always what  *)
(* they are filed under, and a frame served from them is the one asked     *)
(* for.  The induction needs to know which pictures can be in the output   *)
(* buffer only (Lone), what a request has still to do (TodoSound), what it *)
(* has done (CopySound) and which frames share memory (SharersSound).      *)
(*                                                                         *)
(* Played forward every frame is right (ForwardInv: what the output buffer *)
(* was last used for), and no picture before the last one is needed again  *)
(* (OnwardInv: what the two caches are known to hold).                     *)
(***************************************************************************)
EXTENDS LwlibavVideo, SequenceTheorems, TLAPS

(***************************************************************************)
(* Facts about order lists                                                 *)
(***************************************************************************)
\* The fields of a frame of the list are pictures.
LEMMA FieldsArePictures ==
  ASSUME Covers(order), NEW i \in DOMAIN order
  PROVE  /\ OrderAt(i) = order[i]
         /\ OrderAt(i).top \in Pictures /\ OrderAt(i).bottom \in Pictures
         /\ \A s \in Sides : OrderAt(i)[s] \in Pictures
         /\ i \in 1..Len(order)
<1> DEFINE Record == [top : Pictures, bottom : Pictures]
<1>1. order \in Seq(Record)
  BY DEF Covers
<1> HIDE DEF Record
<1>2. i \in 1..Len(order) /\ order[i] \in Record
  BY <1>1
<1>3. OrderAt(i) = order[i]
  BY DEF OrderAt
<1>4. OrderAt(i).top \in Pictures /\ OrderAt(i).bottom \in Pictures
  BY <1>2, <1>3 DEF Record
<1> QED
  BY <1>2, <1>3, <1>4 DEF Sides

\* The fields run through the pictures in order.
LEMMA FieldsRise ==
  ASSUME Covers(order), NEW k \in DOMAIN order, NEW l \in DOMAIN order, k <= l
  PROVE  /\ OrderAt(k).top <= OrderAt(l).top /\ OrderAt(k).bottom <= OrderAt(l).bottom
         /\ OrderAt(k).top \in Int /\ OrderAt(k).bottom \in Int
         /\ OrderAt(l).top \in Int /\ OrderAt(l).bottom \in Int
<1>1. /\ OrderAt(k) = order[k] /\ OrderAt(l) = order[l] /\ k \in Int /\ l \in Int
      /\ OrderAt(k).top \in Int /\ OrderAt(k).bottom \in Int
      /\ OrderAt(l).top \in Int /\ OrderAt(l).bottom \in Int
  BY VideoAssumption, FieldsArePictures DEF Pictures
<1>2. CASE k = l
  BY <1>1, <1>2
<1>3. CASE k # l
  <2>1. k < l
    BY <1>1, <1>3
  <2>2. order[k].top <= order[l].top /\ order[k].bottom <= order[l].bottom
    BY <2>1 DEF Covers
  <2> QED
    BY <1>1, <2>2
<1> QED
  BY <1>2, <1>3

\* A picture that fills a frame and none of its neighbours is in no other frame.
LEMMA OneFrame ==
  ASSUME Covers(order), NEW i \in DOMAIN order, NEW j \in DOMAIN order,
         OrderAt(i).top = OrderAt(i).bottom, ~Shared(i), OrderAt(i).top \in FieldsOf(j)
  PROVE  i = j
<1> DEFINE p == OrderAt(i).top
<1>1. i \in 1..Len(order) /\ j \in 1..Len(order) /\ Len(order) \in Nat /\ DOMAIN order = 1..Len(order)
  BY DEF Covers
<1>2. ASSUME i < j PROVE FALSE
  <2>1. i + 1 \in DOMAIN order /\ i <= i + 1 /\ i + 1 <= j
    BY <1>1, <1>2
  <2>2. p \in FieldsOf(i + 1)
    BY <2>1, FieldsRise DEF FieldsOf
  <2> QED
    BY <2>2 DEF Shared
<1>3. ASSUME j < i PROVE FALSE
  <2>1. i - 1 \in DOMAIN order /\ i - 1 <= i /\ j <= i - 1
    BY <1>1, <1>3
  <2>2. p \in FieldsOf(i - 1)
    BY <2>1, FieldsRise DEF FieldsOf
  <2> QED
    BY <2>2 DEF Shared
<1> QED
  BY <1>1, <1>2, <1>3

\* Such a picture is in the output buffer only.
LEMMA LoneFrame ==
  ASSUME Covers(order), NEW i \in DOMAIN order,
         OrderAt(i).top = OrderAt(i).bottom, ~Shared(i)
  PROVE  Lone(OrderAt(i).top)
  BY OneFrame DEF Lone, FieldsOf

\* A picture that shares a frame with another, or is in two frames, is not alone.
LEMMA NotLone ==
  ASSUME Covers(order), NEW i \in DOMAIN order, NEW s \in Sides,
         OrderAt(i).top # OrderAt(i).bottom \/ Shared(i)
  PROVE  ~Lone(OrderAt(i)[s])
<1>1. OrderAt(i)[s] \in FieldsOf(i)
  BY DEF FieldsOf, Sides
<1> QED
  BY <1>1 DEF Lone, FieldsOf

(***************************************************************************)
(* The six forms of a request over an order list                           *)
(***************************************************************************)
CopyIt(i) == \E c \in Caches : 
  /\ OrderAt(i).top = OrderAt(i).bottom /\ frame_cache_numbers[c] = OrderAt(i).top
  /\ Plan(i) = <<CopyFrame(c)>>
GetIt(i) ==
  /\ OrderAt(i).top = OrderAt(i).bottom /\ ~Shared(i)
  /\ Plan(i) = <<Get("frame", OrderAt(i).top)>>
GetAndCopyIt(i) == \E c \in Caches :
  /\ Shared(i) /\ OrderAt(i).top = OrderAt(i).bottom /\ Filed(OrderAt(i).top) = {}
  /\ Plan(i) = <<Get(c, OrderAt(i).top), CopyFrame(c)>>
GetBoth(i) == \E s \in Sides :
  /\ OrderAt(i).top # OrderAt(i).bottom
  /\ OrderAt(i)[s] < OrderAt(i)[Other(s)]
  /\ Filed(OrderAt(i)[s]) = {} /\ Filed(OrderAt(i)[Other(s)]) = {}
  /\ Plan(i) = <<Get("cache0", OrderAt(i)[s]), Get("cache1", OrderAt(i)[Other(s)]), Compare(s)>>
CopyBoth(i) == \E s \in Sides :
  /\ frame_cache_numbers["cache0"] = OrderAt(i)[s] /\ frame_cache_numbers["cache1"] = OrderAt(i)[Other(s)]
  /\ OrderAt(i).top # OrderAt(i).bottom
  /\ Plan(i) = <<CopyField("cache0", s), CopyField("cache1", Other(s))>>
GetOne(i) == \E s \in Sides, c, d \in Caches :
  /\ OrderAt(i).top # OrderAt(i).bottom /\ d = Victim
  /\ frame_cache_numbers[c] = OrderAt(i)[s] /\ Filed(OrderAt(i)[Other(s)]) = {}
  /\ Plan(i) = <<CopyField(c, s), Get(d, OrderAt(i)[Other(s)]), CopyField(d, Other(s))>>

\* Joining tuples, as TwoFields does.
LEMMA Joins ==
  ASSUME NEW x, NEW y, NEW z
  PROVE  /\ <<>> \o <<>> = <<>>
         /\ <<x>> \o <<>> = <<x>> /\ <<>> \o <<x>> = <<x>>
         /\ <<x>> \o <<y>> = <<x, y>>
         /\ <<x, y>> \o <<>> = <<x, y>>
         /\ <<x>> \o <<y, z>> = <<x, y, z>>
<1>1. <<>> \o <<>> = <<>>
  OBVIOUS
<1>2. <<x>> \o <<>> = <<x>> /\ <<>> \o <<x>> = <<x>>
  OBVIOUS
<1> DEFINE S == {x, y, z}
<1>3. <<x>> \o <<y>> = <<x, y>>
  <2>1. <<x>> \in Seq(S) /\ <<y>> \in Seq(S) /\ <<x, y>> \in Seq(S)
    OBVIOUS
  <2>2. Len(<<x>> \o <<y>>) = 2 /\ (<<x>> \o <<y>>)[1] = x /\ (<<x>> \o <<y>>)[2] = y
    OBVIOUS
  <2>3. <<x>> \o <<y>> \in Seq(S)
    BY <2>1
  <2> DEFINE t == <<x>> \o <<y>>  u == <<x, y>>
  <2>4. Len(t) = Len(u) /\ \A i \in 1..Len(t) : t[i] = u[i]
    BY <2>2
  <2>5. t \in Seq(S) /\ u \in Seq(S)
    BY <2>1, <2>3
  <2> HIDE DEF S, t, u
  <2>6. t = u
    BY <2>4, <2>5, SeqEqual
  <2> QED
    BY <2>6 DEF t, u
<1>4. <<x, y>> \o <<>> = <<x, y>>
  OBVIOUS
<1>5. <<x>> \o <<y, z>> = <<x, y, z>>
  <2> DEFINE t == <<x>> \o <<y, z>>
  <2>1. <<x>> \in Seq(S) /\ <<y, z>> \in Seq(S) /\ <<x, y, z>> \in Seq(S)
    OBVIOUS
  <2>2. Len(t) = 3 /\ t[1] = x /\ t[2] = y /\ t[3] = z
    OBVIOUS
  <2>3. t \in Seq(S)
    BY <2>1
  <2> DEFINE u == <<x, y, z>>
  <2>4. Len(t) = Len(u) /\ \A i \in 1..Len(t) : t[i] = u[i]
    BY <2>2
  <2> HIDE DEF S, t
  <2>5. u \in Seq(S)
    BY <2>1
  <2> HIDE DEF u
  <2>6. t = u
    BY <2>3, <2>4, <2>5, SeqEqual
  <2> QED
    BY <2>6 DEF t, u
<1> QED
  BY <1>1, <1>2, <1>3, <1>4, <1>5

\* What a cache can give to a frame of two different pictures.
LEMMA FromCacheForms ==
  ASSUME NEW i, NEW c \in Caches, OrderAt(i).top # OrderAt(i).bottom
  PROVE  /\ \A s \in Sides : frame_cache_numbers[c] = OrderAt(i)[s]
               => FromCache(i, c) = <<CopyField(c, s)>>
         /\ (\A s \in Sides : frame_cache_numbers[c] # OrderAt(i)[s]) => FromCache(i, c) = <<>>
<1>1. CASE frame_cache_numbers[c] = OrderAt(i).top
  <2>1. FromCache(i, c) = <<CopyField(c, "top")>> \o <<>>
    BY <1>1 DEF FromCache
  <2> QED
    BY <2>1, <1>1, Joins DEF Sides
<1>2. CASE frame_cache_numbers[c] = OrderAt(i).bottom
  <2>1. FromCache(i, c) = <<>> \o <<CopyField(c, "bottom")>>
    BY <1>2 DEF FromCache
  <2> QED
    BY <2>1, <1>2, Joins DEF Sides
<1>3. CASE frame_cache_numbers[c] # OrderAt(i).top /\ frame_cache_numbers[c] # OrderAt(i).bottom
  <2>1. FromCache(i, c) = <<>> \o <<>>
    BY <1>3 DEF FromCache
  <2> QED
    BY <2>1, <1>3, Joins DEF Sides
<1> QED
  BY <1>1, <1>2, <1>3

\* Plan takes one of the six forms.
LEMMA PlanForms ==
  ASSUME Covers(order), order # <<>>, CacheFresh, NEW i \in DOMAIN order
  PROVE  CopyIt(i) \/ GetIt(i) \/ GetAndCopyIt(i) \/ GetBoth(i) \/ CopyBoth(i) \/ GetOne(i)
<1> DEFINE t == OrderAt(i).top  b == OrderAt(i).bottom
<1>0. t \in 1..P /\ b \in 1..P /\ P \in Nat
  BY FieldsArePictures, VideoAssumption DEF Pictures
<1>1. Victim \in Caches
  BY DEF Victim, Caches
<1>2. CASE t = b
  <2>1. Plan(i) = WholeFrame(i)
    BY <1>2 DEF Plan
  <2>2. CASE Filed(t) # {}
    <3>1. PICK c \in Caches : frame_cache_numbers[c] = t /\ WholeFrame(i) = <<CopyFrame(c)>>
      BY <2>2 DEF WholeFrame, Filed
    <3> QED
      BY <3>1, <2>1, <1>2 DEF CopyIt
  <2>3. CASE Filed(t) = {} /\ ~Shared(i)
    BY <2>1, <2>3, <1>2 DEF WholeFrame, GetIt
  <2>4. CASE Filed(t) = {} /\ Shared(i)
    BY <2>1, <2>4, <1>1, <1>2 DEF WholeFrame, GetAndCopyIt
  <2> QED
    BY <2>2, <2>3, <2>4
<1>3. CASE t # b
  <2>1. Plan(i) = TwoFields(i)
    BY <1>3 DEF Plan
  <2> DEFINE n0 == frame_cache_numbers["cache0"]  n1 == frame_cache_numbers["cache1"]
             m == {s \in Sides : Filed(OrderAt(i)[s]) = {}}
  <2>2. \A p : Filed(p) = {} <=> n0 # p /\ n1 # p
    BY DEF Filed, Caches
  <2>3. n0 # n1 \/ n0 = 0
    BY DEF CacheFresh
  <2>4. m \in SUBSET Sides
    OBVIOUS
  <2>5. CASE m = Sides
    <3> DEFINE s == IF t < b THEN "top" ELSE "bottom"
    <3>1. s \in Sides
      BY DEF Sides
    <3>2. TwoFields(i) = <<Get("cache0", OrderAt(i)[s]), Get("cache1", OrderAt(i)[Other(s)]), Compare(s)>>
      BY <2>5 DEF TwoFields, Sides
    <3>3. Other(s) \in Sides /\ OrderAt(i)[s] < OrderAt(i)[Other(s)]
      BY <1>0, <1>3 DEF Other, Sides
    <3>4. Filed(OrderAt(i)[s]) = {} /\ Filed(OrderAt(i)[Other(s)]) = {}
      BY <2>5, <3>1, <3>3
    <3> QED
      BY <3>1, <3>2, <3>3, <3>4, <2>1, <1>3 DEF GetBoth
  <2>6. CASE m # Sides
    <3>1. TwoFields(i) = FromCache(i, "cache0") \o FromCache(i, "cache1") \o
                           IF m = {} THEN <<>>
                           ELSE LET s == CHOOSE x \in m : TRUE
                                IN  <<Get(Victim, OrderAt(i)[s]), CopyField(Victim, s)>>
      BY <2>6 DEF TwoFields, Sides
    <3>2. CASE m = {}
      <4>1. PICK s \in Sides : n0 = OrderAt(i)[s] /\ n1 = OrderAt(i)[Other(s)]
        BY <3>2, <2>2, <2>3, <1>0, <1>3 DEF Sides, Other
      <4>2. FromCache(i, "cache0") = <<CopyField("cache0", s)>>
        BY <4>1, <1>3, FromCacheForms DEF Caches
      <4>3. FromCache(i, "cache1") = <<CopyField("cache1", Other(s))>> /\ Other(s) \in Sides
        BY <4>1, <1>3, FromCacheForms DEF Caches, Sides, Other
      <4>4. TwoFields(i) = <<CopyField("cache0", s)>> \o <<CopyField("cache1", Other(s))>> \o <<>>
        BY <3>1, <3>2, <4>2, <4>3
      <4>5. TwoFields(i) = <<CopyField("cache0", s), CopyField("cache1", Other(s))>>
        BY <4>4, Joins
      <4> QED
        BY <4>1, <4>5, <2>1, <1>3 DEF CopyBoth
    <3>3. CASE m # {}
      <4>1. PICK s \in Sides : m = {Other(s)} /\ s \notin m
        BY <3>3, <2>4, <2>6 DEF Sides, Other
      <4>2. Filed(OrderAt(i)[s]) # {} /\ Filed(OrderAt(i)[Other(s)]) = {}
        BY <4>1
      <4>3. PICK c \in Caches : frame_cache_numbers[c] = OrderAt(i)[s]
        BY <4>2 DEF Filed
      <4>4. FromCache(i, c) = <<CopyField(c, s)>>
        BY <4>3, <1>3, FromCacheForms
      <4>5. \A d \in Caches : d # c => FromCache(i, d) = <<>>
        <5> SUFFICES ASSUME NEW d \in Caches, d # c PROVE FromCache(i, d) = <<>>
          OBVIOUS
        <5>1. OrderAt(i)[s] # 0
          BY <1>0 DEF Sides
        <5>2. frame_cache_numbers[d] # OrderAt(i)[s]
          BY <5>1, <4>3, <2>3 DEF Caches
        <5>3. frame_cache_numbers[d] # OrderAt(i)[Other(s)]
          BY <4>2 DEF Filed
        <5>4. \A r \in Sides : r = s \/ r = Other(s)
          BY DEF Sides, Other
        <5> QED
          BY <5>2, <5>3, <5>4, <1>3, FromCacheForms
      <4>6. FromCache(i, "cache0") \o FromCache(i, "cache1") = <<CopyField(c, s)>>
        BY <4>4, <4>5, Joins DEF Caches
      <4>7. TwoFields(i) = <<CopyField(c, s)>> \o
              <<Get(Victim, OrderAt(i)[Other(s)]), CopyField(Victim, Other(s))>>
        BY <3>1, <3>3, <4>1, <4>6
      <4>8. TwoFields(i) = <<CopyField(c, s), Get(Victim, OrderAt(i)[Other(s)]), CopyField(Victim, Other(s))>>
        BY <4>7, Joins
      <4> QED
        BY <4>2, <4>3, <4>8, <2>1, <1>1, <1>3 DEF GetOne
    <3> QED
      BY <3>2, <3>3
  <2> QED
    BY <2>5, <2>6
<1> QED
  BY <1>2, <1>3

(***************************************************************************)
(* The beginning                                                           *)
(***************************************************************************)
\* The frames, and the decoder, which is none.
LEMMA NoDecoder ==
  /\ "decoder" \notin Owners /\ "frame" \in Owners /\ "valid" \in Owners
  /\ "frame" \notin Caches /\ "valid" \notin Buffers
  /\ Caches \subseteq Buffers /\ Buffers \subseteq Owners
  BY DEF Owners, Buffers, Caches

\* The invariant holds before the first request.
LEMMA InitSound == Init => IInv
<1> SUFFICES ASSUME Init PROVE IInv
  OBVIOUS
<1>1. P \in Nat /\ P >= 2 /\ P + 1 \notin Pictures
  BY VideoAssumption DEF Pictures
<1>2. TypeOK
  <2>1. order # <<>> => Covers(order)
    BY VideoAssumption DEF Init
  <2>2. first_valid \in Pictures /\ last_frame_number \in 1..P + 1
    BY <1>1 DEF Init, Pictures
  <2>3. /\ content \in [Owners -> [top : 0..P, bottom : 0..P]]
        /\ sharers \in [Owners -> SUBSET (Owners \cup {"decoder"})]
    BY <1>1 DEF Init, Whole, Pictures
  <2>4. frame_cache_numbers \in [Caches -> 0..P]
    BY <1>1 DEF Init
  <2>5. todo \in Seq(Steps) /\ Len(todo) <= 3
    BY DEF Init
  <2> QED
    BY <2>1, <2>2, <2>3, <2>4, <2>5 DEF Init, TypeOK
<1>3. CacheFresh
  BY DEF Init, CacheFresh, Caches, Owners, FirstFrame
<1>4. LastSound
  BY <1>1 DEF Init, LastSound
<1>5. TodoSound /\ CopySound
  BY DEF Init, TodoSound, CopySound
<1>6. SharersSound
  BY NoDecoder DEF Init, SharersSound
<1> QED
  BY <1>2, <1>3, <1>4, <1>5, <1>6 DEF IInv

(***************************************************************************)
(* A request                                                               *)
(***************************************************************************)
\* What depends on the order list alone does not change.
LEMMA ListsStay ==
  ASSUME UNCHANGED lists
  PROVE  /\ \A p : Lone(p)' <=> Lone(p)
         /\ \A p : Shown(p)' = Shown(p)
         /\ \A i : OrderAt(i)' = OrderAt(i)
  BY DEF lists, Lone, FieldsOf, Shared, OrderAt, Shown

\* The steps of a request and their types.
LEMMA StepTypes ==
  /\ \A b \in Buffers, p \in Pictures : Get(b, p) \in Steps
  /\ \A c \in Caches, s \in {"both"} \cup Sides : CopyField(c, s) \in Steps
  /\ \A s \in Sides : Compare(s) \in Steps
  /\ \A c : CopyFrame(c) = CopyField(c, "both")
<1>1. Pictures \subseteq 0..P /\ 0 \in 0..P
  BY VideoAssumption DEF Pictures
<1> QED
  BY <1>1 DEF Get, CopyField, CopyFrame, Compare, Steps, Buffers, Caches

\* A request that fetches nothing, or one picture for the output buffer, is sound.
LEMMA RequestWithoutCaches ==
  ASSUME IInv, NEW i \in Frames, Request(i), UNCHANGED lists, direct',
         \/ todo' = <<>>
         \/ \E p \in Pictures : todo' = <<Get("frame", p)>> /\ Lone(p)
  PROVE  TodoSound' /\ CopySound' /\ (todo \in Seq(Steps) /\ Len(todo) <= 3)'
<1>1. CopySound'
  BY DEF CopySound
<1>2. CASE todo' = <<>>
  BY <1>1, <1>2 DEF TodoSound
<1>3. ASSUME NEW p \in Pictures, todo' = <<Get("frame", p)>>, Lone(p)
      PROVE  TodoSound' /\ (todo \in Seq(Steps) /\ Len(todo) <= 3)'
  <2>1. Lone(p)' /\ "frame" \in Buffers /\ Get("frame", p) \in Steps
    BY <1>3, ListsStay, StepTypes DEF Buffers
  <2>2. GetSound("frame", p)'
    BY <2>1 DEF GetSound
  <2>3. DOMAIN todo' = {1} /\ todo'[1] = Get("frame", p)
    BY <1>3
  <2>4. todo' \in Seq(Steps) /\ Len(todo') <= 3
    BY <1>3, <2>1
  <2> QED
    BY <2>1, <2>2, <2>3, <2>4 DEF TodoSound
<1> QED
  BY <1>1, <1>2, <1>3

\* The names of the two fields.
LEMMA OtherSide == \A s \in Sides : Other(s) \in Sides /\ Other(s) # s /\ Sides = {s, Other(s)}
  BY DEF Other, Sides

\* A side is one of the ways to copy, and not the whole frame.
LEMMA FieldSides == \A r \in Sides : r \in {"both"} \cup Sides /\ r # "both"
  BY DEF Sides

\* A picture of a frame that is not alone may go to a cache that does not have it.
LEMMA CacheGetSound ==
  ASSUME Covers(order), NEW i \in DOMAIN order, NEW s \in Sides, NEW c \in Caches,
         OrderAt(i).top # OrderAt(i).bottom \/ Shared(i),
         NEW p, p = OrderAt(i)[s], Filed(p) = {}, UNCHANGED <<lists, server>>
  PROVE  GetSound(c, p)' /\ p \in Pictures
<1>1. ~Lone(p)' /\ p \in Pictures
  BY NotLone, ListsStay, FieldsArePictures
<1>2. c # "frame"
  BY DEF Caches
<1> QED
  BY <1>1, <1>2, ListsStay DEF GetSound, Filed, server

\* What a copy copies, and that a fetch copies nothing.
LEMMA CopyParts ==
  /\ \A c, s, side : /\ CopiesFrom(CopyField(c, s), side) = c
                     /\ CopiesTo(CopyField(c, s), side) <=> s \in {"both", side}
  /\ \A b, p, side : ~CopiesTo(Get(b, p), side) /\ CopiesFrom(Get(b, p), side) = b
  /\ \A s, side : CopiesTo(Compare(s), side)
  /\ \A s \in Sides : CopiesFrom(Compare(s), s) = "cache0" /\ CopiesFrom(Compare(s), Other(s)) = "cache1"
  BY DEF CopiesFrom, CopiesTo, CopyField, Get, Compare, Other, Sides

\* A cache filed under a picture stands for it, before and after a request is made.
LEMMA FiledStands ==
  ASSUME Covers(order), NEW i \in DOMAIN order, NEW s \in Sides, NEW c,
         frame_cache_numbers[c] = OrderAt(i)[s], UNCHANGED <<lists, server>>, n' = i
  PROVE  Stands(c, OrderAt(n)[s])'
<1>1. OrderAt(i)[s] \in Pictures /\ 0 \notin Pictures
  BY FieldsArePictures DEF Pictures
<1>2. OrderAt(n)' = OrderAt(i) /\ frame_cache_numbers' = frame_cache_numbers
  BY ListsStay DEF server
<1> QED
  BY <1>1, <1>2 DEF Stands

\* What is true of the steps of a request that goes through the caches.
CacheRequest(i) ==
  /\ todo' \in Seq(Steps) /\ Len(todo') <= 3
  /\ \A k \in DOMAIN todo' :
       \/ \E c \in Caches, p \in Pictures : todo'[k] = Get(c, p) /\ GetSound(c, p)'
       \/ \E c \in Caches, s \in {"both"} \cup Sides :
            todo'[k] = CopyField(c, s) /\ (s = "both" => k = Len(todo'))
       \/ \E s \in Sides : todo'[k] = Compare(s) /\ k = Len(todo')
  /\ \A j, k \in DOMAIN todo' : j # k /\ IsGet(todo'[j]) /\ IsGet(todo'[k]) =>
       todo'[j].picture # todo'[k].picture /\ todo'[j].buffer # todo'[k].buffer
  /\ \A side \in Sides :
       /\ \A k \in DOMAIN todo' : CopiesTo(todo'[k], side) => Fetched(k, side)'
       /\ \E k \in DOMAIN todo' : CopiesTo(todo'[k], side)

\* A cached frame is copied: the request is sound.
LEMMA CopyItSound ==
  ASSUME IInv, NEW i \in DOMAIN order, order # <<>>, Request(i), CopyIt(i)
  PROVE  CacheRequest(i)
<1>1. PICK c \in Caches : /\ OrderAt(i).top = OrderAt(i).bottom
                          /\ frame_cache_numbers[c] = OrderAt(i).top
                          /\ Plan(i) = <<CopyFrame(c)>>
  BY DEF CopyIt
<1>2. todo' = <<CopyField(c, "both")>> /\ n' = i /\ UNCHANGED <<lists, server>>
  BY <1>1, StepTypes DEF Request
<1>3. OrderAt(n)' = OrderAt(i) /\ frame_cache_numbers' = frame_cache_numbers
  BY <1>2, ListsStay DEF server
<1>4. DOMAIN todo' = {1} /\ Len(todo') = 1 /\ todo'[1] = CopyField(c, "both") /\ ~IsGet(todo'[1])
  BY <1>2 DEF IsGet, CopyField
<1>5. todo' \in Seq(Steps) /\ Len(todo') <= 3
  BY <1>2, StepTypes
<1>6. ASSUME NEW side \in Sides PROVE CopiesTo(todo'[1], side) /\ Fetched(1, side)'
  <2>1. Covers(order) /\ frame_cache_numbers[c] = OrderAt(i)[side]
    BY <1>1 DEF IInv, TypeOK, Sides
  <2>2. Stands(c, OrderAt(n)[side])'
    BY <1>2, <2>1, FiledStands
  <2> QED
    BY <2>2, <1>4, CopyParts DEF Fetched
<1> QED
  BY <1>4, <1>5, <1>6 DEF CacheRequest

\* A frame is fetched into a cache and copied: the request is sound.
LEMMA GetAndCopyItSound ==
  ASSUME IInv, NEW i \in DOMAIN order, order # <<>>, Request(i), GetAndCopyIt(i)
  PROVE  CacheRequest(i)
<1>1. PICK c \in Caches :
        /\ Shared(i) /\ OrderAt(i).top = OrderAt(i).bottom /\ Filed(OrderAt(i).top) = {}
        /\ Plan(i) = <<Get(c, OrderAt(i).top), CopyFrame(c)>>
  BY DEF GetAndCopyIt
<1>a. PICK p : p = OrderAt(i).top
  OBVIOUS
<1>2. todo' = <<Get(c, p), CopyField(c, "both")>> /\ n' = i /\ UNCHANGED <<lists, server>>
  BY <1>1, <1>a, StepTypes DEF Request
<1>3. OrderAt(n)' = OrderAt(i)
  BY <1>2, ListsStay
<1>4. /\ DOMAIN todo' = {1, 2} /\ Len(todo') = 2 /\ todo'[1] = Get(c, p) /\ todo'[2] = CopyField(c, "both")
      /\ IsGet(todo'[1]) /\ ~IsGet(todo'[2])
  BY <1>2 DEF IsGet, CopyField, Get
<1>5. GetSound(c, p)' /\ p \in Pictures
  <2>1. "top" \in Sides /\ p = OrderAt(i)["top"] /\ Filed(p) = {} /\ Covers(order)
    BY <1>1, <1>a DEF IInv, TypeOK, Sides
  <2> QED
    BY <1>1, <1>2, <2>1, CacheGetSound
<1>6. todo' \in Seq(Steps) /\ Len(todo') <= 3
  <2>1. Get(c, p) \in Steps /\ CopyField(c, "both") \in Steps
    BY <1>5, StepTypes DEF Buffers
  <2> QED
    BY <2>1, <1>2
<1>7. ASSUME NEW side \in Sides
      PROVE  ~CopiesTo(todo'[1], side) /\ CopiesTo(todo'[2], side) /\ Fetched(2, side)'
  <2>1. ~CopiesTo(todo'[1], side) /\ CopiesTo(todo'[2], side) /\ CopiesFrom(todo'[2], side) = c
    BY <1>4, CopyParts
  <2>2. OrderAt(n)'[side] = p
    BY <1>1, <1>3, <1>a DEF Sides
  <2>3. {j \in DOMAIN todo' : j < 2 /\ IsGet(todo'[j]) /\ todo'[j].buffer = c} = {1}
    BY <1>4 DEF Get
  <2>4. todo'[1].picture = p
    BY <1>4 DEF Get
  <2> QED
    BY <2>1, <2>2, <2>3, <2>4 DEF Fetched
<1>8. ASSUME NEW k \in DOMAIN todo'
      PROVE  \/ \E d \in Caches, q \in Pictures : todo'[k] = Get(d, q) /\ GetSound(d, q)'
             \/ \E d \in Caches, s \in {"both"} \cup Sides :
                  todo'[k] = CopyField(d, s) /\ (s = "both" => k = Len(todo'))
  <2>1. CASE k = 1
    BY <2>1, <1>4, <1>5
  <2>2. CASE k = 2
    BY <2>2, <1>4, <1>5
  <2> QED
    BY <2>1, <2>2, <1>4
<1>9. ASSUME NEW j \in DOMAIN todo', NEW k \in DOMAIN todo', j # k PROVE ~IsGet(todo'[j]) \/ ~IsGet(todo'[k])
  <2>1. CASE j = 2
    BY <2>1, <1>4
  <2>2. CASE k = 2
    BY <2>2, <1>4
  <2> QED
    BY <2>1, <2>2, <1>4, <1>9
<1>10. ASSUME NEW side \in Sides
       PROVE  /\ \A k \in DOMAIN todo' : CopiesTo(todo'[k], side) => Fetched(k, side)'
              /\ \E k \in DOMAIN todo' : CopiesTo(todo'[k], side)
  BY <1>4, <1>7
<1> QED
  BY <1>6, <1>8, <1>9, <1>10 DEF CacheRequest

\* Both fields are in the caches: the request is sound.
LEMMA CopyBothSound ==
  ASSUME IInv, NEW i \in DOMAIN order, order # <<>>, Request(i), CopyBoth(i)
  PROVE  CacheRequest(i)
<1>1. PICK s \in Sides :
        /\ frame_cache_numbers["cache0"] = OrderAt(i)[s]
        /\ frame_cache_numbers["cache1"] = OrderAt(i)[Other(s)]
        /\ Plan(i) = <<CopyField("cache0", s), CopyField("cache1", Other(s))>>
  BY DEF CopyBoth
<1>2. /\ todo' = <<CopyField("cache0", s), CopyField("cache1", Other(s))>>
      /\ n' = i /\ UNCHANGED <<lists, server>>
  BY <1>1 DEF Request
<1>3. OrderAt(n)' = OrderAt(i) /\ frame_cache_numbers' = frame_cache_numbers
  BY <1>2, ListsStay DEF server
<1>4. /\ DOMAIN todo' = {1, 2}
      /\ todo'[1] = CopyField("cache0", s) /\ todo'[2] = CopyField("cache1", Other(s))
      /\ ~IsGet(todo'[1]) /\ ~IsGet(todo'[2])
  BY <1>2 DEF IsGet, CopyField
<1>5. /\ Other(s) \in {"both"} \cup Sides /\ s \in {"both"} \cup Sides
      /\ Other(s) \in Sides
  BY OtherSide DEF Sides
<1>6. todo' \in Seq(Steps) /\ Len(todo') <= 3
  <2>1. CopyField("cache0", s) \in Steps /\ CopyField("cache1", Other(s)) \in Steps
    BY <1>5, StepTypes DEF Caches
  <2> QED
    BY <2>1, <1>2
<1>7. ASSUME NEW k \in DOMAIN todo'
      PROVE  ~IsGet(todo'[k]) /\ \E c \in Caches, r \in Sides : todo'[k] = CopyField(c, r)
  <2>1. CASE k = 1
    BY <2>1, <1>4, <1>5 DEF Caches
  <2>2. CASE k = 2
    BY <2>2, <1>4, <1>5 DEF Caches
  <2> QED
    BY <2>1, <2>2, <1>4
<1>8. ASSUME NEW side \in Sides
      PROVE  /\ \A k \in DOMAIN todo' : CopiesTo(todo'[k], side) => Fetched(k, side)'
             /\ \E k \in DOMAIN todo' : CopiesTo(todo'[k], side)
  <2>0. Covers(order)
    BY DEF IInv, TypeOK
  <2>1. CopiesTo(todo'[1], side) <=> side = s
    BY <1>4, CopyParts DEF Sides
  <2>2. CopiesTo(todo'[2], side) <=> side = Other(s)
    BY <1>4, OtherSide, CopyParts DEF Sides
  <2>3. CopiesFrom(todo'[1], side) = "cache0" /\ CopiesFrom(todo'[2], side) = "cache1"
    BY <1>4, CopyParts
  <2>4. side = s => Fetched(1, side)'
    <3>1. side = s => Stands("cache0", OrderAt(n)[side])'
      BY <2>0, <1>1, <1>2, FiledStands
    <3> QED
      BY <3>1, <2>3, <1>7 DEF Fetched
  <2>5. side = Other(s) => Fetched(2, side)'
    <3>1. side = Other(s) => Stands("cache1", OrderAt(n)[side])'
      BY <2>0, <1>1, <1>2, FiledStands
    <3> QED
      BY <3>1, <2>3, <1>7 DEF Fetched
  <2>6. side = s \/ side = Other(s)
    BY OtherSide
  <2> QED
    BY <2>1, <2>2, <2>4, <2>5, <2>6, <1>4
<1> QED
  BY <1>6, <1>7, <1>8, FieldSides DEF CacheRequest

\* One field is in a cache, the other is fetched over the older one: the request is sound.
LEMMA GetOneSound ==
  ASSUME IInv, NEW i \in DOMAIN order, order # <<>>, Request(i), GetOne(i)
  PROVE  CacheRequest(i)
<1>1. PICK s \in Sides, c \in Caches, d \in Caches :
        /\ OrderAt(i).top # OrderAt(i).bottom
        /\ frame_cache_numbers[c] = OrderAt(i)[s] /\ Filed(OrderAt(i)[Other(s)]) = {}
        /\ Plan(i) = <<CopyField(c, s), Get(d, OrderAt(i)[Other(s)]), CopyField(d, Other(s))>>
  BY DEF GetOne
<1>a. PICK o : o = Other(s)
  OBVIOUS
<1>b. PICK q : q = OrderAt(i)[o]
  OBVIOUS
<1>2. /\ todo' = <<CopyField(c, s), Get(d, q), CopyField(d, o)>>
      /\ n' = i /\ UNCHANGED <<lists, server>>
  BY <1>1, <1>a, <1>b DEF Request
<1>3. OrderAt(n)' = OrderAt(i) /\ frame_cache_numbers' = frame_cache_numbers
  BY <1>2, ListsStay DEF server
<1>4. /\ DOMAIN todo' = {1, 2, 3}
      /\ todo'[1] = CopyField(c, s) /\ todo'[2] = Get(d, q) /\ todo'[3] = CopyField(d, o)
      /\ ~IsGet(todo'[1]) /\ IsGet(todo'[2]) /\ ~IsGet(todo'[3])
  BY <1>2 DEF IsGet, CopyField, Get
<1>5. o \in {"both"} \cup Sides /\ s \in {"both"} \cup Sides /\ o \in Sides /\ o # s
  BY <1>a, OtherSide DEF Sides
<1>6. GetSound(d, q)' /\ q \in Pictures
  <2>1. Filed(q) = {} /\ Covers(order)
    BY <1>1, <1>a, <1>b DEF IInv, TypeOK
  <2> QED
    BY <1>1, <1>2, <1>5, <1>b, <2>1, CacheGetSound
<1>7. todo' \in Seq(Steps) /\ Len(todo') <= 3
  <2>1. CopyField(c, s) \in Steps /\ Get(d, q) \in Steps /\ CopyField(d, o) \in Steps
    BY <1>5, <1>6, StepTypes DEF Buffers
  <2> QED
    BY <2>1, <1>2
<1>8. ASSUME NEW k \in DOMAIN todo'
      PROVE  /\ \/ \E e \in Caches, p \in Pictures : todo'[k] = Get(e, p) /\ GetSound(e, p)'
                \/ \E e \in Caches, r \in Sides : todo'[k] = CopyField(e, r)
             /\ IsGet(todo'[k]) => k = 2
  <2>1. CASE k = 1
    BY <2>1, <1>4, <1>5
  <2>2. CASE k = 2
    BY <2>2, <1>4, <1>6
  <2>3. CASE k = 3
    BY <2>3, <1>4, <1>5
  <2> QED
    BY <2>1, <2>2, <2>3, <1>4
<1>9. ASSUME NEW side \in Sides
      PROVE  /\ \A k \in DOMAIN todo' : CopiesTo(todo'[k], side) => Fetched(k, side)'
             /\ \E k \in DOMAIN todo' : CopiesTo(todo'[k], side)
  <2>1. CopiesTo(todo'[1], side) <=> side = s
    BY <1>4, CopyParts DEF Sides
  <2>2. ~CopiesTo(todo'[2], side)
    BY <1>4, CopyParts
  <2>3. CopiesTo(todo'[3], side) <=> side = o
    BY <1>4, <1>5, CopyParts DEF Sides
  <2>4. /\ CopiesFrom(todo'[1], side) = c /\ todo'[2].buffer = d /\ CopiesFrom(todo'[3], side) = d
        /\ todo'[2].picture = q
    BY <1>4, CopyParts DEF Get
  <2>5. side = s => Fetched(1, side)'
    <3>1. Covers(order)
      BY DEF IInv, TypeOK
    <3>2. side = s => Stands(c, OrderAt(n)[side])'
      BY <3>1, <1>1, <1>2, FiledStands
    <3> QED
      BY <3>2, <2>4, <1>8 DEF Fetched
  <2>6. side = o => Fetched(3, side)'
    <3>1. {j \in DOMAIN todo' : j < 3 /\ IsGet(todo'[j]) /\ todo'[j].buffer = d} = {2}
      BY <2>4, <1>4, <1>8
    <3> QED
      BY <3>1, <2>4, <1>3, <1>b DEF Fetched
  <2>7. side = s \/ side = o
    BY <1>a, OtherSide
  <2> QED
    BY <2>1, <2>2, <2>3, <2>5, <2>6, <2>7, <1>4
<1>10. ASSUME NEW j \in DOMAIN todo', NEW k \in DOMAIN todo', j # k
       PROVE  ~(IsGet(todo'[j]) /\ IsGet(todo'[k]))
  BY <1>8, <1>10
<1> QED
  BY <1>7, <1>8, <1>9, <1>10, FieldSides DEF CacheRequest

\* Both fields are fetched: the request is sound.
LEMMA GetBothSound ==
  ASSUME IInv, NEW i \in DOMAIN order, order # <<>>, Request(i), GetBoth(i)
  PROVE  CacheRequest(i)
<1>1. PICK s \in Sides :
        /\ OrderAt(i).top # OrderAt(i).bottom
        /\ Filed(OrderAt(i)[s]) = {} /\ Filed(OrderAt(i)[Other(s)]) = {}
        /\ Plan(i) = <<Get("cache0", OrderAt(i)[s]), Get("cache1", OrderAt(i)[Other(s)]), Compare(s)>>
  BY DEF GetBoth
<1>a. PICK o : o = Other(s)
  OBVIOUS
<1>b. PICK p : p = OrderAt(i)[s]
  OBVIOUS
<1>c. PICK q : q = OrderAt(i)[o]
  OBVIOUS
<1>2. /\ todo' = <<Get("cache0", p), Get("cache1", q), Compare(s)>>
      /\ n' = i /\ UNCHANGED <<lists, server>>
  BY <1>1, <1>a, <1>b, <1>c DEF Request
<1>3. OrderAt(n)' = OrderAt(i)
  BY <1>2, ListsStay
<1>4. /\ DOMAIN todo' = {1, 2, 3} /\ Len(todo') = 3
      /\ todo'[1] = Get("cache0", p) /\ todo'[2] = Get("cache1", q) /\ todo'[3] = Compare(s)
      /\ IsGet(todo'[1]) /\ IsGet(todo'[2]) /\ ~IsGet(todo'[3])
  BY <1>2 DEF IsGet, Compare, Get
<1>5. o \in Sides /\ o # s
  BY <1>a, OtherSide DEF Sides
<1>6. /\ GetSound("cache0", p)' /\ p \in Pictures
      /\ GetSound("cache1", q)' /\ q \in Pictures
  <2>1. Filed(p) = {} /\ Filed(q) = {} /\ Covers(order) /\ "cache0" \in Caches /\ "cache1" \in Caches
    BY <1>1, <1>a, <1>b, <1>c DEF IInv, TypeOK, Caches
  <2>2. GetSound("cache0", p)' /\ p \in Pictures
    BY <1>1, <1>2, <1>b, <2>1, CacheGetSound
  <2>3. GetSound("cache1", q)' /\ q \in Pictures
    BY <1>1, <1>2, <1>5, <1>c, <2>1, CacheGetSound
  <2> QED
    BY <2>2, <2>3
<1>7. p # q
  BY <1>1, <1>5, <1>b, <1>c DEF Sides
<1>8. todo' \in Seq(Steps) /\ Len(todo') <= 3
  <2>1. /\ Get("cache0", p) \in Steps /\ Get("cache1", q) \in Steps
        /\ Compare(s) \in Steps
    BY <1>5, <1>6, StepTypes DEF Buffers, Caches
  <2> QED
    BY <2>1, <1>2
<1>9. ASSUME NEW k \in DOMAIN todo'
      PROVE  /\ \/ \E e \in Caches, r \in Pictures : todo'[k] = Get(e, r) /\ GetSound(e, r)'
                \/ k = Len(todo') /\ todo'[k] = Compare(s)
             /\ IsGet(todo'[k]) => k \in {1, 2}
  <2>0. "cache0" \in Caches /\ "cache1" \in Caches
    BY DEF Caches
  <2>1. CASE k = 1
    BY <2>0, <2>1, <1>4, <1>6
  <2>2. CASE k = 2
    BY <2>0, <2>2, <1>4, <1>6
  <2>3. CASE k = 3
    BY <2>3, <1>4
  <2> QED
    BY <2>1, <2>2, <2>3, <1>4
<1>10. /\ todo'[1].picture = p /\ todo'[2].picture = q
       /\ todo'[1].buffer = "cache0" /\ todo'[2].buffer = "cache1"
       /\ CopiesFrom(todo'[3], s) = "cache0" /\ CopiesFrom(todo'[3], o) = "cache1"
  BY <1>4, <1>a, CopyParts DEF Get
<1>11. ASSUME NEW j \in DOMAIN todo', NEW k \in DOMAIN todo', j # k, IsGet(todo'[j]), IsGet(todo'[k])
       PROVE  todo'[j].picture # todo'[k].picture /\ todo'[j].buffer # todo'[k].buffer
  <2>1. j \in {1, 2} /\ k \in {1, 2}
    BY <1>9, <1>11
  <2>2. (j = 1 /\ k = 2) \/ (j = 2 /\ k = 1)
    BY <2>1, <1>11
  <2> QED
    BY <2>2, <1>7, <1>10
<1>12. ASSUME NEW side \in Sides
       PROVE  /\ \A k \in DOMAIN todo' : CopiesTo(todo'[k], side) => Fetched(k, side)'
              /\ \E k \in DOMAIN todo' : CopiesTo(todo'[k], side)
  <2>1. ~CopiesTo(todo'[1], side) /\ ~CopiesTo(todo'[2], side) /\ CopiesTo(todo'[3], side)
    BY <1>4, CopyParts
  <2>2. CASE side = s
    <3>1. {j \in DOMAIN todo' : j < 3 /\ IsGet(todo'[j]) /\ todo'[j].buffer = "cache0"} = {1}
      BY <1>4, <1>9, <1>10
    <3>2. Fetched(3, side)'
      BY <3>1, <2>2, <1>10, <1>3, <1>b DEF Fetched
    <3> QED
      BY <3>2, <2>1, <1>4
  <2>3. CASE side = o
    <3>1. {j \in DOMAIN todo' : j < 3 /\ IsGet(todo'[j]) /\ todo'[j].buffer = "cache1"} = {2}
      BY <1>4, <1>9, <1>10
    <3>2. Fetched(3, side)'
      BY <3>1, <2>3, <1>10, <1>3, <1>c DEF Fetched
    <3> QED
      BY <3>2, <2>1, <1>4
  <2> QED
    BY <2>2, <2>3, <1>a, OtherSide
<1> QED
  BY <1>8, <1>9, <1>11, <1>12 DEF CacheRequest

\* A request keeps the invariant.
LEMMA RequestSound ==
  ASSUME IInv, NEW i \in Frames, Request(i)
  PROVE  IInv'
<1>1. UNCHANGED <<lists, server>> /\ n' = i /\ todo' = Plan(i)
  BY DEF Request
<1>2. /\ todo' \in Seq(Steps) /\ Len(todo') <= 3
      /\ TodoSound' /\ CopySound'
  <2>1. CASE order = <<>>
    <3>a. direct' /\ i \in Pictures
      BY <2>1 DEF Request, Frames
    <3>b. DOMAIN order = {}
      BY <2>1
    <3>1. direct' /\ i \in Pictures /\ Lone(i)
      BY <3>a, <3>b DEF Lone
    <3>2. todo' = <<>> \/ todo' = <<Get("frame", i)>>
      BY <2>1, <1>1 DEF Plan
    <3> QED
      BY <3>1, <3>2, <1>1, RequestWithoutCaches
  <2>2. CASE order # <<>>
    <3>0. i \in DOMAIN order /\ Covers(order) /\ CacheFresh
      BY <2>2 DEF Frames, IInv, TypeOK
    <3>1. CASE GetIt(i)
      <4>1. PICK p : p = OrderAt(i).top
        OBVIOUS
      <4>2. todo' = <<Get("frame", p)>> /\ direct'
        BY <1>1, <3>1, <4>1 DEF GetIt, Request
      <4>3. Lone(p) /\ p \in Pictures
        BY <3>0, <3>1, <4>1, LoneFrame, FieldsArePictures DEF GetIt
      <4> QED
        BY <4>2, <4>3, <1>1, RequestWithoutCaches
    <3>2. CASE CacheRequest(i)
      <4>1. TodoSound'
        BY <3>2, NoDecoder DEF CacheRequest, TodoSound
      <4>2. CopySound'
        BY <3>2, <2>2, <1>1 DEF CacheRequest, CopySound, Sides, lists
      <4> QED
        BY <4>1, <4>2, <3>2 DEF CacheRequest
    <3>3. GetIt(i) \/ CacheRequest(i)
      BY <2>2, <3>0, PlanForms, CopyItSound, GetAndCopyItSound, GetBothSound, CopyBothSound, GetOneSound
    <3> QED
      BY <3>1, <3>2, <3>3
  <2> QED
    BY <2>1, <2>2
<1>3. TypeOK'
  <2>1. n' \in {0} \cup Frames' /\ (order # <<>> => Covers(order))'
    BY <1>1 DEF Frames, lists, IInv, TypeOK
  <2>2. forward' \in BOOLEAN /\ direct' \in BOOLEAN
    BY DEF Request
  <2> QED
    BY <1>1, <1>2, <2>1, <2>2 DEF IInv, TypeOK, lists, server
<1>4. CacheFresh'
  BY <1>1 DEF IInv, CacheFresh, lists, server, Shown
<1>5. LastSound'
  BY <1>1, ListsStay DEF IInv, LastSound, server
<1>6. SharersSound'
  BY <1>1 DEF IInv, SharersSound, server
<1> QED
  BY <1>2, <1>3, <1>4, <1>5, <1>6 DEF IInv

(***************************************************************************)
(* The steps of a request                                                  *)
(***************************************************************************)
\* The first step is done, and the others move up.
LEMMA TailSteps ==
  ASSUME todo \in Seq(Steps), todo # <<>>, todo' = Tail(todo)
  PROVE  /\ 1 \in DOMAIN todo /\ Head(todo) = todo[1] /\ todo[1] \in Steps
         /\ todo' \in Seq(Steps) /\ Len(todo') = Len(todo) - 1 /\ Len(todo) \in Nat
         /\ DOMAIN todo = 1..Len(todo) /\ DOMAIN todo' = 1..Len(todo) - 1
         /\ \A k \in DOMAIN todo' : k \in Int /\ k + 1 \in DOMAIN todo /\ k + 1 # 1 /\ todo'[k] = todo[k + 1]
         /\ \A k \in DOMAIN todo : k # 1 => k - 1 \in DOMAIN todo' /\ todo'[k - 1] = todo[k]
<1> HIDE DEF Steps
<1>1. /\ Head(todo) = todo[1] /\ Tail(todo) \in Seq(Steps)
      /\ Len(Tail(todo)) = Len(todo) - 1 /\ Len(todo) \in Nat \ {0}
      /\ \A k \in 1..Len(todo) - 1 : Tail(todo)[k] = todo[k + 1]
  OBVIOUS
<1>2. DOMAIN todo = 1..Len(todo) /\ DOMAIN Tail(todo) = 1..Len(todo) - 1
  BY <1>1
<1>3. \A k \in 1..Len(todo) - 1 : k \in Int /\ k + 1 \in 1..Len(todo) /\ k + 1 # 1
  BY <1>1
<1>4. \A k \in 1..Len(todo) : k # 1 => k - 1 \in 1..Len(todo) - 1 /\ (k - 1) + 1 = k
  BY <1>1
<1>5. \A k \in 1..Len(todo) : k # 1 => Tail(todo)[k - 1] = todo[k]
  BY <1>1, <1>4
<1>6. 1 \in DOMAIN todo /\ todo[1] \in Steps
  BY <1>1, <1>2
<1> QED
  BY <1>1, <1>2, <1>3, <1>4, <1>5, <1>6

\* Get, CopyField and Compare tell their arguments.
LEMMA StepParts ==
  /\ \A b, p : /\ Get(b, p).op = "get" /\ Get(b, p).buffer = b
               /\ Get(b, p).picture = p /\ Get(b, p).side = "both"
  /\ \A c, s : /\ CopyField(c, s).op = "copy" /\ CopyField(c, s).buffer = c
               /\ CopyField(c, s).picture = 0 /\ CopyField(c, s).side = s
  /\ \A s : Compare(s).op = "compare" /\ Compare(s).side = s
  BY DEF Get, CopyField, Compare

\* The steps fetch pictures, copy from caches and compare the caches.
LEMMA TodoParts ==
  ASSUME TodoSound, NEW k \in DOMAIN todo
  PROVE  /\ todo[k].op \in {"get", "copy", "compare"}
         /\ todo[k].op = "get" => /\ GetSound(todo[k].buffer, todo[k].picture)
                                  /\ todo[k].buffer \in Buffers /\ todo[k].picture \in Pictures
                                  /\ todo[k] = Get(todo[k].buffer, todo[k].picture)
         /\ todo[k].op = "copy" => /\ todo[k].buffer \in Caches /\ todo[k].side \in {"both"} \cup Sides
                                   /\ todo[k] = CopyField(todo[k].buffer, todo[k].side)
                                   /\ todo[k].side = "both" => k = Len(todo)
         /\ todo[k].op = "compare" => /\ todo[k].side \in Sides /\ todo[k] = Compare(todo[k].side)
                                      /\ k = Len(todo)
<1>1. \/ \E b \in Buffers, p \in Pictures : todo[k] = Get(b, p) /\ GetSound(b, p)
      \/ \E c \in Caches, s \in {"both"} \cup Sides :
            todo[k] = CopyField(c, s) /\ (s = "both" => k = Len(todo))
      \/ \E s \in Sides : todo[k] = Compare(s) /\ k = Len(todo)
  BY DEF TodoSound
<1>2. ASSUME NEW b \in Buffers, NEW p \in Pictures, todo[k] = Get(b, p), GetSound(b, p)
      PROVE  /\ todo[k].op = "get" /\ GetSound(todo[k].buffer, todo[k].picture)
             /\ todo[k].buffer \in Buffers /\ todo[k].picture \in Pictures
             /\ todo[k] = Get(todo[k].buffer, todo[k].picture)
  <2>1. todo[k].op = "get" /\ todo[k].buffer = b /\ todo[k].picture = p
    BY <1>2, StepParts
  <2> QED
    BY <1>2, <2>1
<1>3. ASSUME NEW c \in Caches, NEW s \in {"both"} \cup Sides, todo[k] = CopyField(c, s),
             s = "both" => k = Len(todo)
      PROVE  /\ todo[k].op = "copy" /\ todo[k].buffer \in Caches /\ todo[k].side \in {"both"} \cup Sides
             /\ todo[k] = CopyField(todo[k].buffer, todo[k].side)
             /\ todo[k].side = "both" => k = Len(todo)
  <2>1. todo[k].op = "copy" /\ todo[k].buffer = c /\ todo[k].side = s
    BY <1>3, StepParts
  <2> QED
    BY <1>3, <2>1
<1>4. ASSUME NEW s \in Sides, todo[k] = Compare(s), k = Len(todo)
      PROVE  /\ todo[k].op = "compare" /\ todo[k].side \in Sides /\ todo[k] = Compare(todo[k].side)
             /\ k = Len(todo)
  <2>1. todo[k].op = "compare" /\ todo[k].side = s
    BY <1>4, StepParts
  <2> QED
    BY <1>4, <2>1
<1>5. CASE \E b \in Buffers, p \in Pictures : todo[k] = Get(b, p) /\ GetSound(b, p)
  BY <1>2, <1>5
<1>6. CASE \E c \in Caches, s \in {"both"} \cup Sides :
             todo[k] = CopyField(c, s) /\ (s = "both" => k = Len(todo))
  BY <1>3, <1>6
<1>7. CASE \E s \in Sides : todo[k] = Compare(s) /\ k = Len(todo)
  BY <1>4, <1>7
<1> QED
  BY <1>1, <1>5, <1>6, <1>7

(***************************************************************************)
(* References                                                              *)
(***************************************************************************)
Pair == [top : 0..P, bottom : 0..P]
Sharers == [Owners -> SUBSET (Owners \cup {"decoder"})]

\* A frame comes to refer to the memory of another: those that share it are told.
LEMMA RefToSound ==
  ASSUME content \in [Owners -> Pair], sharers \in Sharers, SharersSound,
         NEW dst \in Owners, NEW src \in Owners, dst # src,
         sharers' = RefTo(dst, src), content' = [content EXCEPT ![dst] = content[src]]
  PROVE  /\ sharers' \in Sharers /\ SharersSound'
         /\ \A o \in Owners : o # dst /\ o # src /\ sharers[o] = {} => sharers'[o] = {}
<1>1. \A o \in Owners : /\ sharers[o] \in SUBSET (Owners \cup {"decoder"})
                        /\ o \notin sharers[o]
                        /\ \A q \in Owners : q \in sharers[o] => o \in sharers[q] /\ content[q] = content[o]
  BY DEF SharersSound, Sharers
<1>2. \A o \in Owners : /\ o = dst => sharers'[o] = {src} \cup (sharers[src] \ {dst})
                        /\ o # dst /\ (o = src \/ src \in sharers[o]) => sharers'[o] = sharers[o] \cup {dst}
                        /\ o # dst /\ ~(o = src \/ src \in sharers[o]) => sharers'[o] = sharers[o] \ {dst}
  BY DEF RefTo
<1>3. \A o \in Owners : content'[o] = IF o = dst THEN content[src] ELSE content[o]
  OBVIOUS
<1>4. sharers' \in Sharers
  BY <1>1 DEF RefTo, Sharers
<1>5. ASSUME NEW o \in Owners PROVE o \notin sharers'[o]
  BY <1>1, <1>2
<1>6. ASSUME NEW o \in Owners, NEW q \in Owners, q \in sharers'[o]
      PROVE  o \in sharers'[q] /\ content'[q] = content'[o]
  <2>1. CASE o = dst
    <3>1. q # dst /\ (q = src \/ q \in sharers[src])
      BY <1>1, <1>2, <1>6, <2>1
    <3>2. q = src \/ src \in sharers[q]
      BY <3>1, <1>1
    <3>3. dst \in sharers'[q]
      BY <3>1, <3>2, <1>2
    <3>4. content[q] = content[src]
      BY <3>1, <1>1
    <3> QED
      BY <3>1, <3>3, <3>4, <1>3, <2>1
  <2>2. CASE o # dst /\ q = dst
    <3>1. o = src \/ src \in sharers[o]
      BY <1>2, <1>6, <2>2
    <3>2. o = src \/ o \in sharers[src]
      BY <3>1, <1>1
    <3>3. o \in sharers'[dst]
      BY <3>2, <1>2, <2>2
    <3>4. content[o] = content[src]
      BY <3>1, <1>1
    <3> QED
      BY <3>3, <3>4, <1>3, <2>2
  <2>3. CASE o # dst /\ q # dst
    <3>1. q \in sharers[o]
      BY <1>2, <1>6, <2>3
    <3>2. o \in sharers[q] /\ content[q] = content[o]
      BY <3>1, <1>1
    <3>3. o \in sharers'[q]
      BY <3>2, <1>2, <2>3
    <3> QED
      BY <3>2, <3>3, <1>3, <2>3
  <2> QED
    BY <2>1, <2>2, <2>3
<1>7. ASSUME NEW o \in Owners, o # dst, o # src, sharers[o] = {} PROVE sharers'[o] = {}
  BY <1>2, <1>7
<1> QED
  BY <1>4, <1>5, <1>6, <1>7 DEF SharersSound

\* A frame gets new memory: no frame shares it.
LEMMA NewMemorySound ==
  ASSUME content \in [Owners -> Pair], sharers \in Sharers, SharersSound,
         NEW dst \in Owners, NEW others \in SUBSET {"decoder"}, NEW fields,
         sharers' = NewMemory(dst, others), content' = [content EXCEPT ![dst] = fields]
  PROVE  /\ sharers' \in Sharers /\ SharersSound' /\ sharers'[dst] = others
         /\ \A o \in Owners : o # dst /\ sharers[o] = {} => sharers'[o] = {}
<1>1. \A o \in Owners : /\ sharers[o] \in SUBSET (Owners \cup {"decoder"})
                        /\ o \notin sharers[o]
                        /\ \A q \in Owners : q \in sharers[o] => o \in sharers[q] /\ content[q] = content[o]
  BY DEF SharersSound, Sharers
<1>2. \A o \in Owners : sharers'[o] = IF o = dst THEN others ELSE sharers[o] \ {dst}
  BY DEF NewMemory
<1>3. \A o \in Owners : o # dst => content'[o] = content[o]
  OBVIOUS
<1>4. sharers' \in Sharers
  BY <1>1 DEF NewMemory, Sharers
<1>a. \A o \in Owners : o \notin others
  BY NoDecoder
<1>5. ASSUME NEW o \in Owners PROVE o \notin sharers'[o]
  BY <1>1, <1>2, <1>a
<1>6. ASSUME NEW o \in Owners, NEW q \in Owners, q \in sharers'[o]
      PROVE  o \in sharers'[q] /\ content'[q] = content'[o]
  <2>1. o # dst
    BY <1>2, <1>6, <1>a
  <2>2. q # dst /\ q \in sharers[o]
    BY <2>1, <1>2, <1>6
  <2>3. o \in sharers[q] /\ content[q] = content[o]
    BY <2>2, <1>1
  <2>4. o \in sharers'[q]
    BY <2>1, <2>2, <2>3, <1>2
  <2> QED
    BY <2>1, <2>2, <2>3, <2>4, <1>3
<1> QED
  BY <1>2, <1>4, <1>5, <1>6 DEF SharersSound

\* What get_requested_picture leaves behind, whichever way the picture comes.
LEMMA GetEffect ==
  ASSUME IInv, NEW b \in Buffers, NEW p \in Pictures,
         SameAgain(b, p) \/ FirstValid(b, p) \/ Decode(b, p)
  PROVE  /\ todo # <<>> /\ todo[1] = Get(b, p) /\ GetSound(b, p)
         /\ todo' = Tail(todo) /\ UNCHANGED <<lists, n, forward, direct>>
         /\ last_req_frame' = b /\ last_frame_number' \in {p, P + 1}
         /\ frame_cache_numbers' = [c \in Caches |-> IF c = b THEN p ELSE frame_cache_numbers[c]]
         /\ \E fields \in Pair :
              /\ content' = [content EXCEPT ![b] = fields]
              /\ b \in Caches => fields = Whole(Shown(p))
         /\ sharers' \in Sharers /\ SharersSound'
         /\ b \in Caches /\ sharers["frame"] = {} => sharers'["frame"] = {}
<1>1. todo \in Seq(Steps) /\ todo # <<>> /\ Head(todo) = Get(b, p)
  BY DEF IInv, TypeOK, SameAgain, FirstValid, Decode, Getting
<1>2. todo[1] = Get(b, p) /\ 1 \in DOMAIN todo
  <2> HIDE DEF Steps
  <2> QED
    BY <1>1
<1>3. GetSound(b, p)
  <2>1. todo[1].op = "get" /\ todo[1].buffer = b /\ todo[1].picture = p
    BY <1>2, StepParts
  <2> QED
    BY <1>2, <2>1, TodoParts DEF IInv
<1>4. p \in 1..P /\ P \in Nat /\ first_valid \in 1..P
  BY VideoAssumption DEF IInv, TypeOK, Pictures
<1>5. b \in Caches => p # last_frame_number
  <2>1. SUFFICES ASSUME b \in Caches, p = last_frame_number PROVE FALSE
    OBVIOUS
  <2>2. Filed(p) = {} /\ ~Lone(p)
    BY <1>3, <2>1 DEF GetSound, Caches
  <2>3. last_req_frame \in Caches /\ frame_cache_numbers[last_req_frame] = p
    BY <2>1, <2>2 DEF IInv, LastSound
  <2> QED
    BY <2>2, <2>3 DEF Filed
<1>6. PICK fields, refs, src :
        /\ Receive(b, p, fields, refs) /\ fields \in Pair /\ last_frame_number' \in {p, P + 1}
        /\ b \in Caches => fields = Whole(Shown(p))
        /\ \/ refs = sharers /\ fields = content[b]
           \/ /\ src \in Owners /\ src # b /\ refs = RefTo(b, src) /\ fields = content[src]
              /\ b \in Caches => src # "frame"
           \/ refs = NewMemory(b, {"decoder"})
  <2>1. CASE SameAgain(b, p)
    <3>1. p = last_frame_number /\ b = "frame" /\ b \notin Caches
      BY <2>1, <1>5 DEF SameAgain, Buffers, Caches
    <3>2. last_req_frame \in Buffers
      BY <3>1 DEF IInv, LastSound, Buffers
    <3>3. content[b] \in Pair /\ content[last_req_frame] \in Pair /\ last_req_frame \in Owners
      BY <3>2, NoDecoder DEF IInv, TypeOK, Pair
    <3>4. b = last_req_frame => Receive(b, p, content[b], sharers)
      BY <2>1 DEF SameAgain
    <3>5. b # last_req_frame => Receive(b, p, content[last_req_frame], RefTo(b, last_req_frame))
      BY <2>1 DEF SameAgain
    <3>6. last_frame_number' = p
      BY <2>1, <3>1 DEF SameAgain
    <3> QED
      BY <3>1, <3>3, <3>4, <3>5, <3>6
  <2>2. CASE FirstValid(b, p)
    <3>1. /\ Receive(b, p, content["valid"], RefTo(b, "valid"))
          /\ last_frame_number' = P + 1 /\ p < first_valid
      BY <2>2 DEF FirstValid
    <3>2. content["valid"] = Whole(first_valid)
      BY <3>1, <1>4 DEF IInv, CacheFresh
    <3>3. Whole(first_valid) = Whole(Shown(p)) /\ Whole(first_valid) \in Pair
      BY <3>1, <1>4 DEF Shown, Whole, Pair
    <3>4. "valid" \in Owners /\ "valid" # b /\ "valid" # "frame"
      BY NoDecoder
    <3> QED
      BY <3>1, <3>2, <3>3, <3>4
  <2>3. CASE Decode(b, p)
    <3>1. Receive(b, p, Whole(p), NewMemory(b, {"decoder"})) /\ last_frame_number' = p /\ p >= first_valid
      BY <2>3 DEF Decode
    <3>2. Whole(p) = Whole(Shown(p)) /\ Whole(p) \in Pair
      BY <3>1, <1>4 DEF Shown, Whole, Pair
    <3> QED
      BY <3>1, <3>2
  <2> QED
    BY <2>1, <2>2, <2>3
<1>7. /\ todo' = Tail(todo) /\ UNCHANGED <<lists, n, forward, direct>> /\ last_req_frame' = b
      /\ frame_cache_numbers' = [c \in Caches |-> IF c = b THEN p ELSE frame_cache_numbers[c]]
      /\ content' = [content EXCEPT ![b] = fields] /\ sharers' = refs
  BY <1>6 DEF Receive, FileUnder
<1>8. /\ sharers' \in Sharers /\ SharersSound'
      /\ b \in Caches /\ sharers["frame"] = {} => sharers'["frame"] = {}
  <2>1. /\ content \in [Owners -> Pair] /\ sharers \in Sharers /\ SharersSound /\ b \in Owners
    BY NoDecoder DEF IInv, TypeOK, Pair, Sharers
  <2>2. CASE refs = sharers /\ fields = content[b]
    <3>1. content' = content
      BY <2>1, <2>2, <1>7
    <3> QED
      BY <3>1, <2>1, <2>2, <1>7 DEF SharersSound
  <2>3. CASE /\ src \in Owners /\ src # b /\ refs = RefTo(b, src) /\ fields = content[src]
             /\ b \in Caches => src # "frame"
    <3>1. content' = [content EXCEPT ![b] = content[src]]
      BY <2>3, <1>7
    <3>2. /\ sharers' \in Sharers /\ SharersSound'
          /\ \A o \in Owners : o # b /\ o # src /\ sharers[o] = {} => sharers'[o] = {}
      BY <2>1, <2>3, <3>1, <1>7, RefToSound
    <3> QED
      BY <3>2, <2>3, NoDecoder
  <2>4. CASE refs = NewMemory(b, {"decoder"})
    <3>1. {"decoder"} \in SUBSET {"decoder"}
      OBVIOUS
    <3>2. /\ sharers' \in Sharers /\ SharersSound'
          /\ \A o \in Owners : o # b /\ sharers[o] = {} => sharers'[o] = {}
      BY <2>1, <2>4, <3>1, <1>7, NewMemorySound
    <3> QED
      BY <3>2, NoDecoder
  <2> QED
    BY <2>2, <2>3, <2>4, <1>6
<1> QED
  BY <1>1, <1>2, <1>3, <1>6, <1>7, <1>8

\* The steps that are left of a request stay sound when its first one is done, if
\* the caches change as that step says.
LEMMA RestSound ==
  ASSUME IInv, todo # <<>>, todo' = Tail(todo), UNCHANGED <<lists, n, direct>>,
         \/ ~IsGet(todo[1]) /\ UNCHANGED frame_cache_numbers
         \/ /\ IsGet(todo[1])
            /\ frame_cache_numbers' = [c \in Caches |->
                 IF c = todo[1].buffer THEN todo[1].picture ELSE frame_cache_numbers[c]]
  PROVE  /\ TodoSound'
         /\ n # 0 /\ ~direct => \A side \in Sides : \A k \in DOMAIN todo' :
              CopiesTo(todo'[k], side) => Fetched(k, side)'
<1>1. /\ 1 \in DOMAIN todo
      /\ Len(todo') = Len(todo) - 1 /\ Len(todo) \in Nat
      /\ DOMAIN todo = 1..Len(todo) /\ DOMAIN todo' = 1..Len(todo) - 1
      /\ \A k \in DOMAIN todo' : k \in Int /\ k + 1 \in DOMAIN todo /\ k + 1 # 1 /\ todo'[k] = todo[k + 1]
      /\ \A k \in DOMAIN todo : k # 1 => k - 1 \in DOMAIN todo' /\ todo'[k - 1] = todo[k]
  BY TailSteps DEF IInv, TypeOK
<1>2. ASSUME NEW j \in DOMAIN todo, NEW k \in DOMAIN todo, j # k, IsGet(todo[j]), IsGet(todo[k])
      PROVE  todo[j].picture # todo[k].picture /\ todo[j].buffer # todo[k].buffer
  BY <1>2 DEF IInv, TodoSound
<1>3. ASSUME NEW k \in DOMAIN todo'
      PROVE  \/ \E b \in Buffers, p \in Pictures : todo'[k] = Get(b, p) /\ GetSound(b, p)'
             \/ \E c \in Caches, s \in {"both"} \cup Sides :
                  todo'[k] = CopyField(c, s) /\ (s = "both" => k = Len(todo'))
             \/ \E s \in Sides : todo'[k] = Compare(s) /\ k = Len(todo')
  <2>1. k + 1 \in DOMAIN todo /\ todo'[k] = todo[k + 1] /\ k \in Int /\ k + 1 # 1
    BY <1>1
  <2>2. CASE todo[k + 1].op = "get"
    <3>1. PICK b, p : b = todo[k + 1].buffer /\ p = todo[k + 1].picture
      OBVIOUS
    <3>2. /\ b \in Buffers /\ p \in Pictures /\ todo[k + 1] = Get(b, p) /\ GetSound(b, p)
      BY <2>1, <2>2, <3>1, TodoParts DEF IInv
    <3>3. Lone(p)' <=> Lone(p)
      BY ListsStay
    <3>4. CASE b = "frame"
      <4>1. GetSound(b, p)'
        BY <3>2, <3>3, <3>4 DEF GetSound
      <4> QED
        BY <4>1, <3>2, <2>1
    <3>5. CASE b # "frame"
      <4>1. IsGet(todo[1]) => todo[1].picture # p
        BY <1>1, <1>2, <2>1, <2>2, <3>1 DEF IsGet
      <4>2. Filed(p) = {} /\ ~Lone(p)
        BY <3>2, <3>5 DEF GetSound
      <4>3. Filed(p)' = {}
        BY <4>1, <4>2 DEF Filed
      <4>4. GetSound(b, p)'
        BY <4>2, <4>3, <3>3, <3>5 DEF GetSound
      <4> QED
        BY <4>4, <3>2, <2>1
    <3> QED
      BY <3>4, <3>5
  <2>3. CASE todo[k + 1].op = "copy"
    <3>1. PICK c, s : c = todo[k + 1].buffer /\ s = todo[k + 1].side
      OBVIOUS
    <3>2. /\ c \in Caches /\ s \in {"both"} \cup Sides /\ todo[k + 1] = CopyField(c, s)
          /\ s = "both" => k + 1 = Len(todo)
      BY <2>1, <2>3, <3>1, TodoParts DEF IInv
    <3>3. s = "both" => k = Len(todo')
      BY <3>2, <1>1, <2>1
    <3> QED
      BY <3>2, <3>3, <2>1
  <2>4. CASE todo[k + 1].op = "compare"
    <3>1. PICK s : s = todo[k + 1].side
      OBVIOUS
    <3>2. s \in Sides /\ todo[k + 1] = Compare(s) /\ k + 1 = Len(todo)
      BY <2>1, <2>4, <3>1, TodoParts DEF IInv
    <3>3. k = Len(todo')
      BY <3>2, <1>1, <2>1
    <3> QED
      BY <3>2, <3>3, <2>1
  <2> QED
    BY <2>1, <2>2, <2>3, <2>4, TodoParts DEF IInv
<1>4. ASSUME NEW j \in DOMAIN todo', NEW k \in DOMAIN todo', j # k, IsGet(todo'[j]), IsGet(todo'[k])
      PROVE  todo'[j].picture # todo'[k].picture /\ todo'[j].buffer # todo'[k].buffer
  <2>1. /\ j + 1 \in DOMAIN todo /\ k + 1 \in DOMAIN todo /\ j + 1 # k + 1
        /\ todo'[j] = todo[j + 1] /\ todo'[k] = todo[k + 1]
    BY <1>1, <1>4
  <2> QED
    BY <2>1, <1>2, <1>4
<1>5. TodoSound'
  BY <1>3, <1>4 DEF TodoSound
<1>6. ASSUME n # 0, ~direct, NEW side \in Sides, NEW k \in DOMAIN todo', CopiesTo(todo'[k], side)
      PROVE  Fetched(k, side)'
  <2>a. PICK c, at : c = CopiesFrom(todo'[k], side) /\ at = OrderAt(n)[side]
    OBVIOUS
  <2> DEFINE Later == {j \in DOMAIN todo' : j < k /\ IsGet(todo'[j]) /\ todo'[j].buffer = c}
             Before == {j \in DOMAIN todo : j < k + 1 /\ IsGet(todo[j]) /\ todo[j].buffer = c}
  <2>1. k + 1 \in DOMAIN todo /\ todo'[k] = todo[k + 1] /\ k \in Int /\ k + 1 # 1
    BY <1>1
  <2>2. Fetched(k + 1, side)
    BY <2>1, <1>6 DEF IInv, CopySound, Sides
  <2>3. /\ \A j \in Before : todo[j].picture = at
        /\ Before = {} => Stands(c, at)
    BY <2>1, <2>2, <2>a DEF Fetched
  <2>4. OrderAt(n)'[side] = at
    BY <2>a, ListsStay
  <2>5. ASSUME NEW j \in Later PROVE todo'[j].picture = at
    <3>1. j + 1 \in Before /\ todo'[j] = todo[j + 1]
      BY <1>1, <2>1
    <3> QED
      BY <3>1, <2>3
  <2>6. ASSUME Later = {} PROVE Stands(c, at)'
    <3>1. \A j \in Before : j = 1
      <4> SUFFICES ASSUME NEW j \in Before, j # 1 PROVE FALSE
        OBVIOUS
      <4>1. j - 1 \in DOMAIN todo' /\ todo'[j - 1] = todo[j] /\ j - 1 < k
        BY <1>1, <2>1
      <4>2. j - 1 \in Later
        BY <4>1
      <4> QED
        BY <4>2, <2>6
    <3>2. c \in Caches
      <4>1. todo[k + 1].op \in {"copy", "compare"}
        BY <1>6, <2>1 DEF CopiesTo
      <4>2. CASE todo[k + 1].op = "copy"
        <5>1. todo[k + 1].buffer \in Caches /\ todo[k + 1] = CopyField(todo[k + 1].buffer, todo[k + 1].side)
          BY <4>2, <2>1, TodoParts DEF IInv
        <5>2. c = todo[k + 1].buffer
          BY <4>2, <2>1, <2>a DEF CopiesFrom
        <5> QED
          BY <5>1, <5>2
      <4>3. CASE todo[k + 1].op = "compare"
        <5>1. todo[k + 1] = Compare(todo[k + 1].side)
          BY <4>3, <2>1, TodoParts DEF IInv
        <5>2. todo[k + 1].buffer = "cache0"
          BY <5>1 DEF Compare
        <5> QED
          BY <5>2, <2>1, <2>a DEF CopiesFrom, Caches
      <4> QED
        BY <4>1, <4>2, <4>3
    <3>a. Shown(at)' = Shown(at) /\ \A q : Shown(q)' = Shown(q)
      BY <2>4, ListsStay DEF Shown, OrderAt, lists
    <3>3. CASE 1 \in Before
      <4>1. IsGet(todo[1]) /\ todo[1].buffer = c /\ todo[1].picture = at
        BY <3>3, <2>3
      <4>2. frame_cache_numbers'[c] = at
        BY <4>1, <3>2
      <4>3. at \in Pictures /\ 0 \notin Pictures
        BY <4>1, <1>1, TodoParts DEF IInv, IsGet, Pictures
      <4> QED
        BY <4>2, <4>3, <2>4 DEF Stands
    <3>4. CASE 1 \notin Before
      <4>1. Stands(c, at)
        BY <3>1, <3>4, <2>3
      <4>2. ~(IsGet(todo[1]) /\ todo[1].buffer = c)
        BY <3>4, <1>1, <2>1
      <4>3. frame_cache_numbers'[c] = frame_cache_numbers[c]
        BY <4>2, <3>2
      <4> QED
        BY <4>1, <4>3, <3>a DEF Stands
    <3> QED
      BY <3>3, <3>4
  <2> QED
    BY <2>a, <2>4, <2>5, <2>6 DEF Fetched
<1> QED
  BY <1>5, <1>6

\* Fetching a picture keeps the invariant.
LEMMA GetKeeps ==
  ASSUME IInv, NEW b \in Buffers, NEW p \in Pictures,
         SameAgain(b, p) \/ FirstValid(b, p) \/ Decode(b, p)
  PROVE  IInv'
<1>1. /\ todo # <<>> /\ todo[1] = Get(b, p) /\ GetSound(b, p)
      /\ todo' = Tail(todo) /\ UNCHANGED <<lists, n, forward, direct>>
      /\ last_req_frame' = b /\ last_frame_number' \in {p, P + 1}
      /\ frame_cache_numbers' = [c \in Caches |-> IF c = b THEN p ELSE frame_cache_numbers[c]]
      /\ sharers' \in Sharers /\ SharersSound'
      /\ b \in Caches /\ sharers["frame"] = {} => sharers'["frame"] = {}
  BY GetEffect
<1>2. PICK fields : /\ fields \in Pair
                    /\ content' = [content EXCEPT ![b] = fields]
                    /\ b \in Caches => fields = Whole(Shown(p))
  BY GetEffect
<1>3. /\ p \in 1..P /\ P \in Nat /\ P + 1 \notin Pictures
      /\ content \in [Owners -> Pair]
      /\ frame_cache_numbers \in [Caches -> 0..P]
  BY VideoAssumption DEF IInv, TypeOK, Pictures, Pair
<1>a. /\ content' \in [Owners -> Pair]
      /\ \A d \in Owners : content'[d] = IF d = b THEN fields ELSE content[d]
  BY <1>2, <1>3, NoDecoder
<1>b. Caches \subseteq Owners /\ "frame" \in Owners /\ "frame" \notin Caches
  BY NoDecoder
<1>4. b \in Caches => Filed(p) = {} /\ ~Lone(p)
  BY <1>1 DEF GetSound, Caches
<1>5. IsGet(todo[1]) /\ todo[1].buffer = b /\ todo[1].picture = p
  BY <1>1, StepParts DEF IsGet
<1>6. TypeOK'
  <2>1. todo' \in Seq(Steps) /\ Len(todo') <= 3
    <3>1. Len(todo') = Len(todo) - 1 /\ Len(todo) \in Nat /\ todo' \in Seq(Steps) /\ Len(todo) <= 3
      BY <1>1, TailSteps DEF IInv, TypeOK
    <3> QED
      BY <3>1
  <2>2. content' \in [Owners -> [top : 0..P, bottom : 0..P]]
    BY <1>a DEF Pair
  <2>3. frame_cache_numbers' \in [Caches -> 0..P]
    BY <1>1, <1>3
  <2>4. last_frame_number' \in 1..P + 1 /\ last_req_frame' \in Buffers \cup {"none"}
    BY <1>1, <1>3
  <2>5. (order # <<>> => Covers(order))' /\ n' \in {0} \cup Frames'
    BY <1>1 DEF IInv, TypeOK, Frames, lists
  <2> QED
    BY <2>1, <2>2, <2>3, <2>4, <2>5, <1>1 DEF IInv, TypeOK, lists, Sharers
<1>7. CacheFresh'
  <2>1. ASSUME NEW c \in Caches, frame_cache_numbers'[c] # 0
        PROVE  content'[c] = Whole(Shown(frame_cache_numbers'[c]))
    <3>1. CASE c = b
      <4>1. content'[b] = fields
        BY <3>1, <1>a, <1>b
      <4>2. fields = Whole(Shown(p))
        BY <3>1, <1>2, Zenon
      <4>3. frame_cache_numbers'[b] = p
        BY <3>1, <1>1
      <4> QED
        BY <4>1, <4>2, <4>3, <3>1
    <3>2. CASE c # b
      <4>1. content'[c] = content[c] /\ frame_cache_numbers'[c] = frame_cache_numbers[c]
        BY <3>2, <1>1, <1>a, <1>b
      <4> QED
        BY <4>1, <2>1 DEF IInv, CacheFresh
    <3> QED
      BY <3>1, <3>2
  <2>2. \A q : Shown(q)' = Shown(q)
    BY <1>1, ListsStay
  <2>3. frame_cache_numbers'["cache0"] = frame_cache_numbers'["cache1"] => frame_cache_numbers'["cache0"] = 0
    <3>1. CASE b \in Caches
      <4>1. \A c \in Caches : frame_cache_numbers[c] # p
        BY <1>4, <3>1 DEF Filed
      <4> QED
        BY <4>1, <1>1, <3>1 DEF Caches
    <3>2. CASE b \notin Caches
      <4>1. \A c \in Caches : frame_cache_numbers'[c] = frame_cache_numbers[c]
        BY <3>2, <1>1
      <4> QED
        BY <4>1 DEF IInv, CacheFresh, Caches
    <3> QED
      BY <3>1, <3>2
  <2>4. first_valid # 1 => content'["valid"] = Whole(first_valid)
    BY <1>a, NoDecoder DEF IInv, CacheFresh
  <2> QED
    BY <2>1, <2>2, <2>3, <2>4, <1>1 DEF CacheFresh, Shown, lists
<1>8. LastSound'
  <2>1. last_frame_number' = p \/ last_frame_number' \notin Pictures
    BY <1>1, <1>3
  <2>2. CASE b = "frame"
    <3>1. Lone(p)'
      BY <2>2, <1>1, ListsStay DEF GetSound
    <3> QED
      BY <3>1, <2>1, <2>2, <1>1 DEF LastSound, Lone
  <2>3. CASE b \in Caches
    <3>1. frame_cache_numbers'[b] = p
      BY <2>3, <1>1
    <3> QED
      BY <3>1, <2>1, <2>3, <1>1 DEF LastSound
  <2> QED
    BY <2>2, <2>3, <1>1 DEF Buffers
<1>9. /\ TodoSound'
      /\ n # 0 /\ ~direct => \A side \in Sides : \A k \in DOMAIN todo' :
            CopiesTo(todo'[k], side) => Fetched(k, side)'
  BY <1>1, <1>5, RestSound
<1>10. CopySound'
  <2> SUFFICES ASSUME n # 0, ~direct, NEW side \in Sides
               PROVE  Settled(side)' \/ \E k \in DOMAIN todo' : CopiesTo(todo'[k], side)
    BY <1>1, <1>9 DEF CopySound, IInv, Sides, lists
  <2>1. b \in Caches
    BY <1>1 DEF GetSound, Buffers
  <2>2. CASE Settled(side)
    <3>1. content'["frame"] = content["frame"] /\ "frame" # b
      BY <1>a, <1>b, <2>1
    <3>2. sharers'["frame"] = {}
      BY <1>1, <2>1, <2>2 DEF Settled
    <3>3. OrderAt(n)' = OrderAt(n) /\ \A q : Shown(q)' = Shown(q)
      BY <1>1, ListsStay
    <3>4. content'["frame"][side] = Shown(OrderAt(n)[side])
      BY <3>1, <2>2 DEF Settled
    <3> QED
      BY <3>2, <3>4, <1>1 DEF Settled, Shown, OrderAt, lists
  <2>3. CASE ~Settled(side)
    <3>1. PICK k \in DOMAIN todo : CopiesTo(todo[k], side)
      BY <2>3 DEF IInv, CopySound, Sides
    <3>2. k # 1
      BY <3>1, <1>1, CopyParts
    <3>3. k - 1 \in DOMAIN todo' /\ todo'[k - 1] = todo[k]
      BY <3>2, <1>1, TailSteps DEF IInv, TypeOK
    <3> QED
      BY <3>1, <3>3
  <2> QED
    BY <2>2, <2>3
<1> QED
  BY <1>1, <1>6, <1>7, <1>8, <1>9, <1>10 DEF IInv

\* The three ways to copy from a cache.
Copies(c, s) == \/ s = "both" /\ CopyWhole(c)
                \/ s \in Sides /\ (MakeWritable(c, s) \/ WriteField(c, s))

\* What a copy makes of the output buffer: the fields it copies come from the cache,
\* and a field copied alone into memory nobody shares leaves the other.  No other
\* frame changes, since those that share the memory are known.
LEMMA CopyEffect ==
  ASSUME IInv, NEW c \in Caches, NEW s \in {"both"} \cup Sides, Copies(c, s)
  PROVE  /\ todo # <<>> /\ Head(todo) = CopyField(c, s) /\ todo' = Tail(todo)
         /\ UNCHANGED <<lists, last_req_frame, last_frame_number, frame_cache_numbers, n, forward, direct>>
         /\ sharers' \in Sharers /\ SharersSound'
         /\ s # "both" => sharers'["frame"] = {}
         /\ \E fields \in Pair :
              /\ content' = [content EXCEPT !["frame"] = fields]
              /\ \A side \in Sides : s \in {"both", side} => fields[side] = content[c][side]
              /\ \A side \in Sides :
                   s \notin {"both", side} /\ sharers["frame"] = {} /\ content["frame"] # Whole(0)
                     => fields[side] = content["frame"][side]
<1>1. /\ content \in [Owners -> Pair] /\ sharers \in Sharers /\ SharersSound
      /\ "frame" \in Owners /\ c \in Owners /\ c # "frame"
      /\ content[c] \in Pair /\ content["frame"] \in Pair
  BY NoDecoder DEF IInv, TypeOK, Pair, Sharers
<1>2. CASE s = "both" /\ CopyWhole(c)
  <2>1. Copying(CopyField(c, "both")) /\ sharers' = RefTo("frame", c)
        /\ content' = [content EXCEPT !["frame"] = content[c]]
    BY <1>2, StepTypes DEF CopyWhole
  <2>2. sharers' \in Sharers /\ SharersSound'
    BY <1>1, <2>1, RefToSound
  <2> QED
    BY <1>1, <1>2, <2>1, <2>2 DEF Copying
<1>3. CASE s \in Sides /\ MakeWritable(c, s)
  <2>1. /\ Copying(CopyField(c, s)) /\ MaybeShared /\ sharers' = NewMemory("frame", {})
        /\ content' = [content EXCEPT !["frame"] = content[c]]
    BY <1>3 DEF MakeWritable
  <2>2. sharers' \in Sharers /\ SharersSound' /\ sharers'["frame"] = {}
    <3>1. {} \in SUBSET {"decoder"}
      OBVIOUS
    <3> QED
      BY <1>1, <2>1, <3>1, NewMemorySound
  <2>3. ~(sharers["frame"] = {} /\ content["frame"] # Whole(0))
    BY <2>1 DEF MaybeShared
  <2> QED
    BY <1>1, <2>1, <2>2, <2>3 DEF Copying
<1>4. CASE s \in Sides /\ WriteField(c, s)
  <2> DEFINE field == [content["frame"] EXCEPT ![s] = content[c][s]]
  <2>1. /\ Copying(CopyField(c, s)) /\ sharers["frame"] \subseteq {"decoder"}
        /\ sharers' = [sharers EXCEPT !["frame"] = sharers["frame"] \ {"decoder"}]
        /\ content' = [o \in Owners |-> IF o = "frame" \/ "frame" \in sharers[o]
                                       THEN [content[o] EXCEPT ![s] = content[c][s]] ELSE content[o]]
    BY <1>4 DEF WriteField, MaybeWritable
  <2>2. \A o \in Owners : "frame" \notin sharers[o]
    BY <1>1, <2>1, NoDecoder DEF SharersSound
  <2>3. /\ field \in Pair /\ field[s] = content[c][s]
        /\ \A side \in Sides : side # s => field[side] = content["frame"][side]
    BY <1>1, <1>4 DEF Pair, Sides
  <2>4. content' = [content EXCEPT !["frame"] = field]
    BY <1>1, <2>1, <2>2
  <2>5. sharers' \in Sharers /\ sharers'["frame"] = {} /\ \A o \in Owners : o # "frame" => sharers'[o] = sharers[o]
    BY <1>1, <2>1 DEF Sharers
  <2> HIDE DEF field
  <2>6. \A o \in Owners : o # "frame" => content'[o] = content[o]
    BY <1>1, <2>4
  <2>7. SharersSound'
    BY <1>1, <2>2, <2>5, <2>6 DEF SharersSound
  <2>8. \A side \in Sides : s \in {"both", side} => side = s
    BY <1>4 DEF Sides
  <2> QED
    BY <2>1, <2>3, <2>4, <2>5, <2>7, <2>8 DEF Copying
<1> QED
  BY <1>2, <1>3, <1>4 DEF Copies

\* Copying a frame or a field to the output buffer keeps the invariant.
LEMMA CopyKeeps ==
  ASSUME IInv, NEW c \in Caches, NEW s \in {"both"} \cup Sides, Copies(c, s)
  PROVE  IInv'
<1>1. /\ todo # <<>> /\ Head(todo) = CopyField(c, s) /\ todo' = Tail(todo)
      /\ sharers' \in Sharers /\ SharersSound'
      /\ s # "both" => sharers'["frame"] = {}
      /\ UNCHANGED <<lists, last_req_frame, last_frame_number, frame_cache_numbers, n, forward, direct>>
  BY CopyEffect
<1>2. PICK fields \in Pair : 
        /\ content' = [content EXCEPT !["frame"] = fields]
        /\ \A side \in Sides : s \in {"both", side} => fields[side] = content[c][side]
        /\ \A side \in Sides :
             s \notin {"both", side} /\ sharers["frame"] = {} /\ content["frame"] # Whole(0)
               => fields[side] = content["frame"][side]
  BY CopyEffect
<1>4. content \in [Owners -> Pair]
  BY DEF IInv, TypeOK, Pair
<1>5. /\ content' \in [Owners -> Pair] /\ content'["frame"] = fields
      /\ \A d \in Caches \cup {"valid"} : content'[d] = content[d]
  BY <1>2, <1>4 DEF Caches, Buffers, Owners
<1>6. /\ 1 \in DOMAIN todo /\ todo[1] = CopyField(c, s)
      /\ Len(todo') = Len(todo) - 1 /\ Len(todo) \in Nat /\ todo' \in Seq(Steps) /\ Len(todo) <= 3
      /\ \A k \in DOMAIN todo : k # 1 => k - 1 \in DOMAIN todo' /\ todo'[k - 1] = todo[k]
  BY <1>1, TailSteps DEF IInv, TypeOK
<1>7. todo[1].op = "copy" /\ todo[1].buffer = c /\ todo[1].side = s
  BY <1>6, StepParts
<1>8. s = "both" => todo' = <<>>
  <2>1. s = "both" => Len(todo') = 0
    BY <1>6, <1>7, TodoParts DEF IInv
  <2> HIDE DEF Steps
  <2> QED
    BY <2>1, <1>6
<1>9. TypeOK'
  <2>1. todo' \in Seq(Steps) /\ Len(todo') <= 3
    BY <1>6
  <2>2. content' \in [Owners -> [top : 0..P, bottom : 0..P]]
    BY <1>5 DEF Pair
  <2>3. sharers' \in [Owners -> SUBSET (Owners \cup {"decoder"})]
    BY <1>1 DEF Sharers
  <2>4. (order # <<>> => Covers(order))' /\ n' \in {0} \cup Frames'
    BY <1>1 DEF IInv, TypeOK, Frames, lists
  <2> QED
    BY <2>1, <2>2, <2>3, <2>4, <1>1 DEF IInv, TypeOK, lists
<1>10. CacheFresh'
  BY <1>1, <1>5, ListsStay DEF IInv, CacheFresh, lists
<1>11. LastSound'
  BY <1>1, ListsStay DEF IInv, LastSound
<1>12. /\ TodoSound'
       /\ n # 0 /\ ~direct => \A side \in Sides : \A k \in DOMAIN todo' :
            CopiesTo(todo'[k], side) => Fetched(k, side)'
  BY <1>1, <1>7, RestSound DEF IsGet
<1>13. CopySound'
  <2> SUFFICES ASSUME n # 0, ~direct, NEW side \in Sides
               PROVE  Settled(side)' \/ \E k \in DOMAIN todo' : CopiesTo(todo'[k], side)
    BY <1>1, <1>12 DEF CopySound, IInv, Sides, lists
  <2> DEFINE at == OrderAt(n)[side]
  <2>1. /\ OrderAt(n)'[side] = at
        /\ Shown(at)' = Shown(at)
    BY <1>1, ListsStay DEF OrderAt, lists, Shown
  <2>2. at \in Pictures
    <3>1. order # <<>> /\ n \in DOMAIN order /\ Covers(order)
      BY DEF IInv, CopySound, TypeOK, Frames
    <3> QED
      BY <3>1, FieldsArePictures DEF Sides
  <2>3. P \in Nat /\ first_valid \in 1..P /\ at \in 1..P /\ Shown(at) # 0
    BY <2>2, VideoAssumption DEF IInv, TypeOK, Pictures, Shown
  <2>4. CASE s \in {"both", side}
    <3>1. Fetched(1, side)
      BY <1>6, <2>4, CopyParts DEF IInv, CopySound
    <3>2. Stands(c, at)
      <4>1. \A j \in DOMAIN todo : ~(j < 1)
        BY DEF IInv, TypeOK
      <4> QED
        BY <3>1, <4>1, <1>6, CopyParts DEF Fetched
    <3>3. content[c] = Whole(Shown(at))
      BY <3>2 DEF IInv, CacheFresh, Stands
    <3>4. content[c][side] = Shown(at)
      BY <3>3 DEF Whole, Sides
    <3>5. content'["frame"][side] = Shown(at)
      BY <3>4, <1>2, <1>5, <2>4
    <3>6. todo' = <<>> \/ sharers'["frame"] = {}
      BY <1>1, <1>8
    <3> QED
      BY <3>5, <3>6, <2>1, <1>1 DEF Settled, Shown, OrderAt, lists
  <2>5. CASE s \notin {"both", side} /\ Settled(side)
    <3>1. sharers["frame"] = {} /\ content["frame"][side] = Shown(at)
      BY <1>1, <2>5 DEF Settled
    <3>2. content["frame"] # Whole(0)
      <4>1. Whole(0)[side] = 0
        BY DEF Whole, Sides
      <4> QED
        BY <4>1, <3>1, <2>3
    <3>3. content'["frame"][side] = Shown(at)
      BY <3>1, <3>2, <1>2, <1>5, <2>5
    <3>4. sharers'["frame"] = {}
      BY <1>1, <2>5
    <3> QED
      BY <3>3, <3>4, <2>1, <1>1 DEF Settled, Shown, OrderAt, lists
  <2>6. CASE s \notin {"both", side} /\ ~Settled(side)
    <3>1. PICK k \in DOMAIN todo : CopiesTo(todo[k], side)
      BY <2>6 DEF IInv, CopySound, Sides
    <3>2. k # 1
      BY <3>1, <1>6, <2>6, CopyParts
    <3>3. k - 1 \in DOMAIN todo' /\ todo'[k - 1] = todo[k]
      BY <3>2, <1>6
    <3> QED
      BY <3>1, <3>3
  <2> QED
    BY <2>4, <2>5, <2>6
<1> QED
  BY <1>1, <1>9, <1>10, <1>11, <1>12, <1>13 DEF IInv

\* What comparing the caches leads to: one copy or two, of what both stand for.
LEMMA CompareEffect ==
  ASSUME IInv, NEW s \in Sides, CompareCaches(s)
  PROVE  /\ UNCHANGED <<lists, server, n, forward, direct>> /\ todo # <<>>
         /\ todo[1] = Compare(s) /\ Head(todo) = todo[1]
         /\ \/ /\ todo' = <<CopyField("cache0", "both")>> /\ "cache1" \in sharers["cache0"]
            \/ todo' = <<CopyField("cache0", s), CopyField("cache1", Other(s))>>
<1>1. /\ todo # <<>> /\ Head(todo) = Compare(s) /\ UNCHANGED <<lists, server, n, forward, direct>>
      /\ \/ /\ todo' = <<CopyField("cache0", "both")>> /\ "cache1" \in sharers["cache0"]
         \/ todo' = <<CopyField("cache0", s), CopyField("cache1", Other(s))>>
  BY StepTypes DEF CompareCaches
<1>2. Head(todo) = todo[1]
  OBVIOUS
<1> QED
  BY <1>1, <1>2

\* Comparing the caches keeps the invariant: if they refer to the same memory they
\* show the same, so one copy of the first is right for both fields.
LEMMA CompareKeeps ==
  ASSUME IInv, NEW s \in Sides, CompareCaches(s)
  PROVE  IInv'
<1>1. /\ UNCHANGED <<lists, server, n, forward, direct>> /\ todo # <<>> /\ todo[1] = Compare(s)
      /\ \/ /\ todo' = <<CopyField("cache0", "both")>> /\ "cache1" \in sharers["cache0"]
         \/ todo' = <<CopyField("cache0", s), CopyField("cache1", Other(s))>>
  BY CompareEffect
<1>2. 1 \in DOMAIN todo
  <2>1. todo \in Seq(Steps)
    BY DEF IInv, TypeOK
  <2> HIDE DEF Steps
  <2> QED
    BY <1>1, <2>1
<1>3. /\ "cache0" \in Caches /\ "cache1" \in Caches /\ Other(s) \in Sides
      /\ s \in {"both"} \cup Sides /\ Other(s) \in {"both"} \cup Sides /\ "both" \in {"both"} \cup Sides
  BY OtherSide DEF Caches
<1>5. TypeOK' /\ CacheFresh' /\ LastSound' /\ SharersSound'
  <2>1. todo' \in Seq(Steps) /\ Len(todo') <= 3
    <3>1. /\ CopyField("cache0", "both") \in Steps /\ CopyField("cache0", s) \in Steps
          /\ CopyField("cache1", Other(s)) \in Steps
      BY <1>3, StepTypes
    <3>2. CASE todo' = <<CopyField("cache0", "both")>>
      BY <3>1, <3>2
    <3>3. CASE todo' = <<CopyField("cache0", s), CopyField("cache1", Other(s))>>
      BY <3>1, <3>3
    <3> QED
      BY <3>2, <3>3, <1>1
  <2>2. TypeOK'
    BY <2>1, <1>1 DEF IInv, TypeOK, lists, server, Frames
  <2>3. CacheFresh' /\ LastSound'
    BY <1>1, ListsStay DEF IInv, CacheFresh, LastSound, lists, server
  <2>4. SharersSound'
    BY <1>1 DEF IInv, SharersSound, server
  <2> QED
    BY <2>2, <2>3, <2>4
<1>6. ASSUME n # 0, ~direct, NEW side \in Sides
      PROVE  Stands(CopiesFrom(Compare(s), side), OrderAt(n)[side])
  <2>1. CopiesTo(todo[1], side)
    BY <1>1, CopyParts
  <2>2. Fetched(1, side)
    BY <1>2, <1>6, <2>1 DEF IInv, CopySound
  <2>3. \A j \in DOMAIN todo : ~(j < 1)
    BY DEF IInv, TypeOK
  <2> QED
    BY <1>1, <2>2, <2>3 DEF Fetched
<1>7. ASSUME NEW c, NEW side \in Sides, Stands(c, OrderAt(n)[side]) PROVE Stands(c, OrderAt(n)[side])'
  BY <1>1, <1>7 DEF lists, server, Stands, Shown, OrderAt
<1>8. TodoSound' /\ CopySound'
  <2> SUFFICES /\ TodoSound'
               /\ n # 0 /\ ~direct => \A side \in Sides :
                    /\ \A k \in DOMAIN todo' : CopiesTo(todo'[k], side) => Fetched(k, side)'
                    /\ \E k \in DOMAIN todo' : CopiesTo(todo'[k], side)
    BY <1>1 DEF IInv, CopySound, Sides, lists
  <2>1. CASE todo' = <<CopyField("cache0", "both")>> /\ "cache1" \in sharers["cache0"]
    <3>1. /\ DOMAIN todo' = {1} /\ Len(todo') = 1 /\ todo'[1] = CopyField("cache0", "both")
          /\ ~IsGet(todo'[1])
      BY <2>1, StepParts DEF IsGet
    <3>2. TodoSound'
      BY <3>1, <1>3 DEF TodoSound
    <3>3. ASSUME n # 0, ~direct, NEW side \in Sides
          PROVE  /\ \A k \in DOMAIN todo' : CopiesTo(todo'[k], side) => Fetched(k, side)'
                 /\ \E k \in DOMAIN todo' : CopiesTo(todo'[k], side)
      <4>1. CopiesTo(todo'[1], side) /\ CopiesFrom(todo'[1], side) = "cache0"
        BY <3>1, CopyParts
      <4>2. Stands("cache0", OrderAt(n)[s])
        BY <1>6, <3>3, CopyParts
      <4>3. Stands("cache0", OrderAt(n)[side])
        <5>1. CASE side = s
          BY <5>1, <4>2
        <5>2. CASE side = Other(s)
          <6>1. Stands("cache1", OrderAt(n)[side])
            BY <1>6, <3>3, <5>2, CopyParts
          <6>2. /\ content["cache0"] = Whole(Shown(frame_cache_numbers["cache0"]))
                /\ content["cache1"] = Whole(Shown(frame_cache_numbers["cache1"]))
            BY <6>1, <4>2, <1>3 DEF Stands, IInv, CacheFresh
          <6>3. content["cache0"] = content["cache1"]
            BY <2>1, <1>3, NoDecoder DEF IInv, SharersSound
          <6>4. Shown(frame_cache_numbers["cache0"]) = Shown(frame_cache_numbers["cache1"])
            <7>1. \A p : Whole(p).top = p
              BY DEF Whole
            <7> QED
              BY <7>1, <6>2, <6>3
          <6> QED
            BY <6>1, <6>4, <4>2 DEF Stands
        <5> QED
          BY <5>1, <5>2, OtherSide
      <4>4. Stands("cache0", OrderAt(n)[side])'
        BY <4>3, <1>7
      <4>5. Fetched(1, side)'
        BY <4>1, <4>4, <3>1 DEF Fetched
      <4> QED
        BY <4>1, <4>5, <3>1
    <3> QED
      BY <3>2, <3>3
  <2>2. CASE todo' = <<CopyField("cache0", s), CopyField("cache1", Other(s))>>
    <3>1. /\ DOMAIN todo' = {1, 2}
          /\ todo'[1] = CopyField("cache0", s) /\ todo'[2] = CopyField("cache1", Other(s))
          /\ ~IsGet(todo'[1]) /\ ~IsGet(todo'[2])
      BY <2>2, StepParts DEF IsGet
    <3>2. TodoSound'
      <4>1. ASSUME NEW k \in DOMAIN todo' PROVE \E c \in Caches, r \in Sides : todo'[k] = CopyField(c, r)
        <5>1. CASE k = 1
          BY <5>1, <3>1, <1>3
        <5>2. CASE k = 2
          BY <5>2, <3>1, <1>3
        <5> QED
          BY <5>1, <5>2, <3>1
      <4>2. \A k \in DOMAIN todo' : ~IsGet(todo'[k])
        BY <3>1
      <4> QED
        BY <4>1, <4>2, FieldSides DEF TodoSound
    <3>3. ASSUME n # 0, ~direct, NEW side \in Sides
          PROVE  /\ \A k \in DOMAIN todo' : CopiesTo(todo'[k], side) => Fetched(k, side)'
                 /\ \E k \in DOMAIN todo' : CopiesTo(todo'[k], side)
      <4>1. /\ CopiesTo(todo'[1], side) <=> side = s
            /\ CopiesTo(todo'[2], side) <=> side = Other(s)
            /\ CopiesFrom(todo'[1], side) = "cache0" /\ CopiesFrom(todo'[2], side) = "cache1"
        BY <3>1, <1>3, CopyParts DEF Sides
      <4>2. Stands(CopiesFrom(Compare(s), side), OrderAt(n)[side])'
        BY <1>6, <1>7, <3>3
      <4>3. side = s => Fetched(1, side)'
        BY <4>1, <4>2, <3>1, CopyParts DEF Fetched
      <4>4. side = Other(s) => Fetched(2, side)'
        BY <4>1, <4>2, <3>1, CopyParts DEF Fetched
      <4>5. side = s \/ side = Other(s)
        BY OtherSide
      <4> QED
        BY <4>1, <4>3, <4>4, <4>5, <3>1
    <3> QED
      BY <3>2, <3>3
  <2> QED
    BY <2>1, <2>2, <1>1
<1> QED
  BY <1>5, <1>8 DEF IInv

\* A step that changes nothing keeps the invariant.
LEMMA StutterKeeps ==
  ASSUME IInv, UNCHANGED vars
  PROVE  IInv'
<1>1. UNCHANGED <<lists, server, n, todo, forward, direct>>
  BY DEF vars
<1>2. TypeOK'
  BY <1>1 DEF lists, server, IInv, TypeOK, Frames
<1>3. CacheFresh'
  BY <1>1, ListsStay DEF lists, server, IInv, CacheFresh
<1>4. LastSound'
  BY <1>1, ListsStay DEF server, IInv, LastSound
<1>5. ASSUME NEW b, NEW p PROVE GetSound(b, p)' <=> GetSound(b, p)
  BY <1>1, ListsStay DEF server, GetSound, Filed
<1>6. TodoSound'
  BY <1>1, <1>5 DEF IInv, TodoSound
<1>7. ASSUME NEW side \in Sides
      PROVE  /\ Settled(side)' <=> Settled(side)
             /\ \A k : Fetched(k, side)' <=> Fetched(k, side)
  <2>1. Settled(side)' <=> Settled(side)
    BY <1>1 DEF lists, server, Settled, OrderAt, Shown
  <2>2. \A c, p : Stands(c, p)' <=> Stands(c, p)
    BY <1>1 DEF lists, server, Stands, Shown
  <2>3. todo' = todo /\ OrderAt(n)' = OrderAt(n)
    BY <1>1 DEF lists, OrderAt
  <2>4. ASSUME NEW k PROVE Fetched(k, side)' <=> Fetched(k, side)
    BY <2>2, <2>3 DEF Fetched
  <2> QED
    BY <2>1, <2>4
<1>8. CopySound'
  BY <1>1, <1>7 DEF lists, IInv, CopySound, Sides
<1>9. SharersSound'
  BY <1>1 DEF server, IInv, SharersSound
<1> QED
  BY <1>2, <1>3, <1>4, <1>6, <1>8, <1>9 DEF IInv

\* The steps of the repeat control, as the lemmas above take them.
LEMMA NextForms ==
  ASSUME [Next]_vars
  PROVE  \/ \E i \in Frames : Request(i)
         \/ \E b \in Buffers, p \in Pictures : SameAgain(b, p) \/ FirstValid(b, p) \/ Decode(b, p)
         \/ \E s \in Sides : CompareCaches(s)
         \/ \E c \in Caches, s \in {"both"} \cup Sides : Copies(c, s)
         \/ UNCHANGED vars
<1>1. ASSUME NEW c \in Caches, CopyWhole(c) PROVE Copies(c, "both") /\ "both" \in {"both"} \cup Sides
  BY <1>1 DEF Copies
<1>2. ASSUME NEW c \in Caches, NEW s \in Sides, MakeWritable(c, s) \/ WriteField(c, s)
      PROVE  Copies(c, s) /\ s \in {"both"} \cup Sides
  BY <1>2 DEF Copies
<1> QED
  BY <1>1, <1>2 DEF Next

(***************************************************************************)
(* The theorems                                                            *)
(***************************************************************************)
\* Every reachable state of the repeat control satisfies the strengthened invariant.
THEOREM Invariant == Spec => []IInv
<1>1. Init => IInv
  BY InitSound
<1>2. IInv /\ [Next]_vars => IInv'
  <2> SUFFICES ASSUME IInv, [Next]_vars PROVE IInv'
    OBVIOUS
  <2>1. ASSUME NEW i \in Frames, Request(i) PROVE IInv'
    BY <2>1, RequestSound
  <2>2. ASSUME NEW b \in Buffers, NEW p \in Pictures,
               SameAgain(b, p) \/ FirstValid(b, p) \/ Decode(b, p)
        PROVE  IInv'
    BY <2>2, GetKeeps
  <2>3. ASSUME NEW s \in Sides, CompareCaches(s) PROVE IInv'
    BY <2>3, CompareKeeps
  <2>4. ASSUME NEW c \in Caches, NEW s \in {"both"} \cup Sides, Copies(c, s) PROVE IInv'
    BY <2>4, CopyKeeps
  <2>5. CASE UNCHANGED vars
    BY <2>5, StutterKeeps
  <2> QED
    BY <2>1, <2>2, <2>3, <2>4, <2>5, NextForms
<1> QED
  BY <1>1, <1>2, PTL DEF Spec

\* The variables have their types, and a request is planned in at most three steps.
THEOREM TypeCorrect == Spec => []TypeOK
<1>1. IInv => TypeOK
  BY DEF IInv
<1> QED
  BY <1>1, Invariant, PTL

\* A cache frame_cache_numbers files under a picture holds that picture, and no
\* picture is in both caches.
THEOREM CachesFresh == Spec => []CacheFresh
<1>1. IInv => CacheFresh
  BY DEF IInv
<1> QED
  BY <1>1, Invariant, PTL

\* A frame lwlibav_repeat_control assembles from its caches has the two fields the
\* order list gives it, in whatever order the frames are requested.
THEOREM CachedFramesRight == Spec => []CachedRight
<1>1. IInv => CachedRight
  <2> SUFFICES ASSUME IInv, n # 0, todo = <<>>, ~direct PROVE content["frame"] = Wanted(n)
    BY DEF CachedRight, Ready
  <2>1. /\ content["frame"].top = Shown(OrderAt(n).top)
        /\ content["frame"].bottom = Shown(OrderAt(n).bottom)
    BY DEF IInv, CopySound, Settled, Sides
  <2>2. order # <<>> /\ n \in DOMAIN order
    BY DEF IInv, CopySound, TypeOK, Frames
  <2>3. content["frame"] \in [top : 0..P, bottom : 0..P]
    BY NoDecoder DEF IInv, TypeOK
  <2>4. Wanted(n) = [top |-> Shown(OrderAt(n).top), bottom |-> Shown(OrderAt(n).bottom)]
    BY <2>2 DEF Wanted, OrderAt
  <2> QED
    BY <2>1, <2>3, <2>4
<1> QED
  BY <1>1, Invariant, PTL

(***************************************************************************)
(* Playing forward: the pictures that go straight to the output buffer     *)
(***************************************************************************)
ForFrame(i, p) == IF order = <<>> THEN i = p ELSE p \in FieldsOf(i)
Sole(i) == IF order = <<>> THEN i ELSE OrderAt(i).top

\* Only without repeat control, and for a frame that is one picture no cache has, a
\* request goes past the caches.
DirectSound == direct =>
  /\ n \in Frames
  /\ order # <<>> => OrderAt(n).top = OrderAt(n).bottom
  /\ \/ todo = <<>>
     \/ todo = <<Get("frame", Sole(n))>> /\ (order # <<>> => Filed(Sole(n)) = {})

\* The picture that went there last belongs to no frame to come but perhaps the one
\* asked for now, and that one has it still.
LastLeft == forward /\ last_frame_number \in Pictures /\ last_req_frame = "frame" =>
  \A j \in Frames : ForFrame(j, last_frame_number) =>
    j <= n /\ (n = j /\ direct => content["frame"] = Whole(Shown(last_frame_number)))

DirectRight == forward /\ direct /\ todo = <<>> => content["frame"] = Wanted(n)

NoCaches == order = <<>> => last_req_frame \notin Caches

ForwardInv == DirectSound /\ LastLeft /\ DirectRight /\ NoCaches

\* Frames are numbered; without repeat control every number is a picture.
LEMMA FrameNumbers ==
  ASSUME TypeOK
  PROVE  /\ \A i \in Frames : i \in Int /\ i # 0
         /\ order = <<>> => Frames = Pictures
         /\ order # <<>> => Frames = DOMAIN order /\ Covers(order)
<1>1. order # <<>> => Covers(order) /\ DOMAIN order = 1..Len(order)
  BY DEF TypeOK, Covers
<1> QED
  BY <1>1, VideoAssumption DEF Frames, Pictures

\* What frame i is to be, when it is one picture.
LEMMA SoleWanted ==
  ASSUME NEW i \in Frames, order # <<>> => OrderAt(i).top = OrderAt(i).bottom
  PROVE  Wanted(i) = Whole(Shown(Sole(i)))
<1>1. CASE order = <<>>
  BY <1>1 DEF Wanted, Sole
<1>2. CASE order # <<>>
  <2>1. OrderAt(i) = order[i]
    BY <1>2 DEF Frames, OrderAt
  <2> QED
    BY <1>2, <2>1 DEF Wanted, Sole, Whole
<1> QED
  BY <1>1, <1>2

\* What a request that goes past the caches is.
LEMMA DirectForm ==
  ASSUME IInv, NEW i \in Frames, Request(i), direct'
  PROVE  DirectSound'
<1>1. UNCHANGED <<lists, server>> /\ n' = i /\ todo' = Plan(i) /\ Frames' = Frames
  BY DEF Request, lists, Frames
<1>2. CASE order = <<>>
  <2>1. Sole(n)' = i /\ order' = <<>>
    BY <1>1, <1>2 DEF Sole, lists
  <2> QED
    BY <1>1, <1>2, <2>1 DEF Plan, DirectSound
<1>3. CASE order # <<>>
  <2>1. /\ Plan(i) = <<Get("frame", OrderAt(i).top)>> /\ i \in DOMAIN order
        /\ Covers(order) /\ CacheFresh
    BY <1>3, FrameNumbers DEF Request, IInv
  <2>2. Len(Plan(i)) = 1 /\ Plan(i)[1].op = "get" /\ Plan(i)[1].buffer = "frame"
    BY <2>1 DEF Get
  <2>3. GetIt(i)
    <3>1. ~CopyIt(i)
      BY <2>2 DEF CopyIt, CopyFrame
    <3>2. ~GetAndCopyIt(i) /\ ~GetBoth(i) /\ ~CopyBoth(i) /\ ~GetOne(i)
      BY <2>2 DEF GetAndCopyIt, GetBoth, CopyBoth, GetOne
    <3> QED
      BY <3>1, <3>2, <2>1, <1>3, PlanForms
  <2>4. OrderAt(i).top = OrderAt(i).bottom
    BY <2>3 DEF GetIt
  <2>5. Filed(OrderAt(i).top) = {}
    <3> SUFFICES ASSUME Filed(OrderAt(i).top) # {} PROVE FALSE
      OBVIOUS
    <3>1. PICK c \in Caches : Plan(i) = <<CopyFrame(c)>>
      BY <2>4, <1>3 DEF Plan, WholeFrame, Filed
    <3> QED
      BY <3>1, <2>2 DEF CopyFrame
  <2>6. OrderAt(n)' = OrderAt(i) /\ order' = order /\ \A p : Filed(p)' = Filed(p)
    BY <1>1, ListsStay DEF lists, server, Filed
  <2> QED
    BY <1>1, <1>3, <2>1, <2>4, <2>5, <2>6 DEF DirectSound, Sole
<1> QED
  BY <1>2, <1>3

\* A request keeps it: a frame that is asked for again is there still.
LEMMA RequestForward ==
  ASSUME IInv, ForwardInv, NEW i \in Frames, Request(i)
  PROVE  ForwardInv'
<1>1. /\ UNCHANGED <<lists, server>> /\ n' = i /\ todo' = Plan(i) /\ Frames' = Frames
      /\ todo = <<>> /\ forward' = (forward /\ n <= i)
  BY DEF Request, lists, Frames
<1>2. DirectSound'
  BY <1>1, DirectForm DEF DirectSound
<1>3. NoCaches'
  BY <1>1 DEF ForwardInv, NoCaches, lists, server
<1>4. /\ \A j, p : ForFrame(j, p)' <=> ForFrame(j, p)
      /\ \A p : Shown(p)' = Shown(p)
      /\ UNCHANGED <<last_frame_number, last_req_frame>> /\ content' = content /\ order' = order
  BY <1>1, ListsStay DEF ForFrame, FieldsOf, lists, server
<1>5. LastLeft'
  <2> SUFFICES ASSUME forward', last_frame_number \in Pictures, last_req_frame = "frame",
                      NEW j \in Frames, ForFrame(j, last_frame_number)
               PROVE  /\ j <= i
                      /\ i = j /\ direct' => content["frame"] = Whole(Shown(last_frame_number))
    BY <1>1, <1>4 DEF LastLeft
  <2>1. /\ j <= n /\ n <= i /\ forward
        /\ n = j /\ direct => content["frame"] = Whole(Shown(last_frame_number))
    BY <1>1 DEF ForwardInv, LastLeft
  <2>2. n \in Int /\ i \in Int /\ j \in Int /\ \A k \in Frames : k # 0
    BY FrameNumbers DEF IInv, TypeOK
  <2>3. ASSUME i = j, direct', ~direct PROVE content["frame"] = Whole(Shown(last_frame_number))
    <3>1. n = i /\ n # 0
      BY <2>1, <2>2, <2>3
    <3>2. /\ content["frame"].top = Shown(OrderAt(n).top) /\ content["frame"].bottom = Shown(OrderAt(n).bottom)
          /\ order # <<>>
      BY <3>1, <2>3, <1>1 DEF IInv, CopySound, Settled, Sides
    <3>3. OrderAt(i).top = OrderAt(i).bottom
      BY <1>1, <1>2, <1>4, <2>3, <3>2, ListsStay DEF DirectSound
    <3>4. last_frame_number = OrderAt(i).top
      BY <2>3, <3>2, <3>3 DEF ForFrame, FieldsOf
    <3>5. content["frame"] \in [top : 0..P, bottom : 0..P]
      BY NoDecoder DEF IInv, TypeOK
    <3> QED
      BY <3>1, <3>2, <3>3, <3>4, <3>5 DEF Whole
  <2> QED
    BY <2>1, <2>2, <2>3
<1>6. DirectRight'
  <2> SUFFICES ASSUME forward', direct', todo' = <<>> PROVE content["frame"] = Wanted(i)'
    BY <1>1, <1>4 DEF DirectRight
  <2>1. order = <<>>
    <3>1. order = <<>> \/ Plan(i) = <<Get("frame", OrderAt(i).top)>>
      BY DEF Request
    <3>2. Plan(i) # <<Get("frame", OrderAt(i).top)>>
      <4> DEFINE g == Get("frame", OrderAt(i).top)
      <4>1. Plan(i) = <<>>
        BY <1>1
      <4> HIDE DEF g
      <4>2. <<>> # <<g>>
        OBVIOUS
      <4> QED
        BY <4>1, <4>2 DEF g
    <3> QED
      BY <3>1, <3>2
  <2>2. i = last_frame_number
    BY <2>1, <1>1 DEF Plan
  <2>3. i \in Pictures /\ 0 \notin Pictures
    BY <2>1 DEF Frames, Pictures
  <2>4. last_req_frame = "frame"
    BY <2>1, <2>2, <2>3 DEF IInv, LastSound, ForwardInv, NoCaches
  <2>5. content["frame"] = Whole(Shown(i))
    BY <1>1, <1>4, <1>5, <2>1, <2>2, <2>3, <2>4 DEF LastLeft, ForFrame
  <2> QED
    BY <2>1, <2>5, <1>4 DEF Wanted
<1> QED
  BY <1>2, <1>3, <1>5, <1>6 DEF ForwardInv
\* A lone picture is in one frame.
LEMMA LoneOnce ==
  ASSUME Covers(order), NEW i \in DOMAIN order, NEW j \in DOMAIN order, NEW p,
         Lone(p), p \in FieldsOf(i), p \in FieldsOf(j)
  PROVE  i = j
<1>1. FieldsOf(i) = {p} /\ ~Shared(i)
  BY DEF Lone
<1>2. OrderAt(i).top = p /\ OrderAt(i).bottom = p
  BY <1>1 DEF FieldsOf
<1> QED
  BY <1>1, <1>2, OneFrame

\* Fetching a picture keeps it: what arrives in the output buffer is what the frame
\* asked for is to be, and no later frame asks for it.
LEMMA GetForward ==
  ASSUME IInv, ForwardInv, NEW b \in Buffers, NEW p \in Pictures,
         SameAgain(b, p) \/ FirstValid(b, p) \/ Decode(b, p)
  PROVE  ForwardInv'
<1>1. /\ todo # <<>> /\ todo[1] = Get(b, p) /\ GetSound(b, p)
      /\ todo' = Tail(todo) /\ UNCHANGED <<lists, n, forward, direct>>
      /\ last_req_frame' = b /\ last_frame_number' \in {p, P + 1}
      /\ frame_cache_numbers' = [c \in Caches |-> IF c = b THEN p ELSE frame_cache_numbers[c]]
  BY GetEffect
<1>2. /\ \A j, q : ForFrame(j, q)' <=> ForFrame(j, q)
      /\ \A q : Shown(q)' = Shown(q)
      /\ Frames' = Frames /\ order' = order /\ OrderAt(n)' = OrderAt(n)
  BY <1>1, ListsStay DEF ForFrame, FieldsOf, lists, Frames
<1>3. CASE b \in Caches
  <2>1. b # "frame"
    BY <1>3 DEF Caches
  <2>2. ~direct
    <3> SUFFICES ASSUME direct PROVE FALSE
      OBVIOUS
    <3>1. todo[1] = Get("frame", Sole(n))
      BY <1>1 DEF ForwardInv, DirectSound
    <3> QED
      BY <3>1, <1>1, <2>1, StepParts
  <2>3. order # <<>>
    <3> SUFFICES ASSUME order = <<>> PROVE FALSE
      OBVIOUS
    <3>1. Lone(p)
      BY DEF Lone
    <3> QED
      BY <3>1, <2>1, <1>1 DEF GetSound
  <2> QED
    BY <1>1, <1>2, <2>1, <2>2, <2>3 DEF ForwardInv, DirectSound, LastLeft, DirectRight, NoCaches
<1>4. CASE b = "frame"
  <2>1. direct /\ Lone(p)
    BY <1>1, <1>4 DEF GetSound
  <2>2. /\ n \in Frames /\ todo = <<Get("frame", Sole(n))>>
        /\ order # <<>> => OrderAt(n).top = OrderAt(n).bottom
    BY <1>1, <2>1 DEF ForwardInv, DirectSound
  <2>3. p = Sole(n) /\ todo' = <<>> /\ Sole(n)' = Sole(n)
    <3>1. todo[1].picture = Sole(n) /\ Tail(todo) = <<>>
      BY <2>2, StepParts
    <3> QED
      BY <3>1, <1>1, <1>2, StepParts DEF Sole
  <2>4. ForFrame(n, p) /\ \A j \in Frames : ForFrame(j, p) => j = n
    <3>1. CASE order = <<>>
      BY <3>1, <2>3 DEF ForFrame, Sole
    <3>2. CASE order # <<>>
      <4>1. Covers(order) /\ Frames = DOMAIN order
        BY <3>2, FrameNumbers DEF IInv
      <4>2. p \in FieldsOf(n)
        BY <3>2, <2>3 DEF Sole, FieldsOf
      <4> QED
        BY <3>2, <4>1, <4>2, <2>1, <2>2, LoneOnce DEF ForFrame
    <3> QED
      BY <3>1, <3>2
  <2>5. ASSUME forward PROVE content'["frame"] = Whole(Shown(p))
    <3>1. content \in [Owners -> [top : 0..P, bottom : 0..P]] /\ "frame" \in Owners
      BY NoDecoder DEF IInv, TypeOK
    <3>2. CASE SameAgain(b, p)
      <4>1. p = last_frame_number /\ content' = [content EXCEPT ![b] = content[last_req_frame]]
        <5>1. /\ p = last_frame_number
              /\ \/ b = last_req_frame /\ content' = [content EXCEPT ![b] = content[b]]
                 \/ b # last_req_frame /\ content' = [content EXCEPT ![b] = content[last_req_frame]]
          BY <3>2 DEF SameAgain, Receive
        <5> QED
          BY <5>1
      <4>2. CASE last_req_frame = "frame"
        BY <4>1, <4>2, <3>1, <1>4, <2>1, <2>2, <2>4, <2>5 DEF ForwardInv, LastLeft
      <4>3. CASE last_req_frame # "frame"
        <5>1. last_req_frame \in Caches /\ frame_cache_numbers[last_req_frame] = p /\ p # 0
          BY <4>1, <4>3 DEF IInv, LastSound, Pictures
        <5>2. content[last_req_frame] = Whole(Shown(p))
          BY <5>1 DEF IInv, CacheFresh
        <5> QED
          BY <5>2, <4>1, <3>1, <1>4
      <4> QED
        BY <4>2, <4>3
    <3>3. CASE FirstValid(b, p)
      <4>1. content' = [content EXCEPT ![b] = content["valid"]] /\ p < first_valid
        BY <3>3 DEF FirstValid, Receive
      <4>2. first_valid # 1
        BY <4>1, VideoAssumption DEF IInv, TypeOK, Pictures
      <4> QED
        BY <4>1, <4>2, <3>1, <1>4 DEF IInv, CacheFresh, Shown
    <3>4. CASE Decode(b, p)
      <4>1. content' = [content EXCEPT ![b] = Whole(p)] /\ p >= first_valid
        BY <3>4 DEF Decode, Receive
      <4>2. p \in Int /\ first_valid \in Int
        BY VideoAssumption DEF IInv, TypeOK, Pictures
      <4> QED
        BY <4>1, <4>2, <3>1, <1>4 DEF Shown
    <3> QED
      BY <3>2, <3>3, <3>4
  <2>6. DirectSound'
    BY <1>1, <1>2, <2>2, <2>3 DEF DirectSound
  <2>7. LastLeft'
    <3>1. n \in Int
      BY <2>2, FrameNumbers DEF IInv
    <3>2. P + 1 \notin Pictures
      BY VideoAssumption DEF Pictures
    <3> QED
      BY <1>1, <1>2, <2>4, <2>5, <3>1, <3>2 DEF LastLeft
  <2>8. DirectRight'
    <3>1. Wanted(n)' = Wanted(n)
      BY <1>1, <1>2 DEF Wanted
    <3>2. Wanted(n) = Whole(Shown(p))
      BY <2>2, <2>3, SoleWanted
    <3> QED
      BY <3>1, <3>2, <1>1, <2>5 DEF DirectRight
  <2>9. NoCaches'
    BY <1>1, <1>4 DEF NoCaches, Caches
  <2> QED
    BY <2>6, <2>7, <2>8, <2>9 DEF ForwardInv
<1> QED
  BY <1>3, <1>4 DEF Buffers

\* Copying keeps it: a request that copies does not go past the caches.
LEMMA CopyForward ==
  ASSUME IInv, ForwardInv, NEW c \in Caches, NEW s \in {"both"} \cup Sides, Copies(c, s)
  PROVE  ForwardInv'
<1>1. /\ todo # <<>> /\ Head(todo) = CopyField(c, s)
      /\ UNCHANGED <<lists, last_req_frame, last_frame_number, frame_cache_numbers, n, forward, direct>>
  BY CopyEffect
<1>2. ~direct
  <2> SUFFICES ASSUME direct PROVE FALSE
    OBVIOUS
  <2>1. Head(todo) = Get("frame", Sole(n))
    BY <1>1 DEF ForwardInv, DirectSound
  <2> QED
    BY <2>1, <1>1 DEF Get, CopyField
<1>3. /\ \A j, q : ForFrame(j, q)' <=> ForFrame(j, q)
      /\ Frames' = Frames /\ order' = order
  BY <1>1, ListsStay DEF ForFrame, FieldsOf, lists, Frames
<1> QED
  BY <1>1, <1>2, <1>3 DEF ForwardInv, DirectSound, LastLeft, DirectRight, NoCaches

\* So does comparing the caches.
LEMMA CompareForward ==
  ASSUME IInv, ForwardInv, NEW s \in Sides, CompareCaches(s)
  PROVE  ForwardInv'
<1>1. /\ todo # <<>> /\ todo[1] = Compare(s)
      /\ UNCHANGED <<lists, server, n, forward, direct>>
  BY CompareEffect
<1>2. ~direct
  <2> SUFFICES ASSUME direct PROVE FALSE
    OBVIOUS
  <2>1. todo[1] = Get("frame", Sole(n))
    BY <1>1 DEF ForwardInv, DirectSound
  <2> QED
    BY <2>1, <1>1 DEF Get, Compare
<1>3. /\ \A j, q : ForFrame(j, q)' <=> ForFrame(j, q)
      /\ Frames' = Frames /\ order' = order
  BY <1>1, ListsStay DEF ForFrame, FieldsOf, lists, Frames
<1> QED
  BY <1>1, <1>2, <1>3 DEF ForwardInv, DirectSound, LastLeft, DirectRight, NoCaches, server

\* Every reachable state satisfies both invariants.
THEOREM ForwardInvariant == Spec => [](IInv /\ ForwardInv)
<1>1. Init => ForwardInv
  <2> SUFFICES ASSUME Init PROVE ForwardInv
    OBVIOUS
  <2>1. last_frame_number \notin Pictures
    BY VideoAssumption DEF Init, Pictures
  <2> QED
    BY <2>1 DEF Init, ForwardInv, DirectSound, LastLeft, DirectRight, NoCaches, Caches
<1>2. IInv /\ ForwardInv /\ [Next]_vars => ForwardInv'
  <2> SUFFICES ASSUME IInv, ForwardInv, [Next]_vars PROVE ForwardInv'
    OBVIOUS
  <2>1. ASSUME NEW i \in Frames, Request(i) PROVE ForwardInv'
    BY <2>1, RequestForward
  <2>2. ASSUME NEW b \in Buffers, NEW p \in Pictures,
               SameAgain(b, p) \/ FirstValid(b, p) \/ Decode(b, p)
        PROVE  ForwardInv'
    BY <2>2, GetForward
  <2>c. ASSUME NEW s \in Sides, CompareCaches(s) PROVE ForwardInv'
    BY <2>c, CompareForward
  <2>3. ASSUME NEW c \in Caches, NEW s \in {"both"} \cup Sides, Copies(c, s) PROVE ForwardInv'
    BY <2>3, CopyForward
  <2>4. CASE UNCHANGED vars
    <3>1. /\ \A j, q : ForFrame(j, q)' <=> ForFrame(j, q)
          /\ \A q : Shown(q)' = Shown(q) /\ Filed(q)' = Filed(q)
          /\ Frames' = Frames /\ OrderAt(n)' = OrderAt(n) /\ Wanted(n)' = Wanted(n) /\ Sole(n)' = Sole(n)
      BY <2>4 DEF vars, lists, server, ForFrame, FieldsOf, OrderAt, Shown, Filed, Frames, Wanted, Sole
    <3>2. UNCHANGED <<order, content, last_req_frame, last_frame_number, n, todo, forward, direct>>
      BY <2>4 DEF vars, lists, server
    <3>3. DirectSound' /\ NoCaches' /\ DirectRight'
      BY <3>1, <3>2 DEF ForwardInv, DirectSound, DirectRight, NoCaches
    <3>4. LastLeft'
      BY <3>1, <3>2 DEF ForwardInv, LastLeft
    <3> QED
      BY <3>3, <3>4 DEF ForwardInv
  <2> QED
    BY <2>1, <2>2, <2>c, <2>3, <2>4, NextForms
<1> QED
  BY <1>1, <1>2, Invariant, PTL DEF Spec

\* As long as the requests never go back every frame delivered is the one asked for:
\* from the caches or past them, frames asked for twice and frames skipped included.
THEOREM ForwardFramesRight == Spec => []ForwardRight
<1>1. IInv /\ ForwardInv /\ CachedRight => ForwardRight
  BY DEF ForwardInv, DirectRight, CachedRight, ForwardRight, Ready
<1> QED
  BY <1>1, ForwardInvariant, CachedFramesRight, PTL

(***************************************************************************)
(* Playing forward: the decoder never seeks back                           *)
(***************************************************************************)
OtherCache(c) == IF c = "cache0" THEN "cache1" ELSE "cache0"

\* A request fetches pictures of its own frame.
AskedFor == \A k \in DOMAIN todo : IsGet(todo[k]) => ForFrame(n, todo[k].picture)

\* What has been fetched belongs to the frames passed.
Past(p) == \E j \in Frames : j <= n /\ ForFrame(j, p)
PastOnly == forward =>
  /\ \A c \in Caches : frame_cache_numbers[c] # 0 => Past(frame_cache_numbers[c])
  /\ last_frame_number \in Pictures => Past(last_frame_number)

\* A picture before the last one that a frame to come still needs is in a cache.
Kept == forward /\ Near /\ last_frame_number \in Pictures =>
  \A j \in DOMAIN order : \A p \in FieldsOf(j) :
    n <= j /\ p < last_frame_number => Filed(p) # {}

\* When the later picture of a frame is fetched into one cache, the earlier is in the
\* other by then.
Paired(k, c, p) ==
  \/ \E l \in DOMAIN todo : l < k /\ todo[l] = Get(OtherCache(c), p)
  \/ /\ frame_cache_numbers[OtherCache(c)] = p
     /\ \A l \in DOMAIN todo : IsGet(todo[l]) => todo[l].buffer # OtherCache(c)
PairTodo == forward /\ Near =>
  \A k \in DOMAIN todo, c \in Caches, q \in Pictures :
    todo[k] = Get(c, q) /\ q - 1 \in FieldsOf(n) => Paired(k, c, q - 1)

OnwardInv == AskedFor /\ PastOnly /\ Kept /\ PairTodo

\* What these speak of does not change with the caches and the buffers.
LEMMA FramesStay ==
  ASSUME UNCHANGED lists
  PROVE  /\ \A j, p : ForFrame(j, p)' <=> ForFrame(j, p)
         /\ \A j : FieldsOf(j)' = FieldsOf(j)
         /\ Near' <=> Near
         /\ Frames' = Frames /\ order' = order
  BY DEF lists, ForFrame, FieldsOf, OrderAt, Near, Frames

\* A picture passed that a frame to come needs, and one after it that is needed now,
\* are the two pictures of the frame asked for.
LEMMA PairOnly ==
  ASSUME Covers(order), Near, NEW i \in DOMAIN order, NEW j \in DOMAIN order, i <= j,
         NEW p \in FieldsOf(i), NEW r \in FieldsOf(j), r < p
  PROVE  r = p - 1 /\ r \in FieldsOf(i)
<1>1. /\ OrderAt(i).top <= OrderAt(j).top /\ OrderAt(i).bottom <= OrderAt(j).bottom
      /\ OrderAt(i).top \in Int /\ OrderAt(i).bottom \in Int
      /\ OrderAt(j).top \in Int /\ OrderAt(j).bottom \in Int
  BY FieldsRise
<1>2. OrderAt(i).top - OrderAt(i).bottom \in -1..1 /\ OrderAt(j).top - OrderAt(j).bottom \in -1..1
  BY FieldsArePictures DEF Near
<1>3. CASE p = OrderAt(i).top
  BY <1>1, <1>2, <1>3 DEF FieldsOf
<1>4. CASE p = OrderAt(i).bottom
  BY <1>1, <1>2, <1>4 DEF FieldsOf
<1> QED
  BY <1>3, <1>4 DEF FieldsOf

\* A picture that has been passed is not after the later field of a frame to come.
LEMMA PastBefore ==
  ASSUME Covers(order), NEW i \in DOMAIN order, NEW j \in DOMAIN order, j <= i,
         NEW p \in FieldsOf(j)
  PROVE  \E q \in FieldsOf(i) : p <= q
  BY FieldsRise DEF FieldsOf

\* The cache that is given up for the later field of a frame is the other one than
\* the cache that has the earlier field.
LEMMA VictimIsOther ==
  ASSUME CacheFresh, TypeOK, NEW c \in Caches, NEW q \in Pictures, q - 1 \in Pictures,
         frame_cache_numbers[c] = q - 1, Filed(q) = {},
         \A d \in Caches : frame_cache_numbers[d] <= q
  PROVE  OtherCache(Victim) = c
<1>1. /\ frame_cache_numbers["cache0"] \in Int /\ frame_cache_numbers["cache1"] \in Int
      /\ q \in Int /\ q - 1 # 0
  BY VideoAssumption DEF TypeOK, Caches, Pictures
<1>2. frame_cache_numbers["cache0"] # q /\ frame_cache_numbers["cache1"] # q
  BY DEF Filed, Caches
<1>3. frame_cache_numbers["cache0"] # frame_cache_numbers["cache1"]
  BY <1>1 DEF CacheFresh, Caches
<1> QED
  BY <1>1, <1>2, <1>3 DEF Victim, OtherCache, Caches
\* What a request over an order list fetches: pictures of its frame, and the later of
\* two pictures into the cache that the earlier is not in.
LEMMA PlanPairs ==
  ASSUME IInv, OnwardInv, NEW i \in DOMAIN order, order # <<>>, Request(i)
  PROVE  /\ \A k \in DOMAIN todo' : IsGet(todo'[k]) => todo'[k].picture \in FieldsOf(i)
         /\ (forward /\ n <= i /\ Near) =>
              \A k \in DOMAIN todo', c \in Caches, q \in Pictures :
                todo'[k] = Get(c, q) /\ q - 1 \in FieldsOf(i) => Paired(k, c, q - 1)'
<1>0. /\ todo' = Plan(i) /\ n' = i /\ frame_cache_numbers' = frame_cache_numbers
      /\ Covers(order) /\ CacheFresh /\ TypeOK
  BY FrameNumbers DEF Request, IInv, server
<1>a. \A s \in Sides : OrderAt(i)[s] \in FieldsOf(i) /\ OrderAt(i)[s] \in Pictures
  BY <1>0, FieldsArePictures DEF FieldsOf, Sides
<1>b. \A c, q, d, p : Get(c, q) = Get(d, p) => c = d /\ q = p
  BY DEF Get
<1>c. \A c, q, d, s : Get(c, q) # CopyField(d, s)
  BY DEF Get, CopyField
<1>d. \A c, q : IsGet(Get(c, q)) /\ Get(c, q).picture = q /\ Get(c, q).buffer = c
  BY DEF IsGet, Get
<1>e. \A d, s : ~IsGet(CopyField(d, s))
  BY DEF IsGet, CopyField
<1>f. \A q \in Pictures : q \in Int /\ q - 1 # q
  BY VideoAssumption DEF Pictures
<1>g. \A c, q, s : Get(c, q) # Compare(s) /\ ~IsGet(Compare(s))
  BY DEF Get, Compare, IsGet
<1>1. CASE CopyIt(i)
  <2>1. PICK c \in Caches : todo' = <<CopyField(c, "both")>>
    BY <1>0, <1>1, StepTypes DEF CopyIt
  <2> QED
    BY <2>1, <1>c, <1>e
<1>2. CASE GetIt(i)
  <2>1. todo' = <<Get("frame", OrderAt(i).top)>> /\ "frame" \notin Caches
    BY <1>0, <1>2 DEF GetIt, Caches
  <2>2. OrderAt(i).top \in FieldsOf(i)
    BY DEF FieldsOf
  <2> QED
    BY <2>1, <2>2, <1>b, <1>d
<1>3. CASE GetAndCopyIt(i)
  <2>1. PICK d \in Caches : /\ OrderAt(i).top = OrderAt(i).bottom
                            /\ todo' = <<Get(d, OrderAt(i).top), CopyField(d, "both")>>
    BY <1>0, <1>3, StepTypes DEF GetAndCopyIt
  <2>2. FieldsOf(i) = {OrderAt(i).top} /\ OrderAt(i).top \in Pictures
    BY <2>1, <1>a DEF FieldsOf, Sides
  <2>3. DOMAIN todo' = {1, 2} /\ todo'[1] = Get(d, OrderAt(i).top) /\ todo'[2] = CopyField(d, "both")
    BY <2>1
  <2>4. ASSUME NEW k \in DOMAIN todo', NEW c \in Caches, NEW q \in Pictures,
               todo'[k] = Get(c, q), q - 1 \in FieldsOf(i)
        PROVE  FALSE
    <3>1. k = 1
      BY <2>3, <2>4, <1>c
    <3>2. q = OrderAt(i).top
      BY <3>1, <2>3, <2>4, <1>b
    <3> QED
      BY <3>2, <2>2, <2>4, <1>f
  <2>5. ASSUME NEW k \in DOMAIN todo', IsGet(todo'[k]) PROVE todo'[k].picture \in FieldsOf(i)
    BY <2>2, <2>3, <2>5, <1>d, <1>e
  <2> QED
    BY <2>4, <2>5
<1>4. CASE GetBoth(i)
  <2>1. PICK s \in Sides :
          /\ OrderAt(i)[s] < OrderAt(i)[Other(s)]
          /\ todo' = <<Get("cache0", OrderAt(i)[s]), Get("cache1", OrderAt(i)[Other(s)]), Compare(s)>>
    BY <1>0, <1>4 DEF GetBoth
  <2>a. PICK p, r : p = OrderAt(i)[s] /\ r = OrderAt(i)[Other(s)]
    OBVIOUS
  <2>2. /\ p \in Pictures /\ r \in Pictures /\ p < r /\ FieldsOf(i) = {p, r}
    BY <2>1, <2>a, <1>a, OtherSide DEF FieldsOf, Sides, Other
  <2>3. /\ DOMAIN todo' = {1, 2, 3}
        /\ todo'[1] = Get("cache0", p) /\ todo'[2] = Get("cache1", r) /\ todo'[3] = Compare(s)
    BY <2>1, <2>a
  <2>4. ASSUME NEW k \in DOMAIN todo', NEW c \in Caches, NEW q \in Pictures,
               todo'[k] = Get(c, q), q - 1 \in FieldsOf(i)
        PROVE  Paired(k, c, q - 1)'
    <3>1. (k = 1 /\ c = "cache0" /\ q = p) \/ (k = 2 /\ c = "cache1" /\ q = r)
      BY <2>3, <2>4, <1>b, <1>g
    <3>2. k = 2 /\ c = "cache1" /\ q - 1 = p
      BY <3>1, <2>2, <2>4, <1>f
    <3>3. 1 \in DOMAIN todo' /\ 1 < k /\ todo'[1] = Get(OtherCache(c), q - 1)
      BY <3>2, <2>3 DEF OtherCache
    <3> QED
      BY <3>3 DEF Paired
  <2>5. ASSUME NEW k \in DOMAIN todo', IsGet(todo'[k]) PROVE todo'[k].picture \in FieldsOf(i)
    BY <2>2, <2>3, <2>5, <1>d, <1>g
  <2> QED
    BY <2>4, <2>5
<1>5. CASE CopyBoth(i)
  <2>1. PICK s \in Sides : todo' = <<CopyField("cache0", s), CopyField("cache1", Other(s))>>
    BY <1>0, <1>5 DEF CopyBoth
  <2>2. DOMAIN todo' = {1, 2} /\ todo'[1] = CopyField("cache0", s) /\ todo'[2] = CopyField("cache1", Other(s))
    BY <2>1
  <2> QED
    BY <2>2, <1>c, <1>e
<1>6. CASE GetOne(i)
  <2>1. PICK s \in Sides, c0 \in Caches :
          /\ frame_cache_numbers[c0] = OrderAt(i)[s] /\ Filed(OrderAt(i)[Other(s)]) = {}
          /\ todo' = <<CopyField(c0, s), Get(Victim, OrderAt(i)[Other(s)]), CopyField(Victim, Other(s))>>
    BY <1>0, <1>6 DEF GetOne
  <2>a. PICK p, r : p = OrderAt(i)[s] /\ r = OrderAt(i)[Other(s)]
    OBVIOUS
  <2>2. /\ p \in Pictures /\ r \in Pictures /\ FieldsOf(i) = {p, r}
    BY <2>1, <2>a, <1>a, OtherSide DEF FieldsOf, Sides, Other
  <2>3. /\ DOMAIN todo' = {1, 2, 3}
        /\ todo'[1] = CopyField(c0, s) /\ todo'[2] = Get(Victim, r)
        /\ todo'[3] = CopyField(Victim, Other(s))
    BY <2>1, <2>a
  <2>4. ASSUME forward, n <= i, NEW k \in DOMAIN todo', NEW c \in Caches, NEW q \in Pictures,
               todo'[k] = Get(c, q), q - 1 \in FieldsOf(i)
        PROVE  Paired(k, c, q - 1)'
    <3>1. c = Victim /\ q = r
      BY <2>3, <2>4, <1>b, <1>c
    <3>2. q - 1 = p
      BY <3>1, <2>2, <2>4, <1>f
    <3>3. ASSUME NEW d \in Caches PROVE frame_cache_numbers[d] <= q
      <4>1. CASE frame_cache_numbers[d] = 0
        BY <4>1, VideoAssumption DEF Pictures
      <4>2. CASE frame_cache_numbers[d] # 0
        <5>1. PICK j \in Frames : j <= n /\ ForFrame(j, frame_cache_numbers[d])
          BY <4>2, <2>4 DEF OnwardInv, PastOnly, Past
        <5>2. j \in DOMAIN order /\ frame_cache_numbers[d] \in FieldsOf(j)
          BY <5>1, <1>0, FrameNumbers DEF ForFrame
        <5>3. n \in Int /\ i \in Int /\ j \in Int
          BY <5>1, <1>0, FrameNumbers DEF TypeOK, Frames
        <5>4. PICK x \in FieldsOf(i) : frame_cache_numbers[d] <= x
          BY <5>1, <5>2, <5>3, <2>4, <1>0, PastBefore
        <5>5. x <= q /\ x \in Int /\ frame_cache_numbers[d] \in Int
          BY <3>1, <3>2, <2>2, <1>0, <1>f, VideoAssumption DEF TypeOK
        <5> QED
          BY <5>4, <5>5, <1>f
      <4> QED
        BY <4>1, <4>2
    <3>4. OtherCache(Victim) = c0
      <4>1. frame_cache_numbers[c0] = q - 1 /\ Filed(q) = {} /\ q - 1 \in Pictures
        BY <2>1, <2>a, <2>2, <3>1, <3>2
      <4> QED
        BY <4>1, <3>3, <1>0, VictimIsOther
    <3>5. frame_cache_numbers'[OtherCache(c)] = q - 1
      BY <3>1, <3>2, <3>4, <2>1, <2>a, <1>0
    <3>6. Victim # OtherCache(Victim)
      BY DEF OtherCache, Victim
    <3>7. \A l \in DOMAIN todo' : IsGet(todo'[l]) => todo'[l].buffer # OtherCache(c)
      BY <2>3, <3>1, <3>6, <1>d, <1>e
    <3> QED
      BY <3>5, <3>7 DEF Paired
  <2>5. ASSUME NEW k \in DOMAIN todo', IsGet(todo'[k]) PROVE todo'[k].picture \in FieldsOf(i)
    BY <2>2, <2>3, <2>5, <1>d, <1>e
  <2> QED
    BY <2>4, <2>5
<1> QED
  BY <1>0, <1>1, <1>2, <1>3, <1>4, <1>5, <1>6, PlanForms

\* A request keeps it.
LEMMA RequestOnward ==
  ASSUME IInv, OnwardInv, NEW i \in Frames, Request(i)
  PROVE  OnwardInv'
<1>1. /\ UNCHANGED <<lists, server>> /\ n' = i /\ todo' = Plan(i) /\ forward' = (forward /\ n <= i)
  BY DEF Request
<1>2. /\ \A j, q : ForFrame(j, q)' <=> ForFrame(j, q)
      /\ \A j : FieldsOf(j)' = FieldsOf(j) /\ Filed(j)' = Filed(j)
      /\ (Near' <=> Near) /\ Frames' = Frames /\ order' = order
      /\ UNCHANGED <<last_frame_number, frame_cache_numbers>>
  BY <1>1, FramesStay DEF server, Filed
<1>3. i \in Int /\ n \in Int /\ \A j \in Frames : j \in Int
  BY FrameNumbers DEF IInv, TypeOK
<1>4. PastOnly'
  <2>1. ASSUME NEW p, Past(p), n <= i PROVE Past(p)'
    <3>1. PICK j \in Frames : j <= n /\ ForFrame(j, p)
      BY <2>1 DEF Past
    <3>2. j \in Frames' /\ j <= n' /\ ForFrame(j, p)'
      BY <3>1, <2>1, <1>1, <1>2, <1>3
    <3> QED
      BY <3>2 DEF Past
  <2> QED
    BY <2>1, <1>1, <1>2 DEF OnwardInv, PastOnly
<1>5. Kept'
  <2> SUFFICES ASSUME forward, n <= i, Near, last_frame_number \in Pictures, NEW j \in DOMAIN order,
                      NEW p \in FieldsOf(j), i <= j, p < last_frame_number
               PROVE  Filed(p) # {}
    BY <1>1, <1>2 DEF Kept
  <2>1. n <= j
    <3>1. j \in Int
      BY FrameNumbers, <1>3 DEF IInv, TypeOK, Covers, Frames
    <3> QED
      BY <3>1, <1>3
  <2> QED
    BY <2>1 DEF OnwardInv, Kept
<1>6. CASE order = <<>>
  <2>1. todo' = <<>> \/ todo' = <<Get("frame", i)>>
    BY <1>1, <1>6 DEF Plan
  <2>2. AskedFor'
    BY <2>1, <1>1, <1>2, <1>6 DEF AskedFor, ForFrame, Get
  <2>3. FieldsOf(i) = {0} /\ \A q \in Pictures, c \in Caches : todo' = <<Get("frame", i)>> => todo'[1] # Get(c, q)
    BY <1>6 DEF FieldsOf, OrderAt, Get, Caches
  <2>4. PairTodo'
    BY <2>1, <2>3, <1>1, <1>2 DEF PairTodo
  <2> QED
    BY <2>2, <2>4, <1>4, <1>5 DEF OnwardInv
<1>7. CASE order # <<>>
  <2>1. i \in DOMAIN order
    BY <1>7 DEF Frames
  <2>2. AskedFor' /\ PairTodo'
    BY <2>1, <1>1, <1>2, <1>7, PlanPairs DEF AskedFor, PairTodo, ForFrame
  <2> QED
    BY <2>2, <1>4, <1>5 DEF OnwardInv
<1> QED
  BY <1>6, <1>7
\* The steps that are left of a request keep their pairs when its first one is done.
LEMMA RestPaired ==
  ASSUME IInv, OnwardInv, todo # <<>>, todo' = Tail(todo),
         UNCHANGED <<lists, n, forward>>,
         \/ ~IsGet(todo[1]) /\ UNCHANGED frame_cache_numbers
         \/ /\ IsGet(todo[1])
            /\ frame_cache_numbers' = [c \in Caches |->
                 IF c = todo[1].buffer THEN todo[1].picture ELSE frame_cache_numbers[c]]
  PROVE  AskedFor' /\ PairTodo'
<1>1. /\ 1 \in DOMAIN todo
      /\ DOMAIN todo = 1..Len(todo) /\ Len(todo) \in Nat
      /\ \A k \in DOMAIN todo' : k \in Int /\ k + 1 \in DOMAIN todo /\ k + 1 # 1 /\ todo'[k] = todo[k + 1]
      /\ \A k \in DOMAIN todo : k # 1 => k - 1 \in DOMAIN todo' /\ todo'[k - 1] = todo[k]
  BY TailSteps DEF IInv, TypeOK
<1>2. /\ \A j, q : ForFrame(j, q)' <=> ForFrame(j, q)
      /\ \A j : FieldsOf(j)' = FieldsOf(j)
      /\ Near' <=> Near
  BY FramesStay
<1>3. AskedFor'
  BY <1>1, <1>2 DEF OnwardInv, AskedFor
<1>4. ASSUME forward, Near, NEW k \in DOMAIN todo', NEW c \in Caches, NEW q \in Pictures,
             todo'[k] = Get(c, q), q - 1 \in FieldsOf(n)
      PROVE  Paired(k, c, q - 1)'
  <2> DEFINE d == OtherCache(c)
  <2>0. d \in Caches
    BY DEF OtherCache, Caches
  <2>1. k \in Int /\ k + 1 \in DOMAIN todo /\ todo[k + 1] = Get(c, q)
    BY <1>1, <1>4
  <2>2. Paired(k + 1, c, q - 1)
    BY <2>1, <1>4 DEF OnwardInv, PairTodo
  <2> HIDE DEF d
  <2>3. CASE \E l \in DOMAIN todo : l < k + 1 /\ todo[l] = Get(d, q - 1)
    <3>1. PICK l \in DOMAIN todo : l < k + 1 /\ todo[l] = Get(d, q - 1)
      BY <2>3
    <3>2. CASE l = 1
      <4>1. IsGet(todo[1]) /\ todo[1].buffer = d /\ todo[1].picture = q - 1
        BY <3>1, <3>2 DEF IsGet, Get
      <4>2. frame_cache_numbers'[d] = q - 1
        BY <4>1, <2>0
      <4>3. ASSUME NEW m \in DOMAIN todo', IsGet(todo'[m]) PROVE todo'[m].buffer # d
        <5>1. m + 1 \in DOMAIN todo /\ m + 1 # 1 /\ todo'[m] = todo[m + 1]
          BY <1>1
        <5> QED
          BY <5>1, <4>1, <4>3, <1>1 DEF IInv, TodoSound
      <4> QED
        BY <4>2, <4>3 DEF Paired, d
    <3>3. CASE l # 1
      <4>1. l - 1 \in DOMAIN todo' /\ todo'[l - 1] = Get(d, q - 1) /\ l - 1 < k
        BY <3>1, <3>3, <1>1, <2>1
      <4> QED
        BY <4>1 DEF Paired, d
    <3> QED
      BY <3>2, <3>3
  <2>4. CASE /\ frame_cache_numbers[d] = q - 1
             /\ \A l \in DOMAIN todo : IsGet(todo[l]) => todo[l].buffer # d
    <3>1. frame_cache_numbers'[d] = q - 1
      BY <2>0, <2>4, <1>1
    <3>2. \A l \in DOMAIN todo' : IsGet(todo'[l]) => todo'[l].buffer # d
      BY <2>4, <1>1
    <3> QED
      BY <3>1, <3>2 DEF Paired, d
  <2> QED
    BY <2>2, <2>3, <2>4 DEF Paired, d
<1>5. PairTodo'
  BY <1>2, <1>4 DEF PairTodo
<1> QED
  BY <1>3, <1>5

\* The picture fetched is not before the last one, and fetching it keeps the invariant.
LEMMA GetOnward ==
  ASSUME IInv, DirectSound, OnwardInv, NEW b \in Buffers, NEW p \in Pictures,
         SameAgain(b, p) \/ FirstValid(b, p) \/ Decode(b, p)
  PROVE  /\ OnwardInv'
         /\ Near /\ forward /\ last_frame_number \in Pictures /\ last_frame_number' \in Pictures
              => last_frame_number <= last_frame_number'
<1>1. /\ todo # <<>> /\ todo[1] = Get(b, p) /\ GetSound(b, p)
      /\ todo' = Tail(todo) /\ UNCHANGED <<lists, n, forward, direct>>
      /\ last_req_frame' = b /\ last_frame_number' \in {p, P + 1}
      /\ frame_cache_numbers' = [c \in Caches |-> IF c = b THEN p ELSE frame_cache_numbers[c]]
  BY GetEffect
<1>2. /\ \A j, q : ForFrame(j, q)' <=> ForFrame(j, q)
      /\ \A j : FieldsOf(j)' = FieldsOf(j)
      /\ (Near' <=> Near) /\ Frames' = Frames /\ order' = order
  BY <1>1, FramesStay
<1>3. 1 \in DOMAIN todo /\ IsGet(todo[1]) /\ todo[1].buffer = b /\ todo[1].picture = p
  BY <1>1, TailSteps, StepParts DEF IInv, TypeOK, IsGet
<1>4. ForFrame(n, p)
  BY <1>3 DEF OnwardInv, AskedFor
<1>5. n \in Frames /\ n \in Int /\ p \in Int /\ P + 1 \notin Pictures /\ \A q \in Pictures : q \in Int
  <2>1. n # 0
    <3>1. 0 \notin Frames
      BY FrameNumbers DEF IInv
    <3>2. CASE order = <<>>
      BY <1>4, <3>2 DEF ForFrame, Pictures
    <3>3. CASE order # <<>>
      <4>1. n = 0 => FieldsOf(n) = {0}
        BY <3>1, <3>3 DEF FieldsOf, OrderAt, Frames
      <4> QED
        BY <4>1, <3>3, <1>4 DEF ForFrame, Pictures
    <3> QED
      BY <3>2, <3>3
  <2> QED
    BY <2>1, FrameNumbers, VideoAssumption DEF IInv, TypeOK, Pictures
<1>6. AskedFor' /\ PairTodo'
  BY <1>1, <1>3, RestPaired
<1>7. PastOnly'
  <2>1. \A q : Past(q) => Past(q)'
    BY <1>1, <1>2 DEF Past
  <2>2. Past(p)'
    BY <1>1, <1>2, <1>4, <1>5 DEF Past
  <2> QED
    BY <2>1, <2>2, <1>1, <1>5 DEF OnwardInv, PastOnly
<1>8. ASSUME Near, forward, last_frame_number \in Pictures PROVE last_frame_number <= p
  <2>1. CASE order = <<>>
    <3>1. PICK j \in Frames : j <= n /\ ForFrame(j, last_frame_number)
      BY <1>8 DEF OnwardInv, PastOnly, Past
    <3> QED
      BY <3>1, <2>1, <1>4, <1>8 DEF ForFrame
  <2>2. CASE order # <<>>
    <3>1. n \in DOMAIN order /\ p \in FieldsOf(n)
      BY <2>2, <1>4, <1>5 DEF ForFrame, Frames
    <3>2. Filed(p) = {}
      <4>1. CASE b = "frame"
        <5>1. direct /\ todo # <<>>
          BY <4>1, <1>1 DEF GetSound
        <5>2. todo[1] = Get("frame", Sole(n)) /\ Filed(Sole(n)) = {}
          BY <5>1, <2>2 DEF DirectSound
        <5>3. p = Sole(n)
          BY <5>2, <1>1, StepParts
        <5> QED
          BY <5>2, <5>3
      <4>2. CASE b # "frame"
        BY <4>2, <1>1 DEF GetSound
      <4> QED
        BY <4>1, <4>2
    <3>3. ~(p < last_frame_number)
      BY <3>1, <3>2, <1>5, <1>8 DEF OnwardInv, Kept
    <3> QED
      BY <3>3, <1>5, <1>8
  <2> QED
    BY <2>1, <2>2
<1>9. Kept'
  <2> SUFFICES ASSUME forward, Near, last_frame_number' \in Pictures, NEW j \in DOMAIN order,
                      NEW r \in FieldsOf(j), n <= j, r < last_frame_number'
               PROVE  Filed(r)' # {}
    BY <1>1, <1>2 DEF Kept
  <2>1. last_frame_number' = p /\ r < p
    BY <1>1, <1>5
  <2>2. order # <<>> /\ n \in DOMAIN order /\ p \in FieldsOf(n) /\ Covers(order)
    BY <1>4, <1>5, FrameNumbers DEF IInv, ForFrame, Frames
  <2>3. r = p - 1 /\ r \in FieldsOf(n)
    BY <2>1, <2>2, PairOnly
  <2>4. b \in Caches
    <3>1. ~Lone(p)
      BY <2>2, <2>3, <1>5 DEF Lone
    <3> QED
      BY <3>1, <1>1 DEF GetSound, Buffers
  <2>5. Paired(1, b, p - 1)
    BY <1>1, <1>3, <2>3, <2>4 DEF OnwardInv, PairTodo
  <2>6. frame_cache_numbers[OtherCache(b)] = r
    <3>1. \A l \in DOMAIN todo : ~(l < 1)
      BY DEF IInv, TypeOK
    <3> QED
      BY <3>1, <2>3, <2>5 DEF Paired
  <2>7. OtherCache(b) \in Caches /\ OtherCache(b) # b
    BY <2>4 DEF OtherCache, Caches
  <2>8. frame_cache_numbers'[OtherCache(b)] = r
    BY <2>6, <2>7, <1>1
  <2> QED
    BY <2>7, <2>8 DEF Filed
<1>10. OnwardInv'
  BY <1>6, <1>7, <1>9 DEF OnwardInv
<1>11. ASSUME Near, forward, last_frame_number \in Pictures, last_frame_number' \in Pictures
       PROVE  last_frame_number <= last_frame_number'
  <2>1. last_frame_number' = p
    BY <1>1, <1>5, <1>11
  <2> QED
    BY <2>1, <1>8, <1>11
<1> QED
  BY <1>10, <1>11

\* Copying keeps it.
LEMMA CopyOnward ==
  ASSUME IInv, OnwardInv, NEW c \in Caches, NEW s \in {"both"} \cup Sides, Copies(c, s)
  PROVE  OnwardInv'
<1>1. /\ todo # <<>> /\ Head(todo) = CopyField(c, s) /\ todo' = Tail(todo)
      /\ UNCHANGED <<lists, last_req_frame, last_frame_number, frame_cache_numbers, n, forward, direct>>
  BY CopyEffect
<1>2. ~IsGet(todo[1])
  BY <1>1, TailSteps DEF IInv, TypeOK, IsGet, CopyField
<1>3. /\ \A j, q : ForFrame(j, q)' <=> ForFrame(j, q)
      /\ \A j : FieldsOf(j)' = FieldsOf(j) /\ Filed(j)' = Filed(j)
      /\ (Near' <=> Near) /\ Frames' = Frames /\ order' = order
  BY <1>1, FramesStay DEF Filed
<1>4. AskedFor' /\ PairTodo'
  BY <1>1, <1>2, RestPaired
<1>5. PastOnly'
  <2>1. \A q : Past(q) => Past(q)'
    BY <1>1, <1>3 DEF Past
  <2> QED
    BY <2>1, <1>1 DEF OnwardInv, PastOnly
<1>6. Kept'
  BY <1>1, <1>3 DEF OnwardInv, Kept
<1> QED
  BY <1>4, <1>5, <1>6 DEF OnwardInv

\* Comparing the caches keeps it: nothing is left to fetch.
LEMMA CompareOnward ==
  ASSUME IInv, OnwardInv, NEW s \in Sides, CompareCaches(s)
  PROVE  OnwardInv'
<1>1. /\ UNCHANGED <<lists, server, n, forward, direct>>
      /\ \/ todo' = <<CopyField("cache0", "both")>>
         \/ todo' = <<CopyField("cache0", s), CopyField("cache1", Other(s))>>
  BY CompareEffect
<1>2. \A k \in DOMAIN todo' : todo'[k].op = "copy"
  BY <1>1, StepParts
<1>3. /\ \A j, q : ForFrame(j, q)' <=> ForFrame(j, q)
      /\ \A j : FieldsOf(j)' = FieldsOf(j) /\ Filed(j)' = Filed(j)
      /\ (Near' <=> Near) /\ Frames' = Frames /\ order' = order
  BY <1>1, FramesStay DEF Filed, server
<1>4. AskedFor' /\ PairTodo'
  BY <1>2, StepParts DEF AskedFor, PairTodo, IsGet
<1>5. PastOnly'
  <2>1. \A q : Past(q) => Past(q)'
    BY <1>1, <1>3 DEF Past
  <2> QED
    BY <2>1, <1>1 DEF OnwardInv, PastOnly, server
<1>6. Kept'
  BY <1>1, <1>3 DEF OnwardInv, Kept, server
<1> QED
  BY <1>4, <1>5, <1>6 DEF OnwardInv

\* Every reachable state satisfies all three invariants.
THEOREM OnwardInvariant == Spec => [](IInv /\ ForwardInv /\ OnwardInv)
<1>1. Init => OnwardInv
  <2> SUFFICES ASSUME Init PROVE OnwardInv
    OBVIOUS
  <2>1. last_frame_number \notin Pictures
    BY VideoAssumption DEF Init, Pictures
  <2> QED
    BY <2>1 DEF Init, OnwardInv, AskedFor, PastOnly, Kept, PairTodo
<1>2. IInv /\ ForwardInv /\ OnwardInv /\ [Next]_vars => OnwardInv'
  <2> SUFFICES ASSUME IInv, ForwardInv, OnwardInv, [Next]_vars PROVE OnwardInv'
    OBVIOUS
  <2>1. ASSUME NEW i \in Frames, Request(i) PROVE OnwardInv'
    BY <2>1, RequestOnward
  <2>2. ASSUME NEW b \in Buffers, NEW p \in Pictures,
               SameAgain(b, p) \/ FirstValid(b, p) \/ Decode(b, p)
        PROVE  OnwardInv'
    BY <2>2, GetOnward DEF ForwardInv
  <2>c. ASSUME NEW s \in Sides, CompareCaches(s) PROVE OnwardInv'
    BY <2>c, CompareOnward
  <2>3. ASSUME NEW c \in Caches, NEW s \in {"both"} \cup Sides, Copies(c, s) PROVE OnwardInv'
    BY <2>3, CopyOnward
  <2>4. CASE UNCHANGED vars
    <3>1. /\ \A j, q : ForFrame(j, q)' <=> ForFrame(j, q)
          /\ \A q : Filed(q)' = Filed(q) /\ FieldsOf(q)' = FieldsOf(q)
          /\ Frames' = Frames /\ (Near' <=> Near)
      BY <2>4, FramesStay DEF vars, server, Filed
    <3>2. UNCHANGED <<order, last_frame_number, frame_cache_numbers, n, todo, forward>>
      BY <2>4 DEF vars, lists, server
    <3>3. \A q : Past(q)' <=> Past(q)
      BY <3>1, <3>2 DEF Past
    <3>4. AskedFor' /\ PastOnly' /\ Kept'
      BY <3>1, <3>2, <3>3 DEF OnwardInv, AskedFor, PastOnly, Kept
    <3>5. PairTodo'
      BY <3>1, <3>2 DEF OnwardInv, PairTodo, Paired
    <3> QED
      BY <3>4, <3>5 DEF OnwardInv
  <2> QED
    BY <2>1, <2>2, <2>c, <2>3, <2>4, NextForms
<1> QED
  BY <1>1, <1>2, ForwardInvariant, PTL DEF Spec

\* Two caches are enough to play forward: no picture that has been passed is decoded
\* again, whichever frames are skipped, as long as no frame takes its fields from
\* pictures further apart than neighbours.
THEOREM NeverSeeksBack == Spec => NoSeekBack
<1> DEFINE Onward == Near /\ forward /\ last_frame_number \in Pictures /\ last_frame_number' \in Pictures
                       => last_frame_number <= last_frame_number'
<1>1. IInv /\ ForwardInv /\ OnwardInv /\ [Next]_vars => [Onward]_vars
  <2> SUFFICES ASSUME IInv, ForwardInv, OnwardInv, [Next]_vars PROVE Onward
    OBVIOUS
  <2>1. ASSUME NEW b \in Buffers, NEW p \in Pictures,
               SameAgain(b, p) \/ FirstValid(b, p) \/ Decode(b, p)
        PROVE  Onward
    BY <2>1, GetOnward DEF ForwardInv
  <2>2. CASE UNCHANGED last_frame_number
    <3>1. \A q \in Pictures : q <= q
      BY VideoAssumption DEF Pictures
    <3> QED
      BY <3>1, <2>2
  <2>3. ASSUME NEW i \in Frames, Request(i) PROVE UNCHANGED last_frame_number
    BY <2>3 DEF Request, server
  <2>c. ASSUME NEW s \in Sides, CompareCaches(s) PROVE UNCHANGED last_frame_number
    BY <2>c, CompareEffect DEF server
  <2>4. ASSUME NEW c \in Caches, NEW s \in {"both"} \cup Sides, Copies(c, s)
        PROVE  UNCHANGED last_frame_number
    BY <2>4, CopyEffect
  <2>5. UNCHANGED vars => UNCHANGED last_frame_number
    BY DEF vars, server
  <2> QED
    BY <2>1, <2>2, <2>c, <2>3, <2>4, <2>5, NextForms
<1> QED
  BY <1>1, OnwardInvariant, PTL DEF Spec, NoSeekBack
=============================================================================
