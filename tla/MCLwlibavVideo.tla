--------------------------- MODULE MCLwlibavVideo ---------------------------
(***************************************************************************)
(* Small instances of LwlibavVideo for TLC.  Its inputs, the order lists,  *)
(* are those that common/lwindex.c:922-1105 creates for P pictures coded   *)
(* as whole frames, whatever their repeat flags, their field order and the *)
(* dominance option; TLC checks them against VideoAssumption.              *)
(***************************************************************************)
EXTENDS LwlibavVideo, SequencesExt

(***************************************************************************)
(* repeat[i] is the repeat_pict of picture i: 1, 2 (one field is shown     *)
(* twice) or 3 (the frame is); field[i] is its first field, which an       *)
(* unknown one takes over from the pictures before it.  dominance is the   *)
(* option of that name.                                                    *)
(***************************************************************************)
Tripled(repeat, i) == {j \in 1..i - 1 : repeat[j] = 2}
RepeatField(repeat, i) == Cardinality(Tripled(repeat, i)) % 2 = 0

\* Between two tripled fields the fields alternate, or repeat control is off.
FieldsPair(repeat, field) ==
  \A i \in 2..P : ~RepeatField(repeat, i) =>
    field[i] = IF repeat[i - 1] = 2 THEN Other(field[i - 1]) ELSE field[i - 1]

\* The first loop replaces what is unknown as far as the pictures before tell.
TakenOver(repeat, field) ==
  \A i \in 2..P : field[i] = "unknown" => field[i - 1] = "unknown" /\ repeat[i - 1] # 2

Copies(repeat, field, i, side) ==
  CASE repeat[i] = 3 -> <<i, i>>
    [] repeat[i] = 2 /\ field[i] = side -> <<i, i>>
    [] OTHER -> <<i>>

Column(repeat, field, dominance, side) ==
  (IF dominance = side /\ field[1] = Other(side) THEN <<1>> ELSE <<>>)
    \o FlattenSeq([i \in Pictures |-> Copies(repeat, field, i, side)])

OrderCount(repeat, field, dominance) ==
  P + Cardinality({i \in Pictures : repeat[i] = 3})
    + Cardinality({i \in Pictures : repeat[i] = 2}) \div 2
    + IF dominance \in {"top", "bottom"} \ {field[1]} THEN 1 ELSE 0

At(s, i) == IF i \in DOMAIN s THEN s[i] ELSE 0

OrderList(repeat, field, dominance) ==
  LET tops == Column(repeat, field, dominance, "top")
      bottoms == Column(repeat, field, dominance, "bottom")
      count == OrderCount(repeat, field, dominance)
  IN  [i \in 1..count |->
        IF i = count /\ Len(tops) # Len(bottoms)
        THEN [top |-> P, bottom |-> P]
        ELSE [top |-> At(tops, i), bottom |-> At(bottoms, i)]]

Repeats(repeat) == \E i \in Pictures : repeat[i] \in {2, 3}

\* Left out: a dominance forced over a first picture of unknown field order.  The
\* list is then one frame too long, and its last frame consists of picture 0.
RepeatOrders ==
  {<<>>} \cup
  UNION {{OrderList(repeat, field, dominance) :
            dominance \in IF field[1] = "unknown" THEN {"source"} ELSE {"source", "top", "bottom"}} :
         <<repeat, field>> \in
           {rf \in [Pictures -> {1, 2, 3}] \X [Pictures -> {"top", "bottom", "unknown"}] :
              Repeats(rf[1]) /\ TakenOver(rf[1], rf[2]) /\ FieldsPair(rf[1], rf[2])}}
=============================================================================
