------------------------------- MODULE Ranking -------------------------------
(***************************************************************************)
(* The sorting of colocated tasks: both strategies call sort.SliceStable,  *)
(* which is an insertion sort for up to 20 elements.                       *)
(***************************************************************************)
EXTENDS Integers, Sequences

CONSTANT Less(_, _)   \* the order that is handed to sort.SliceStable

\* An element moves left past every neighbour it is less than.
Insert(s, x) ==
    LET stay == {k \in DOMAIN s : ~Less(x, s[k])}
        pos  == IF stay = {} THEN 0 ELSE CHOOSE k \in stay : \A j \in stay : j <= k
    IN  SubSeq(s, 1, pos) \o <<x>> \o SubSeq(s, pos + 1, Len(s))

\* The elements are inserted in turn.
SliceStable(s) ==
    LET sorted[k \in 0 .. Len(s)] ==
            IF k = 0 THEN <<>> ELSE Insert(sorted[k - 1], s[k])
    IN  sorted[Len(s)]
=============================================================================
