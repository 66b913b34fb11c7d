------------------------------ MODULE Filtering ------------------------------
(***************************************************************************)
(* What a loop keeps of a sequence, and the order a sort puts it in.       *)
(***************************************************************************)
EXTENDS Integers, Sequences

\* The elements of s that are in S, in their order.
Filter(s, S) ==
  LET Kept[i \in 0 .. Len(s)] ==
        IF i = 0 THEN <<>>
        ELSE IF s[i] \in S THEN Append(Kept[i - 1], s[i]) ELSE Kept[i - 1]
  IN Kept[Len(s)]

\* All rows, in a strict order R of their places.
Ordered(rows, R) ==
  LET order == CHOOSE o \in [DOMAIN rows -> DOMAIN rows] :
                 \A i, j \in DOMAIN rows : i < j => <<o[i], o[j]>> \in R
  IN  [k \in DOMAIN order |-> rows[order[k]]]
=============================================================================
