------------------------------ MODULE Removal ------------------------------
(* Lists from which one value is removed. *)
EXTENDS Integers, Sequences

\* What is left of list from each of its places on, and behind the last.
Rest(list, d) ==
  LET from[i \in 1..Len(list) + 1] ==
        IF i > Len(list) THEN <<>>
        ELSE IF list[i] = d THEN from[i + 1] ELSE <<list[i]>> \o from[i + 1]
  IN  from

\* The values of list but d, in their order.
Without(list, d) == Rest(list, d)[1]
=============================================================================
