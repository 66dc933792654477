----------------------------- MODULE Ascending -----------------------------
(* Loops over an index that goes up, as sequences of what they come across. *)
EXTENDS Integers, FiniteSets

\* The members of a finite set of integers, in ascending order.
Ascending(S) ==
    [k \in 1..Cardinality(S) |->
        CHOOSE x \in S : Cardinality({y \in S : y < x}) = k - 1]
=============================================================================
