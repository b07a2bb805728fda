------------------------------ MODULE Ordering ------------------------------
(* Numbers in order, and the part of a list that a loop keeps. *)
EXTENDS Naturals, FiniteSets

(* The numbers of a finite set from the least to the greatest. *)
Sorted(S) ==
    [k \in 1..Cardinality(S) |->
        CHOOSE x \in S : Cardinality({y \in S : y <= x}) = k]

(* The elements of a list at some of its positions, in its order. *)
Filtered(list, positions) ==
    [k \in 1..Cardinality(positions) |-> list[Sorted(positions)[k]]]

=============================================================================
