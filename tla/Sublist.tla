------------------------------ MODULE Sublist ------------------------------
(* Lists with some of their elements left out, the others in order: what   *)
(* the code's comprehensions and filters make of a list.                   *)
EXTENDS Naturals, FiniteSets

(* The n-th position of S. *)
Nth(S, n) == CHOOSE i \in S : Cardinality({j \in S : j <= i}) = n

(* What a list has at the positions in S. *)
Picked(list, S) == [n \in 1..Cardinality(S) |-> list[Nth(S, n)]]

=============================================================================
