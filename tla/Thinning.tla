------------------------------- MODULE Thinning -------------------------------
(* What a loop that walks a sequence and takes some of its entries makes of it. *)
EXTENDS Naturals, Sequences, FiniteSets

\* The entries of s at the places kept, in their order: each goes to its rank.
Thin(s, kept) ==
    LET Rank(i) == Cardinality({k \in kept : k <= i})
    IN  [j \in 1 .. Cardinality(kept) |-> s[CHOOSE i \in kept : Rank(i) = j]]

=============================================================================
