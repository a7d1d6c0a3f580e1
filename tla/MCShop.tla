------------------------------- MODULE MCShop -------------------------------
(* Small instances of Shop for TLC. *)
EXTENDS Shop, TLC

CONSTANTS p1, p2, b1, b2, h1, h2, h3

\* Enough for either of two purchases and not for both.
FewOnTheShelf == [p \in Products |-> 2]

Symmetry == Permutations(Handlers) \cup Permutations(Requests) \cup Permutations(Products)
=============================================================================
