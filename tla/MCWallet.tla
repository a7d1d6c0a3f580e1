------------------------------ MODULE MCWallet ------------------------------
(* Small instances of Wallet for TLC. *)
EXTENDS Wallet, TLC

CONSTANTS u1, u2, t1, t2, j1, c1, c2, h1, h2, h3

\* The first top-up goes through Payme, the second through Click; sums differ.
OneOwner == [t \in TopUps |-> u1]
TwoAmounts == [t \in TopUps |-> IF t = t1 THEN 2 ELSE 3]
FirstByPayme == TopUps \cap {t1}
GiveAndTake == [c \in Corrections |->
                  IF c = c1 THEN [user |-> u1, amount |-> 1] ELSE [user |-> u1, amount |-> -2]]
Penniless == [u \in Users |-> 0]
OneFee == [u \in Users |-> Fee]

Symmetry == Permutations(Handlers)
=============================================================================
