----------------------------- MODULE MCMatching -----------------------------
(* Small instances of Matching for TLC. *)
EXTENDS Matching, TLC

CONSTANTS o1, o2, m1, m2, r1, r2, w1

\* Every order is posted by a client of its own, named after it; every pro can serve every order,
\* or the second order has one pro only, whom the first competes for.
OwnClient == [o \in Orders |-> o]
Everybody == Orders \X Masters
OneShared == {<<o1, m1>>, <<o1, m2>>, <<o2, m1>>}

\* Enough for one acceptance and not for two.
FundsForOne == [m \in Masters |-> Fee]

SymmetryShared == Permutations(Requests)
Symmetry == Permutations(Masters) \cup SymmetryShared
\* Sound because a client is named after its order.
SymmetryTwo == Symmetry \cup Permutations(Orders)
=============================================================================
