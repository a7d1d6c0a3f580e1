CONSTANTS
  u1 = u1
  u2 = u2
  t1 = t1
  t2 = t2
  j1 = j1
  c1 = c1
  c2 = c2
  h1 = h1
  h2 = h2
  h3 = h3
  Users = {u1, u2}
  TopUps = {t1, t2}
  Jobs = {j1}
  Corrections = {c1, c2}
  OwnerOf <- OneOwner
  Amount <- TwoAmounts
  Payme <- FirstByPayme
  Fee = 1
  CorrectionOf <- GiveAndTake
  Funds <- OneFee
  Handlers = {h1, h2, h3}
  MaxCrashes = 1
SPECIFICATION Spec
SYMMETRY Symmetry
INVARIANTS TypeOK BooksBalance MovedOnce CancelledIsUnpaid
