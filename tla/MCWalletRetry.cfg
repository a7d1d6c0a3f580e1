CONSTANTS
  u1 = u1
  u2 = u2
  t1 = t1
  t2 = t2
  j1 = j1
  c1 = c1
  c2 = c2
  h1 = h1
  h2 = h2
  h3 = h3
  Users = {u1}
  TopUps = {t1}
  Jobs = {}
  Corrections = {}
  OwnerOf <- OneOwner
  Amount <- TwoAmounts
  Payme <- FirstByPayme
  Fee = 1
  CorrectionOf <- GiveAndTake
  Funds <- Penniless
  Handlers = {h1, h2}
  MaxCrashes = 0
SPECIFICATION Spec
SYMMETRY Symmetry
INVARIANTS CreditedOnce
