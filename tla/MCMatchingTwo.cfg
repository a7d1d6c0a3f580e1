CONSTANTS
  o1 = o1
  o2 = o2
  m1 = m1
  m2 = m2
  r1 = r1
  r2 = r2
  w1 = w1
  Orders = {o1, o2}
  Masters = {m1, m2}
  Clients = {o1, o2}
  ClientOf <- OwnClient
  CanServe <- Everybody
  Fee = 1
  Funds <- FundsForOne
  Requests = {r1, r2}
  Workers = {}
  Transactional = TRUE
  Crashing = {}
  Faults = {}
  NoMaster = NoMaster
  NoOrder = NoOrder
  Free = Free
  Orphan = Orphan
SPECIFICATION Spec
SYMMETRY SymmetryTwo
INVARIANTS TypeOK FeeMatchesJob TidyAtRest
PROPERTIES ImplementsLifecycle
