CONSTANTS
  p1 = p1
  p2 = p2
  b1 = b1
  b2 = b2
  h1 = h1
  h2 = h2
  h3 = h3
  Products = {p1, p2}
  Requests = {b1, b2}
  Quantities = {2}
  Counts = {1}
  Initially <- FewOnTheShelf
  Handlers = {h1, h2}
  NoPurchase = NoPurchase
SPECIFICATION Spec
SYMMETRY Symmetry
INVARIANTS TypeOK StockAddsUp
PROPERTIES ImplementsInventory
