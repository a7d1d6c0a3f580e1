CONSTANTS
  w1 = w1
  w2 = w2
  Count = 1
  Users = {1, 2, 3}
  BatchSize = 2
  MaxAttempts = 2
  Workers = {w1, w2}
  NoOwner = NoOwner
  MaxMishaps = 2
SPECIFICATION FairSpec
INVARIANTS TypeOK NotifiedOnce NobodySkipped
PROPERTIES BroadcastEnds
