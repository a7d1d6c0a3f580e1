CONSTANTS
  u1 = u1
  u2 = u2
  j1 = j1
  j2 = j2
  h1 = h1
  h2 = h2
  note1 = note1
  phone1 = phone1
  phone2 = phone2
  browser = browser
  Users = {u1, u2}
  Masters = {u2}
  Jobs = {j1, j2}
  Handlers = {h1, h2}
  MaxAttempts = 2
  MaxRequests = 4
  NoUser = NoUser
  Free = Free
  Notes = {note1}
  Phones = {phone1, phone2}
  Browsers = {browser}
  MaxPushAttempts = 3
SPECIFICATION Runs
INVARIANTS TypeOK OneWaitingJob SentReachedAll
PROPERTIES PostedWhileUsable HeldAccountIsFreed PushEnds
