SPECIFICATION MCSpec
CONSTANTS
  Clients = {c1, c2}
  Passwords = {p1, p2}
  Emails = {e1, e2, e3}
  Groups <- MCGroups
  Threshold = 3
  LockTime = 1
  LinkTime = 1
  Retention = 1
  CodesPerSet = 2
  MaxNow = 3
  MaxLinks = 3
  MaxSets = 2
  AccessLife = 1
  RefreshLife = 2
  PreMfaLife = 1
  MaxTokens = 4
  MaxTime = 5
INVARIANTS TypesOK LockoutHolds ShownCodesAreStored
PROPERTIES LinksKept EndedStaysEnded
CHECK_DEADLOCK FALSE
SYMMETRY ClientSymmetry
