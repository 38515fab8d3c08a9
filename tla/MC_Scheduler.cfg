CONSTANTS
    Pods = {p1, p2}
    weekly = weekly
    push = push
    key = key
    Jobs = {weekly, push}
    Keys = {key}
    KeyOf <- SharedKey
    Weekly = weekly
    Isolating = {weekly}
    Users = {u1, u2, u3}
    Limit = 2
    Free = Free
    Broken = Broken
    MaxDue = 1
    MaxFaults = 1
SPECIFICATION FairSpec
INVARIANTS AloneUnderKey NoUserLeftOut
PROPERTIES LockComesFree
CHECK_DEADLOCK FALSE
