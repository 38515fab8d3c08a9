CONSTANTS
    Full = Full
    Sections = {ws, s1}
    WalletSec = ws
    Wallets = {w1, w2}
    Absent = Absent
    Empty = Empty
    MaxFetch = 3
    MaxRunning = 2
    MaxQueued = 1
    MaxFaults = 1
SPECIFICATION FairSerialSpec
PROPERTIES PartialKeepsOthers NoRegress StatusSettles
