CONSTANTS
    t1 = t1
    t2 = t2
    w1 = w1
    w3 = w3
    None = None
    Tree = {t1, t2}
    Work = {w1, w3}
    Ignored = {}
    Detached = {t1}
    Home <- MCHome
    Name <- MCName
    Cleaner = {d}
    Judger = {}
    MaxSec = 0
    MaxFaults = 1
    MaxUser = 2
SPECIFICATION FairSpec
PROPERTY KeepsPromise
PROPERTY DeadGoes
CHECK_DEADLOCK FALSE
