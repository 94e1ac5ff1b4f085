CONSTANTS
    t1 = t1
    t2 = t2
    w1 = w1
    w3 = w3
    None = None
    Tree = {t1, t2}
    Work = {w1, w3}
    Ignored = {}
    Detached = {t1}
    Home <- MCHome
    Name <- MCName
    Cleaner = {d}
    Judger = {j}
    MaxSec = 1
    MaxFaults = 0
    MaxUser = 2
SPECIFICATION Spec
INVARIANT TypeOK
PROPERTY WorkKept
CHECK_DEADLOCK FALSE
