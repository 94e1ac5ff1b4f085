CONSTANTS
    c1 = c1
    c2 = c2
    m1 = m1
    m2 = m2
    m3 = m3
    ss = ss
    en = en
    ag = ag
    None = None
    Fam = Fam
    Tree = {c1, c2, m1, m2, m3, ss, en, ag}
    Proc = {p, q}
    Sweeper = {d}
    Kind <- MCKind
    Parent <- MCParent
    Gate <- MCGate
    Scenes <- MCScenes
    File <- MCFile
    Device <- MCDevice
    Extents <- MCExtents
    Files <- MCFiles
    Mapped <- MCMapped
    Walked <- MCWalked
    Place <- MCPlace
    MinRun = 2
    MaxLen = 5
    Margin = 1
    Delay = 1
    MinMembers = 2
    Start = 2
    MaxTime = 3
    MaxFaults = 1
    MaxUser = 2
SPECIFICATION FairSpec
INVARIANT TypeOK
INVARIANT ReportIsTrue
PROPERTY KeepsPromise
PROPERTY DeadGoes
CHECK_DEADLOCK FALSE
