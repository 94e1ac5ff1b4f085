CONSTANTS
    p1 = p1
    p2 = p2
    me = me
    docker = docker
    vscode = vscode
    updater = updater
    agent = agent
    NoProc = NoProc
    Pid = {p1, p2, me}
    Self = me
    Line <- MCLine
    CmdlineContains = {"--headless"}
    UserDataDirGlobs <- MCGlobs
    App = {docker, vscode}
    Name <- MCName
    BundleId <- MCBundleId
    Vague = {"com", "desktop"}
    Trees <- MCTrees
    File <- MCFile
    Size <- MCSize
    Inode <- MCInode
    Sealed <- MCSealed
    CacheDirs <- MCCacheDirs
    ReportOnly <- MCReportOnly
    CacheRoots <- MCCacheRoots
    ScanRoots <- MCScanRoots
    Targets = {"dist", "build"}
    LibraryRoots <- MCLibraryRoots
    Curated <- MCCurated
    Excluded = {"mobilesync"}
    Key <- MCKey
    Alien = {}
    MinSize = 2
    Service = {updater, agent}
    Moving <- MCMoving
    MaxFaults = 1
    MaxUser = 2
SPECIFICATION FairSpec
INVARIANT TypeOK
PROPERTY StrikesAreAimed
PROPERTY KeepsPromise
PROPERTY AuditIsTrue
PROPERTY PlanIsTrue
PROPERTY AnsweredEnds
CHECK_DEADLOCK FALSE
