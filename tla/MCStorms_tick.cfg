CONSTANTS
    r1 = r1  c1 = c1  v1 = v1  v2 = v2
    a1 = a1  a2 = a2  b1 = b1
    A = A  B = B
    None = None
    Repo = {r1}
    Branch = {"main", "topic"}
    Nested = {"topic"}
    Cache = {c1}
    Volume = {v1, v2}
    Clone = {a1, a2, b1}
    Scenes <- MCScenes
    Sig = {A, B}
    SigOf <- MCSigOf
    DayLen = 3
    Throttle = 1
    MinIdle = 2
    MinNm = 1
    Lookback = 4
    RecurrenceDays = 6
    Multi = 2
    Gap = 0
    Window = 1
    MinCount = 2
    Cooldown = 2
    MaxSize = 2
    Start = 4
    MaxTime = 6
    MaxUser = 3
    MaxFaults = 1
SPECIFICATION Spec
SYMMETRY Alike
INVARIANTS TypeOK AlertsAreEarned TrendsAreTrue FindingsAreTrue
PROPERTIES SamplingIsRegular
CHECK_DEADLOCK FALSE
