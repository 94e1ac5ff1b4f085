SPECIFICATION Spec
CONSTANTS
    p1 = p1  p2 = p2  p3 = p3  old = old
    Proc = {p1, p2, p3, old}
    NoProc = NoProc
    Old = {old}
    MaxStarts = 5
    MaxStops = 3
INVARIANTS OlderDaemonIsSafe
PROPERTIES AloneIsNotRefused SingleInstance
CHECK_DEADLOCK FALSE
