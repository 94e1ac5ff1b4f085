SPECIFICATION Spec
CONSTANTS
    d = d  c = c  t1 = t1  t2 = t2  f = f  x = x  p1 = p1  p2 = p2
    Actors = {d, c}
    Triggers <- TwoAtOnce
    Targets = {t1}
    Gated = {t1}
    Items = {}
    Silent = {}
    Pins = {p1}
    MaxRows = 2
INVARIANTS OneApplyPerDailyRun
PROPERTIES ClosedRowsStayClosed
