SPECIFICATION Spec
CONSTANTS
    d = d  c = c  t1 = t1  t2 = t2  f = f  x = x  p1 = p1  p2 = p2
    Actors = {c}
    Triggers <- AnyTrigger
    Targets = {t1}
    Gated = {t1}
    Items = {f, x}
    Silent = {x}
    Pins = {p1, p2}
    MaxRows = 1
INVARIANTS SettledDataKept DoneMeansRelocated MovesAreConsented
