SPECIFICATION FairSpec
CONSTANTS
    c = c  r = r
    Rpc = {r}
    Consumer = c
    Nobody = Nobody
    TrigCap = 4
    Window = 4
    Cooldown = 1
INVARIANTS TicksSerialized ScheduledTicksHaveStore DailyOvertakenOnce
PROPERTIES DailyServed LowDiskIsScanned ShutdownEnds
