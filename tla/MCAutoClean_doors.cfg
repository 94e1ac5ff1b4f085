SPECIFICATION Spec
CONSTANTS
    c = c  m = m  leak = leak  tree = tree  repo = repo
    Doors = {c, m}
    Triggers <- AllTriggers
    Target = {leak}
    ModuleOf <- Emits
    Families = {}
    Size <- Sizes
    Cap = 1
    Allowed = {"leaks", "worktrees", "idle_repos"}
    Toml <- HandSet
    NoDoor = NoDoor
    MaxEvents = 3
    MaxFaults = 1
    MaxCrashes = 1
INVARIANTS OneOpenRow RemovalsAreAudited
PROPERTIES RemovalsAreProvenAndConsented ClosedByTickMeansGone
