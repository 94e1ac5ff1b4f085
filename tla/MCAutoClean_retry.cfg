SPECIFICATION FairSpec
CONSTANTS
    c = c  m = m  leak = leak  tree = tree  repo = repo
    Doors = {c}
    Triggers <- DailyOnly
    Target = {tree, repo}
    ModuleOf <- Emits
    Families = {}
    Size <- Sizes
    Cap = 2
    Allowed = {"leaks", "worktrees", "idle_repos"}
    Toml <- TomlOn
    NoDoor = NoDoor
    MaxEvents = 1
    MaxFaults = 1
    MaxCrashes = 0
PROPERTIES DeadIsCleaned GoneIsClosed
