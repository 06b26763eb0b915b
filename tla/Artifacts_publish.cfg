SPECIFICATION Spec
CONSTANTS
    w1 = w1
    w2 = w2
    p = p
    dir = dir
    Work <- MCWork
    Paths <- MCPaths
    PathOf <- MCPathOf
    Nobody = Nobody
    Stranger = Stranger
    Dirs <- MCDirs
    Root = Root
    DirOf <- MCDirOf
    Way <- MCWay
    MaxAttempts = 2
    MaxFaults = 2
    MaxCrashes = 2
    MaxDamage = 1
INVARIANTS
    ManifestsHonoured
    RequeuedLeftNothing
    CompleteStreamsAreClean
SYMMETRY Symmetry
CHECK_DEADLOCK FALSE
