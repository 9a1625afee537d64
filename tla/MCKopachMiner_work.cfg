CONSTANTS
    c1 = c1
    c2 = c2
    None = None
    Threads = 2
    Controllers = {c1, c2}
    Jobs <- ThreeJobs
    Incomplete <- JobOfC2
    MaxSolutions = 1
    MaxSilences = 1
    MaxCrashes = 2
SPECIFICATION Spec
INVARIANTS
    TypeOK
    LastJobMined
PROPERTIES
 PausedWhenSilent
 CallsReturn
CHECK_DEADLOCK FALSE
