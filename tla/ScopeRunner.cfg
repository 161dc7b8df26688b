CONSTANTS
    Threads = {t1, t2, t3}
    Stoppers = {s1, s2}
SPECIFICATION FairSpec
INVARIANTS
    TypeOK
    CountsLocks
    StopExcludes
PROPERTIES
    ImplementsGate
    StopReturns
