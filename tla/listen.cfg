\* A pool of three threads that run.
SPECIFICATION FairSpec
CONSTANT N = 3
INVARIANTS
    TypeOK
    EndedNotResumed
    WaitsForEach
PROPERTY
    EachWorkerStarts
\* Threads that serve, and listen once it has returned, do nothing more.
CHECK_DEADLOCK FALSE
