\* A thread and two pool threads, with up to four coroutines.
SPECIFICATION Spec
CONSTANTS
    main = main
    p1 = p1
    p2 = p2
    a = a
    b = b
    x = x
    y = y
    None = None
    Threads <- MCThreads
    Pool = {p1, p2}
    Coros <- MCCoros
    Programs <- MCPrograms
INVARIANTS
    UsedAlive
    ReadsReturned
PROPERTIES
    FramesFreed
\* The programs end.
CHECK_DEADLOCK FALSE
