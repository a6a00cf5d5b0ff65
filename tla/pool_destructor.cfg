\* The pool of threadpool_test.cpp, smaller: main destroys it while the
\* threads may be anywhere in thread_loop.
SPECIFICATION FairSpec
CONSTANTS
    Threads = {t1, t2}
    Coroutines = {h1}
    Endless = {}
    MaxAwaits = 1
    Nobody = Nobody
PROPERTY
    DestructorReturns
CHECK_DEADLOCK FALSE
