\* Three threads; two coroutines that await schedule() twice each and one that
\* never gives its thread back; the pool destroyed at any moment.
SPECIFICATION FairSpec
CONSTANTS
    Threads = {t1, t2, t3}
    Coroutines = {h1, h2, h3}
    Endless = {h3}
    MaxAwaits = 2
    Nobody = Nobody
INVARIANTS
    TypeOK
    HandleInOnePlace
    WorkConserving
PROPERTY
    QueuedIsResumed
\* An idle pool, and a destroyed one, has nothing left to do.
CHECK_DEADLOCK FALSE
