\* The smallest pool with more than one worker.
SPECIFICATION Spec
CONSTANT N = 2
INVARIANT
    OwnWorker
\* Threads that serve, and listen once it has returned, do nothing more.
CHECK_DEADLOCK FALSE
