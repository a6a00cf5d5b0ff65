\* The provisioned worker under the fairness of its thread and the kernel.
SPECIFICATION FairSpec
CONSTANTS
    Conns = {c1, c2}
    Fds = {f1, f2, f3}
    MaxPackets = 1
    MaxShort = 0
    Faults = {}
    SqEntries = 6
    NumBuffers = 2
    Phantom = Phantom
    NoFd = NoFd
    None = None
INVARIANTS
    SubmissionsBounded
    NeverDown
PROPERTIES
    ConnectionsAccepted
    ClosedIsClosed
    RequestsAnswered
\* A worker without clients waits for ever; a terminated one does nothing.
CHECK_DEADLOCK FALSE
