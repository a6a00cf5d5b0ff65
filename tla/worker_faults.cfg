\* Two connections, two descriptors and two buffers; clients reset, accepts
\* fail, and the submission queue can overflow.
SPECIFICATION Spec
CONSTANTS
    Conns = {c1, c2}
    Fds = {f1, f2}
    MaxPackets = 1
    MaxShort = 0
    Faults = {"reset", "abort"}
    SqEntries = 3
    NumBuffers = 2
    Phantom = Phantom
    NoFd = NoFd
    None = None
SYMMETRY Symmetric
INVARIANTS
    TypeOK
    FramesMatchRequests
    DescriptorsOwned
    OwnConnectionOnly
    EntriesConserved
\* A worker without clients waits for ever; a terminated one does nothing.
CHECK_DEADLOCK FALSE
