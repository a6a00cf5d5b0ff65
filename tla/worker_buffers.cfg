\* Two clients, two packets each, two buffers, no fault.
SPECIFICATION Spec
CONSTANTS
    Conns = {c1, c2}
    Fds = {f1, f2, f3}
    MaxPackets = 2
    MaxShort = 0
    Faults = {}
    SqEntries = 6
    NumBuffers = 2
    Phantom = Phantom
    NoFd = NoFd
    None = None
INVARIANT
    ParsesOwnBytes
\* A worker without clients waits for ever; a terminated one does nothing.
CHECK_DEADLOCK FALSE
