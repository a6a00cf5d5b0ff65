\* One client that may reset, responses sent in up to three parts, a submit
\* that may fail, and a kernel that keeps buffers at end of file.
SPECIFICATION Spec
CONSTANTS
    Conns = {c1}
    Fds = {f1, f2}
    MaxPackets = 2
    MaxShort = 2
    Faults = {"reset", "short", "submit", "eof_buffer"}
    SqEntries = 6
    NumBuffers = 2
    Phantom = Phantom
    NoFd = NoFd
    None = None
INVARIANTS
    FramesMatchRequests
    CharactersReleased
    MessageHeldWhileSending
\* A worker without clients waits for ever; a terminated one does nothing.
CHECK_DEADLOCK FALSE
