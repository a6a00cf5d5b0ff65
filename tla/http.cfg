\* Requests without a body, in packets of up to six tokens.
SPECIFICATION FairSpec
CONSTANTS
    Requests <- MCRequests
    Handlers <- MCHandlers
    Paths <- MCPaths
    MaxRequests = 2
    MaxPacket = 6
INVARIANTS
    TypeOK
    ParsedAsSent
PROPERTY
    ImplementsService
\* A client may have sent all it sends.
CHECK_DEADLOCK FALSE
