\* A pipe that holds two pages of two bytes, and five bytes to be sent.
SPECIFICATION Spec
CONSTANTS
    Length = 5
    MaxSize = 8
    Slots = 2
    PageSize = 2
    None = None
INVARIANTS
    SentWhatFileHad
    PipeOwned
PROPERTIES
    Ends
\* The call ends, or waits for ever.
CHECK_DEADLOCK FALSE
