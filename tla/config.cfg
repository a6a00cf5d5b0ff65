\* Two threads that look up a table or a vector under each of two names, add
\* and remove listeners of the vectors and load one of two directories of
\* files; one listener looks up a third name, one throws.
SPECIFICATION FairRSpec
CONSTANTS
    Threads = {t1, t2}
    Setters = {t1}
    m = m
    v1 = v1
    v2 = v2
    i1 = i1
    i2 = i2
    Vars <- MCVars
    Values <- MCValues
    Default <- MCDefault
    Listeners = {l1, l2}
    Throwing = {l2}
    MaxSets = 6
    None = None
    Names <- MCNames
    Types <- MCTypes
    TypeOf <- MCTypeOf
    DefaultOf <- MCDefaultOf
    Calls <- MCCalls
    Watched <- MCWatched
    LookedUp <- MCLookedUp
    l1 = l1
    l2 = l2
    Dirs <- MCDirs
    NullEntry = NullEntry
    MaxOps = 2
    NoValue <- Throws
    Broken <- MCBroken
    FromStr <- MCFromStr
    ToStr <- MCToStr
    listAllMember <- MCListAllMember
    TextOf <- MemberText
    Numbers = {"1", "2"}
    Nines = {"a9"}
    Capitals = {"A"}
INVARIANTS
    TypeOK
    RemovedNotTold
    LastToldIsValue
    RegistryTypeOK
    OneVariablePerName
    LastReadIsValue
    LoadedAsWritten
    TextsReadBack
PROPERTIES
    CallsReturn
    IdsNameListeners
\* Threads may leave the registry alone.
CHECK_DEADLOCK FALSE
