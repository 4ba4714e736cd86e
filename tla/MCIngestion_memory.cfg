\* The in-memory database, whose one connection a reader shares.
CONSTANTS
    Callers = {r1}
    Events <- MCEvents
    Skew = 1
    Ttl = 1
    MinInstant = 1
    MaxInstant = 3
    ClockMayStepBack = FALSE
    None = None
    Envelopes <- MCHonest
    Registry <- MCRegistry
    BadKey = "bad"
    Readers = {g1}
    SharedConnection = TRUE
    OneAtATime = TRUE
    MaxBoots = 1
SPECIFICATION IngestSpec
SYMMETRY RequestSymmetry
INVARIANTS AcceptedIsDurable
CHECK_DEADLOCK FALSE
