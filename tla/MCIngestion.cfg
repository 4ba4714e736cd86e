\* Three requests in any interleaving, which covers those of the event loop,
\* a file database, one restart.
CONSTANTS
    Callers = {r1, r2, r3}
    Events <- MCEvents
    Skew = 1
    Ttl = 1
    MinInstant = 0
    MaxInstant = 4
    ClockMayStepBack = FALSE
    None = None
    Envelopes <- MCEnvelopes
    Registry <- MCRegistry
    BadKey = "bad"
    Readers = {g1}
    SharedConnection = FALSE
    OneAtATime = FALSE
    MaxBoots = 2
SPECIFICATION IngestSpec
SYMMETRY RequestSymmetry
INVARIANTS AcceptedIsDurable RefusalIsRecorded StoredOncePerBoot OneRowPerRequest NoSilentLoss OnlySignedEventsCount
CHECK_DEADLOCK FALSE
