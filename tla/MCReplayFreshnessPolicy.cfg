\* The TTL outlasts the freshness of some events and not of others, and the
\* clock may be set back.
CONSTANTS
    Callers = {c1, c2}
    Events <- MCEvents
    Skew = 1
    Ttl = 1
    MinInstant = 0
    MaxInstant = 5
    ClockMayStepBack = TRUE
    None = None
SPECIFICATION Spec
SYMMETRY CallerSymmetry
INVARIANTS TypeOK NeverAcceptedTwice ReuseOnlyAfterExpiry DictionaryIsExact
PROPERTIES HighWaterMarkRises ImplementsPromise
