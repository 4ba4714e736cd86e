\* Two callers and a clock that is never set back.
CONSTANTS
    Callers = {c1, c2}
    Events <- MCPairOfEvents
    Skew = 1
    Ttl = 1
    MinInstant = 0
    MaxInstant = 4
    ClockMayStepBack = FALSE
    None = None
SPECIFICATION Spec
INVARIANTS BackwardsClockIsTrue
