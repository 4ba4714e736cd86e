\* Two runs of the worker and one restart of the aggregator.
CONSTANTS
    MaxRuns = 2
    MaxEvents = 2
    MaxBeats = 1
    MaxCrashes = 1
    MaxTime = 2
    Drift = 1
    Skew = 1
    None = None
SPECIFICATION Spec
INVARIANTS RowsAreAPrefix NoFalseAlarm NodeRowIsTheNewest
PROPERTIES DegradedIsTheLastWord
CHECK_DEADLOCK FALSE
