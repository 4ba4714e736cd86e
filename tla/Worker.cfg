\* A run of at most three events.
CONSTANT MaxEvents = 3
SPECIFICATION Spec
INVARIANTS TypeOK SuccessMeansHealthy OneUncountedEvent OneLateDelivery AllReleased
PROPERTIES DegradedIsFinal FailureEndsTheRun
CHECK_DEADLOCK FALSE
