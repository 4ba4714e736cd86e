\* Ctrl-C while the heartbeat thread is being waited for.
CONSTANT MaxEvents = 1
SPECIFICATION Spec
INVARIANTS InterruptStopsTheThread
CHECK_DEADLOCK FALSE
