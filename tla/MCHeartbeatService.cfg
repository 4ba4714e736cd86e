\* Three racing heartbeats of one node.
CONSTANTS
    Requests = {r1, r2, r3}
    Heartbeats <- MCHeartbeats
    Nodes = {"n1"}
    Skew = 1
    Instants <- MCInstants
    None = None
SPECIFICATION Spec
INVARIANTS TypeOK AnswersAreTrue
PROPERTIES ImplementsRegister EveryHeartbeatAnswered
CHECK_DEADLOCK FALSE
