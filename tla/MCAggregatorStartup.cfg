\* Four starts, in any order or racing, over one database that is empty.
CONSTANTS
    s1 = s1
    s2 = s2
    s3 = s3
    s4 = s4
    Starts = {s1, s2, s3, s4}
    BatchOf <- MCBatchOf
    Nodes = {"n1", "n2", "n3"}
    Ddl <- MCDdl
    None = None
SPECIFICATION Spec
INVARIANTS TypeOK ServingIsReady RaceCompletesTheSchema
PROPERTIES ImplementsRegistry
CHECK_DEADLOCK FALSE
