\* Two invocations race for one node, a third works beside them.
CONSTANTS
    g1 = g1
    g2 = g2
    g3 = g3
    Generators = {g1, g2, g3}
    NodeOf <- MCNodeOf
    None = None
SPECIFICATION Spec
INVARIANTS SuccessIsAPair RefusalLeavesNothing SomebodySucceeds
CHECK_DEADLOCK FALSE
