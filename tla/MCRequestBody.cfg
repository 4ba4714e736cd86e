\* A maximum of 12 bytes, and chunks of 0, 3 and 10.
CONSTANTS
    Maximum <- MCMaximum
    Headers <- MCHeaders
    Sizes = {0, 3, 10}
    None = None
SPECIFICATION Spec
INVARIANTS ParsedIsWhole DigitsAreJudgedByValue
CHECK_DEADLOCK FALSE
