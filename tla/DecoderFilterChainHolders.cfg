\* Two filters that hold body data in the buffer they share.
SPECIFICATION Spec
CONSTANTS
    N = 3
    Chunks = 3
    EnableTrailers = FALSE
    Chains <- HoldingChains
INVARIANTS
    NoBypass
CHECK_DEADLOCK FALSE
