\* Three requests, the first two of any kinds.
SPECIFICATION LiveSpec
CONSTANTS
    N = 3
    Scripts <- MCScripts
INVARIANTS
    StreamsAndDrainsEnd
    ResponsesInOrder
    ReadsKeepRequestsApart
PROPERTIES
    RequestsAreServed
CHECK_DEADLOCK FALSE
