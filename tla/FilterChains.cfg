\* Three decoder filters or two encoder filters of every kind, three chunks
\* of body, request trailers.
SPECIFICATION BothSpec
CONSTANTS
    N = 3
    Chunks = 3
    EnableTrailers = TRUE
    Chains <- AllChains
    EncoderChains <- AllEncoderChains
INVARIANTS
    ChainConsistent
    BodyComplete
    NoBypass
    ResponseInOrder
PROPERTIES
    CallsInProtocol
    MessagesDelivered
CHECK_DEADLOCK FALSE
