\* Both roles; 2 callbacks, 4 user operations, 2 units of data.
SPECIFICATION FairSpec
CONSTANTS
    Callbacks = 2
    UserOps = 4
    PeerUnits = 2
INVARIANTS
    WritesReachTheSocket
    NoDataAfterClose
PROPERTIES
    SilentOnceFreed
    LostPeerNoticed
    BufferedDataDispatched
CHECK_DEADLOCK FALSE
