\* Two requests: the second finds a pool whose connections were all closed.
CONSTANTS
    Streams = {s1, s2}
    MaxClients = 4
    MaxRequests = 2
    MaxResources = 1000
    Policies = {"Default"}
    NoStream = none
SPECIFICATION Spec
INVARIANTS
    PendingHasClient
CHECK_DEADLOCK FALSE
