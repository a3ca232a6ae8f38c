\* Three requests, three clients that serve two requests each, a limit on
\* resources that can be hit.
CONSTANTS
    Streams = {s1, s2, s3}
    MaxClients = 3
    MaxRequests = 2
    MaxResources = 3
    Policies = {"Default", "CloseExcess"}
    NoStream = none
SPECIFICATION FairSpec
INVARIANTS
    Bookkeeping
    StreamsAccounted
    NoStalledStream
    DestructReleasesAll
PROPERTIES
    DrainEnds
CHECK_DEADLOCK FALSE
