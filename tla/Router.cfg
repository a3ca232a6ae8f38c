\* A request and a tunnel, two pieces of body each way, every target; or two
\* workers that choose among three hosts by every method.
SPECIFICATION BothSpec
CONSTANTS
    Kinds = {"http", "connect"}
    Targets = {"ok", "noroute", "nocluster", "nohost"}
    MaxBody = 2
    Workers = {w1, w2}
    N = 3
    Methods = {"rr", "rtt", "most_idle", "none", "random", "dns"}
INVARIANTS
    ResponseWellFormed
    RequestForwarded
    NothingDangles
PROPERTIES
    EveryRequestAnswered
    HostFound
    EveryHostServes
CHECK_DEADLOCK FALSE
