\* Two workers and a sub-cluster s; the configured cluster b resolves the same
\* host and another one.
SPECIFICATION FairSpec
CONSTANTS
    Workers = {w1, w2}
    Boot = {"b"}
    Subs = {"s"}
    DnsNames <- MCDnsNames
    Interfaces = {{}, {"v4", "v6"}}
    MaxRequests = 2
INVARIANTS
    WakeUpOnItsWay
    ViewsAgree
PROPERTIES
    WaitersContinue
CHECK_DEADLOCK FALSE
