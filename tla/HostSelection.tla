--------------------------- MODULE HostSelection ---------------------------
(***************************************************************************)
(* How the workers choose the host for a request.  A static cluster asks   *)
(* upstream_get of upstream.c for one of the rule's upstreams; a strict    *)
(* DNS cluster takes the next of its healthy hosts.  Each worker has a     *)
(* cluster entry of its own, but lb_create_fn gives all of them the same   *)
(* load balancer, the cluster itself: the round robin position is shared,  *)
(* and so is the vector of hosts, which the main thread replaces when a    *)
(* further endpoint is resolved.  None of this is under a lock, so reads   *)
(* and writes of the shared fields are steps of their own.                 *)
(***************************************************************************)
EXTENDS Naturals, Sequences, FiniteSets

CONSTANTS
    Workers,
    N,              \* upstreams of the rule, or endpoints of the DNS cluster
    Methods         \* subset of the lb methods: see Balancers

(* The methods of a static cluster, and "dns" for a strict DNS cluster.    *)
Balancers == {"rr", "rtt", "most_idle", "none", "random", "dns"}

ASSUME HostsAssumption == N \in Nat /\ Methods \subseteq Balancers

VARIABLES
    method,         \* the lb method
    open,           \* endpoints that DNS has not answered for
    found,          \* endpoints with an address: the hosts
    healthy,        \* m_healthy_hosts; a pointer, NULL within an update
    last,           \* last_upstream_used, m_last_used_element; 0 for none
    pc,             \* where each worker is in choose_host
    vec,            \* the vector a worker borrowed
    pick,           \* the position a worker has computed
    chosen,         \* the last host a worker got: 0 for NULL
    crashed         \* a vector was read after it was freed

hostVars == <<method, open, found, healthy, last, pc, vec, pick, chosen, crashed>>

Hosts == 1 .. N

(* A vector and whether it is the one rp_host_set_impl_init made.          *)
Vector(list, initial) == [null |-> FALSE, list |-> list, initial |-> initial]
Null == [null |-> TRUE, list |-> <<>>, initial |-> FALSE]

(* The hosts S in the order of the endpoints: a set of one sequence.       *)
InOrder(S) == {q \in [1 .. Cardinality(S) -> S] : \A i, j \in DOMAIN q : i < j => q[i] < q[j]}

Vectors == {Null} \cup
    {Vector(q, i) : q \in UNION {InOrder(S) : S \in SUBSET Hosts}, i \in BOOLEAN}

TypeOK ==
    /\ method \in Methods /\ open \subseteq Hosts /\ found \subseteq Hosts
    /\ healthy \in Vectors /\ last \in 0 .. N
    /\ pc \in [Workers -> {"idle", "borrowed", "write"}]
    /\ vec \in [Workers -> Vectors]
    /\ pick \in [Workers -> 0 .. N] /\ chosen \in [Workers -> 0 .. N]
    /\ crashed \in BOOLEAN

(* A static cluster's upstreams are its rule's list and never change.      *)
HostInit ==
    /\ method \in Methods
    /\ open = (IF method = "dns" THEN Hosts ELSE {})
    /\ found = (IF method = "dns" THEN {} ELSE Hosts)
    /\ healthy \in {Vector(q, TRUE) : q \in InOrder(found)}
    /\ last = 0
    /\ pc = [wk \in Workers |-> "idle"]
    /\ vec = [wk \in Workers |-> Null]
    /\ pick = [wk \in Workers |-> 0]
    /\ chosen = [wk \in Workers |-> 0]
    /\ crashed = FALSE

----------------------------------------------------------------------------
(* The main thread.                                                        *)

(* network_dns_resolve_cb with addresses: the hosts are those of all       *)
(* endpoints that have some, and rp_host_set_impl_update_hosts begins to   *)
(* replace the vector by clearing its pointer.  Without addresses nothing  *)
(* changes.  Either way the cluster is then known to the workers.          *)
NetworkDnsResolveCb(t) ==
    /\ ~crashed /\ t \in open /\ ~healthy.null
    /\ open' = open \ {t}
    /\ \/ found' = found \cup {t} /\ healthy' = Null
       \/ UNCHANGED <<found, healthy>>
    /\ UNCHANGED <<method, last, pc, vec, pick, chosen, crashed>>

(* steal_and_ref_hosts returns, and the pointer is set: hosts in the order *)
(* of the endpoints.  The vector gets a reference too many, so that only   *)
(* the initial one is ever freed.                                          *)
SetHealthyHosts ==
    /\ ~crashed /\ healthy.null
    /\ healthy' \in {Vector(q, FALSE) : q \in InOrder(found)}
    /\ UNCHANGED <<method, open, found, last, pc, vec, pick, chosen, crashed>>

----------------------------------------------------------------------------
(* The workers.                                                            *)

(* rp_host_vector_get, which returns NULL for an index out of range.       *)
Get(v, i) == IF i \in DOMAIN v.list THEN v.list[i] ELSE 0

\* Mutant: the position wraps one too late.
NextElementLate(v, i) == IF i > Len(v.list) THEN 1 ELSE i + 1

\* Mutant: the position never passes the first two.
NextElementStuck(v, i) == IF i >= 2 THEN 1 ELSE i + 1

(* The position after i, of a vector that may be shorter than the one i    *)
(* was taken from; 0 is G_MAXUINT32, or no last upstream.                  *)
NextElement(v, i) == IF i >= Len(v.list) THEN 1 ELSE i + 1

Idle(wk) == ~crashed /\ pc[wk] = "idle"

(* choose_host of the cluster entry for a DNS cluster: get_round_robin     *)
(* borrows the vector.                                                     *)
BorrowHosts(wk) ==
    /\ Idle(wk) /\ method = "dns" /\ open # Hosts
    /\ vec' = [vec EXCEPT ![wk] = healthy]
    /\ pc' = [pc EXCEPT ![wk] = "borrowed"]
    /\ UNCHANGED <<method, open, found, healthy, last, pick, chosen, crashed>>

(* The initial vector was freed while it was borrowed.                     *)
Dangling(wk) == vec[wk].initial /\ healthy # vec[wk]

(* get_round_robin takes the only host there is, if any.                   *)
TakeOnlyHost(wk) ==
    /\ ~crashed /\ pc[wk] = "borrowed" /\ Len(vec[wk].list) < 2
    /\ chosen' = [chosen EXCEPT ![wk] = Get(vec[wk], 1)]
    /\ pc' = [pc EXCEPT ![wk] = "idle"] /\ vec' = [vec EXCEPT ![wk] = Null]
    /\ UNCHANGED <<method, open, found, healthy, last, pick, crashed>>

(* It reads a vector that is gone.                                         *)
ReadFreedHosts(wk) ==
    /\ ~crashed /\ pc[wk] = "borrowed" /\ Dangling(wk)
    /\ crashed' = TRUE
    /\ UNCHANGED <<method, open, found, healthy, last, pc, vec, pick, chosen>>

(* It reads the position.                                                  *)
ReadLastElement(wk) ==
    /\ ~crashed /\ pc[wk] = "borrowed" /\ Len(vec[wk].list) >= 2
    /\ pick' = [pick EXCEPT ![wk] = NextElement(vec[wk], last)]
    /\ pc' = [pc EXCEPT ![wk] = "write"]
    /\ UNCHANGED <<method, open, found, healthy, last, vec, chosen, crashed>>

(* upstream_get_rr reads last_upstream_used of the rule.                   *)
UpstreamGetRr(wk) ==
    /\ Idle(wk) /\ method = "rr" /\ N >= 2
    /\ vec' = [vec EXCEPT ![wk] = healthy]
    /\ pick' = [pick EXCEPT ![wk] = NextElement(healthy, last)]
    /\ pc' = [pc EXCEPT ![wk] = "write"]
    /\ UNCHANGED <<method, open, found, healthy, last, chosen, crashed>>

(* Both round robins choose the element and write the position back.       *)
WriteLastElement(wk) ==
    /\ ~crashed /\ pc[wk] = "write"
    /\ last' = pick[wk]
    /\ chosen' = [chosen EXCEPT ![wk] = Get(vec[wk], pick[wk])]
    /\ pc' = [pc EXCEPT ![wk] = "idle"] /\ vec' = [vec EXCEPT ![wk] = Null]
    /\ pick' = [pick EXCEPT ![wk] = 0]
    /\ UNCHANGED <<method, open, found, healthy, crashed>>

(* The other methods.  m_rtt and num_idle are never written, so that the   *)
(* comparisons of upstream_get_lowest_rtt, _most_idle and _none all settle *)
(* on the first upstream; upstream_get knows no random choice.             *)
UpstreamGetOther(wk) ==
    /\ Idle(wk)
    /\ method \in {"rtt", "most_idle", "none", "random"} \/ (method = "rr" /\ N < 2)
    /\ chosen' = [chosen EXCEPT ![wk] = IF method = "random" THEN 0 ELSE Get(healthy, 1)]
    /\ UNCHANGED <<method, open, found, healthy, last, pc, vec, pick, crashed>>

ChooseHost(wk) ==
    \/ BorrowHosts(wk) \/ TakeOnlyHost(wk) \/ ReadLastElement(wk)
    \/ UpstreamGetRr(wk) \/ WriteLastElement(wk) \/ UpstreamGetOther(wk)

HostNext ==
    \/ \E t \in Hosts : NetworkDnsResolveCb(t)
    \/ SetHealthyHosts
    \/ \E wk \in Workers : ChooseHost(wk) \/ ReadFreedHosts(wk)

HostSpec == HostInit /\ [][HostNext]_hostVars

(* DNS answers in the end, the main thread finishes what it has begun, and *)
(* each worker goes on serving requests.                                   *)
HostFairness ==
    /\ WF_hostVars(\E t \in Hosts : NetworkDnsResolveCb(t)) /\ WF_hostVars(SetHealthyHosts)
    /\ \A wk \in Workers : WF_hostVars(ChooseHost(wk))

----------------------------------------------------------------------------
(* A choice ends without a host, which the router never answers, only if   *)
(* there is none, if the vector is just being replaced, or for the random  *)
(* method: a position written by a worker that saw more hosts never leads  *)
(* a worker out of the vector it holds.                                    *)
HostFound ==
    [][\A wk \in Workers :
          pc[wk] # "idle" /\ pc'[wk] = "idle" /\ found # {}
              => chosen'[wk] # 0 \/ vec[wk].null \/ Dangling(wk)]_hostVars

(* With round robin every host gets requests, however the workers'         *)
(* unlocked updates of the position overwrite each other and whichever     *)
(* hosts are added meanwhile.                                              *)
EveryHostServes ==
    \A h \in Hosts :
        (method \in {"rr", "dns"} /\ h \in found) ~> (crashed \/ \E wk \in Workers : chosen[wk] = h)
=============================================================================
