------------------------------ MODULE Clusters ------------------------------
(***************************************************************************)
(* How a worker comes to know a cluster: the cluster manager of the main   *)
(* thread with its init helper, strict DNS clusters and the DNS resolver,  *)
(* the clusters each worker keeps in thread local storage, and the dynamic *)
(* forward proxy, whose requests wait on a worker while the main thread    *)
(* makes the sub-cluster they asked for.                                   *)
(*                                                                         *)
(* The main thread runs the callbacks posted to it one at a time, in       *)
(* order, and DNS answers in between; every worker does the same with its  *)
(* own queue and with the requests it serves.  The queues are those of     *)
(* Dispatcher, the delivery to all workers is that of ThreadLocal.         *)
(***************************************************************************)
EXTENDS Naturals, Sequences, FiniteSets, SequencesExt, Functions

CONSTANTS
    Workers,
    Boot,           \* strict DNS clusters of the configuration file
    Subs,           \* sub-clusters a request may ask for: host and port
    DnsNames,       \* the names a cluster resolves, one for each of its endpoints
    Interfaces,     \* what getifaddrs may say: sets of families
    MaxRequests     \* bound: requests in a behaviour

Clusters == Boot \cup Subs
Dfp == "dfp"        \* the dynamic forward proxy cluster, initialised at once
Requests == 1 .. MaxRequests
TargetsOf(n) == {n} \X DnsNames[n]
Targets == UNION {TargetsOf(n) : n \in Clusters}
Names == {t[2] : t \in Targets}

ASSUME ClustersAssumption ==
    /\ Boot \cap Subs = {} /\ Dfp \notin Clusters /\ "none" \notin Subs
    /\ \A n \in Clusters : DnsNames[n] # {}
    /\ IsFiniteSet(Targets)
ASSUME WorkersAssumption == Workers # {} /\ Subs # {}
ASSUME InterfacesAssumption == Interfaces \subseteq SUBSET {"v4", "v6"}
ASSUME MaxRequestsAssumption == MaxRequests \in Nat

VARIABLES
    known,          \* the proxy's cluster map, shared under its lock: m_cluster_map
    mainQ,          \* callbacks posted to the main thread
    inflight,       \* the resolver's queries by name: m_inflight
    where,          \* the manager's table a cluster is in: warming or active
    callback,       \* a cluster's initialize callback: whose, if it still waits
    helper,         \* the init helper: its state and m_primary_init_clusters
    hosts,          \* targets for which the main thread has addresses
    workerQ,        \* clusters whose update_cb is posted to a worker
    tls,            \* m_thread_local_clusters of a worker
    posting,        \* a worker between its entry in the map and its post
    pending,        \* m_pending_clusters of a worker: requests by cluster
    req,            \* the requests
    stranded,       \* targets whose answer nobody will ever get
    abort           \* the assertion that failed, or "none"

vars == <<known, mainQ, inflight, where, callback, helper, hosts,
          workerQ, tls, posting, pending, req, stranded, abort>>

Posts == [what: {"add"}, name: Subs]
         \cup [what: {"start", "resolved"}, target: Targets, found: BOOLEAN]

TypeOK ==
    /\ known \subseteq Subs /\ hosts \subseteq Targets /\ stranded \subseteq Targets
    /\ mainQ \in Seq(Posts)
    /\ inflight \in [Names -> [family: {"none", "v4", "v6"}, up: SUBSET {"v4", "v6"},
                               waiters: Seq(Targets)]]
    /\ where \in [Clusters -> {"nowhere", "warming", "active"}]
    /\ callback \in [Clusters -> {"none", "helper", "manager", "done"}]
    /\ helper \in [all: BOOLEAN, primary: SUBSET Clusters]
    /\ workerQ \in [Workers -> Seq(Clusters \cup {Dfp})]
    /\ tls \in [Workers -> SUBSET (Clusters \cup {Dfp})]
    /\ posting \in [Workers -> Subs \cup {"none"}]
    /\ pending \in [Workers -> [Subs -> SUBSET Requests]]
    /\ req \in [Requests -> [state: {"new", "waiting", "routed", "gone"},
                             worker: Workers, cluster: Subs]]
    /\ abort \in {"none", "all clusters initialized:184",
                  "no callback:69", "not waiting"}

(* A resolver query that is not running.                                   *)
Idle == [family |-> "none", up |-> {}, waiters |-> <<>>]

(* resolve_i for every endpoint of a cluster, in any order.                *)
StartPosts(T) ==
    {[i \in DOMAIN q |-> [what |-> "start", target |-> q[i], found |-> FALSE]] :
        q \in SetToSeqs(T)}

(* The state once the configured clusters were loaded: initialize_i of the *)
(* manager makes them active, sets the slot of the workers and starts them *)
(* through the init helper; the proxy's cluster was initialised then and   *)
(* there.                                                                  *)
Init ==
    /\ known = {} /\ hosts = {} /\ stranded = {}
    /\ mainQ \in StartPosts(UNION {TargetsOf(n) : n \in Boot})
    /\ inflight = [d \in Names |-> Idle]
    /\ where = [n \in Clusters |-> IF n \in Boot THEN "active" ELSE "nowhere"]
    /\ callback = [n \in Clusters |-> IF n \in Boot THEN "helper" ELSE "none"]
    /\ helper = [all |-> Boot = {}, primary |-> Boot]
    /\ workerQ = [w \in Workers |-> <<Dfp>>]
    /\ tls = [w \in Workers |-> {}]
    /\ posting = [w \in Workers |-> "none"]
    /\ pending = [w \in Workers |-> [n \in Subs |-> {}]]
    /\ req = [r \in Requests |-> [state |-> "new", worker |-> CHOOSE w \in Workers : TRUE,
                                  cluster |-> CHOOSE n \in Subs : TRUE]]
    /\ abort = "none"

----------------------------------------------------------------------------
(* A worker's requests.                                                    *)

(* touch of the proxy's cluster, a lookup under the lock of its map.       *)
Touch(n) == n \in known

(* What load_dynamic_cluster lets go on to the router at once: a request   *)
(* whose sub-cluster this worker has, and touches.                         *)
LoadedHere(w, n) == n \in tls[w] /\ Touch(n)

(* create_sub_cluster_config: the one that enters the name into the map,   *)
(* under its lock, is given a configuration to post.                       *)
CreateSubClusterConfig(w, n) ==
    /\ known' = known \cup {n}
    /\ posting' = [posting EXCEPT ![w] = IF n \in known THEN "none" ELSE n]

\* Mutant: only the request that made the configuration is entered.
NewHandleFirstOnly(r, w, n) ==
    pending' = IF n \in known THEN pending ELSE [pending EXCEPT ![w][n] = @ \cup {r}]

(* The handle of a request, entered in the worker's table as it is made.   *)
NewHandle(r, w, n) == pending' = [pending EXCEPT ![w][n] = @ \cup {r}]

(* decode_headers_i of the dynamic forward proxy with add_dynamic_cluster. *)
(* A request that comes before the proxy's own cluster is here goes on to  *)
(* the router, like those for other clusters; one that does not find its   *)
(* sub-cluster here stops, and is entered among those pending.             *)
DecodeHeaders(r, w, n) ==
    /\ req[r].state = "new" /\ posting[w] = "none"
    /\ \A q \in Requests : q < r => req[q].state # "new"
    /\ \/ /\ Dfp \notin tls[w] \/ LoadedHere(w, n)
          /\ req' = [req EXCEPT ![r] = [state |-> "routed", worker |-> w, cluster |-> n]]
          /\ UNCHANGED <<known, posting, pending>>
       \/ /\ Dfp \in tls[w] /\ ~ LoadedHere(w, n)
          /\ req' = [req EXCEPT ![r] = [state |-> "waiting", worker |-> w, cluster |-> n]]
          /\ CreateSubClusterConfig(w, n)
          /\ NewHandle(r, w, n)
    /\ UNCHANGED <<mainQ, inflight, where, callback, helper, hosts, workerQ, tls,
                   stranded, abort>>

(* The rest of add_dynamic_cluster, after the lock of the map is released. *)
PostAdd(w) ==
    /\ posting[w] # "none"
    /\ mainQ' = Append(mainQ, [what |-> "add", name |-> posting[w]])
    /\ posting' = [posting EXCEPT ![w] = "none"]
    /\ UNCHANGED <<known, inflight, where, callback, helper, hosts, workerQ, tls,
                   pending, req, stranded, abort>>

(* The downstream goes while its request waits: dispose of the filter does *)
(* not let go of the handle, which stays pending.                          *)
DownstreamGone(r) ==
    /\ req[r].state = "waiting" /\ posting[req[r].worker] = "none"
    /\ req' = [req EXCEPT ![r].state = "gone"]
    /\ UNCHANGED <<known, mainQ, inflight, where, callback, helper, hosts, workerQ,
                   tls, posting, pending, stranded, abort>>

(* on_cluster_add_or_update of the worker's table: every request that      *)
(* waits for the cluster goes on, the callback of one that is gone is      *)
(* called too, and the entry is removed.                                   *)
OnClusterAddOrUpdate(w, n) ==
    /\ pending' = [pending EXCEPT ![w][n] = {}]
    /\ req' = [r \in Requests |->
          IF r \in pending[w][n] /\ req[r].state = "waiting"
          THEN [req[r] EXCEPT !.state = "routed"] ELSE req[r]]
    /\ abort' = IF \E r \in pending[w][n] : req[r].state \notin {"waiting", "gone"}
                THEN "not waiting" ELSE abort

(* update_cb on a worker: the cluster is entered, then those who wait for  *)
(* it are told.                                                            *)
UpdateCb(w) ==
    /\ posting[w] = "none" /\ workerQ[w] # <<>>
    /\ workerQ' = [workerQ EXCEPT ![w] = Tail(@)]
    /\ tls' = [tls EXCEPT ![w] = @ \cup {Head(workerQ[w])}]
    /\ IF Head(workerQ[w]) \in Subs THEN OnClusterAddOrUpdate(w, Head(workerQ[w]))
       ELSE UNCHANGED <<pending, req, abort>>
    /\ UNCHANGED <<known, mainQ, inflight, where, callback, helper, hosts, posting,
                   stranded>>

----------------------------------------------------------------------------
(* The main thread.  Its posted callbacks are taken in order.              *)

Next1 == Head(mainQ)
Runs(what) == mainQ # <<>> /\ Next1.what = what

(* What trigger_callback_cb will be given for each waiter of a query.      *)
Answers(d, found) ==
    [i \in DOMAIN inflight[d].waiters |->
        [what |-> "resolved", target |-> inflight[d].waiters[i], found |-> found]]

\* Mutant: only the query that was started first is answered.
FinishResolveLeader(d, found) ==
    /\ mainQ' = Append(mainQ, Answers(d, found)[1])
    /\ inflight' = [inflight EXCEPT ![d] = Idle]

(* finish_resolve: the answer is posted to every waiter, in the order they *)
(* came, and the query leaves the table.                                   *)
FinishResolve(d, found) ==
    /\ mainQ' = mainQ \o Answers(d, found)
    /\ inflight' = [inflight EXCEPT ![d] = Idle]

(* start_resolution_impl: a family without an interface is answered at     *)
(* once, with nothing, and the other one is asked.                         *)
FirstFamily(up) == IF "v4" \in up THEN "v4" ELSE "v6"

(* start_resolution_cb: a query for the same name is joined, else one is   *)
(* started for the families that have an interface, IPv4 first.  Without   *)
(* an interface it is finished before its only waiter is entered.          *)
StartResolution ==
    /\ Runs("start")
    /\ mainQ' = Tail(mainQ)
    /\ LET t == Next1.target
       IN  \/ /\ inflight[t[2]].family # "none"
              /\ inflight' = [inflight EXCEPT ![t[2]].waiters = Append(@, t)]
              /\ UNCHANGED stranded
           \/ /\ inflight[t[2]].family = "none"
              /\ \E up \in Interfaces :
                    \/ /\ up # {}
                       /\ inflight' = [inflight EXCEPT ![t[2]] =
                             [family |-> FirstFamily(up), up |-> up, waiters |-> <<t>>]]
                       /\ UNCHANGED stranded
                    \/ /\ up = {}
                       /\ stranded' = stranded \cup {t}
                       /\ UNCHANGED inflight
    /\ UNCHANGED <<known, where, callback, helper, hosts, workerQ, tls, posting,
                   pending, req, abort>>

(* evdns_get_addr_info_cb: addresses, or none of the family asked for, in  *)
(* which case the other family is asked next; an error counts as none.     *)
EvdnsGetAddrInfo(d) ==
    /\ inflight[d].family # "none"
    /\ \/ FinishResolve(d, TRUE)
       \/ /\ inflight[d].family = "v4" /\ "v6" \in inflight[d].up
          /\ inflight' = [inflight EXCEPT ![d].family = "v6"]
          /\ UNCHANGED mainQ
       \/ /\ inflight[d].family = "v6" \/ "v6" \notin inflight[d].up
          /\ FinishResolve(d, FALSE)
    /\ UNCHANGED <<known, where, callback, helper, hosts, workerQ, tls, posting,
                   pending, req, stranded, abort>>

(* A warming cluster moves to the active ones; a configured one is there.  *)
ClusterWarmingToActive(n) == where' = [where EXCEPT ![n] = "active"]

(* post_thread_local_cluster_update: update_cb is posted to every worker.  *)
PostThreadLocalClusterUpdate(n) == workerQ' = [w \in Workers |-> Append(workerQ[w], n)]

(* on_cluster_init of the manager.                                         *)
OnClusterInit(n) ==
    /\ ClusterWarmingToActive(n)
    /\ PostThreadLocalClusterUpdate(n)
    /\ callback' = [callback EXCEPT ![n] = "done"]

(* remove_cluster of the init helper with maybe_finish_initialize.         *)
RemoveCluster(n) ==
    helper' = [primary |-> helper.primary \ {n}, all |-> helper.primary \subseteq {n}]

(* The hosts of a cluster are those found for any of its endpoints.        *)
UpdateAllHosts(t, found) == hosts' = IF found THEN hosts \cup {t} ELSE hosts

(* on_pre_init_complete and finish_initialization: the first answer,       *)
(* whatever it says, ends the initialisation, and the init helper's        *)
(* callback or the manager's is called.                                    *)
OnPreInitComplete(n) ==
    \/ /\ callback[n] = "done"
       /\ UNCHANGED <<where, callback, helper, workerQ, abort>>
    \/ /\ callback[n] # "done"
       /\ abort' = IF callback[n] = "none" THEN "no callback:69"
                   ELSE IF callback[n] = "helper" /\ helper.all
                   THEN "all clusters initialized:184" ELSE abort
       /\ OnClusterInit(n)
       /\ IF callback[n] = "helper" THEN RemoveCluster(n) ELSE UNCHANGED helper

(* network_dns_resolve_cb.  An answer after the first changes the hosts of *)
(* the main thread only.                                                   *)
NetworkDnsResolve ==
    /\ Runs("resolved")
    /\ mainQ' = Tail(mainQ)
    /\ UpdateAllHosts(Next1.target, Next1.found)
    /\ OnPreInitComplete(Next1.target[1])
    /\ UNCHANGED <<known, inflight, tls, posting, pending, req, stranded>>

\* Mutant: the init helper is not told of a cluster that is added late.
AddClusterUntold(n) ==
    /\ helper' = helper
    /\ callback' = [callback EXCEPT ![n] = IF helper.all THEN "manager" ELSE "helper"]

(* add_cluster of the init helper while some configured cluster is not     *)
(* initialised; afterwards the manager initialises the cluster itself.     *)
AddCluster(n) ==
    /\ helper' = IF helper.all THEN helper ELSE [helper EXCEPT !.primary = @ \cup {n}]
    /\ callback' = [callback EXCEPT ![n] = IF helper.all THEN "manager" ELSE "helper"]

(* add_or_update_cluster_cb: the same configuration again is refused, else *)
(* the cluster is loaded among the warming ones and its names are asked    *)
(* for.                                                                    *)
AddOrUpdateCluster ==
    /\ Runs("add")
    /\ LET n == Next1.name
       IN  IF where[n] # "nowhere"
           THEN mainQ' = Tail(mainQ) /\ UNCHANGED <<where, callback, helper>>
           ELSE /\ where' = [where EXCEPT ![n] = "warming"]
                /\ AddCluster(n)
                /\ \E starts \in StartPosts(TargetsOf(n)) : mainQ' = Tail(mainQ) \o starts
    /\ UNCHANGED <<known, inflight, hosts, workerQ, tls, posting, pending, req,
                   stranded, abort>>

----------------------------------------------------------------------------
MainStep == StartResolution \/ NetworkDnsResolve \/ AddOrUpdateCluster

Next ==
    \/ \E r \in Requests, w \in Workers, n \in Subs : DecodeHeaders(r, w, n)
    \/ \E r \in Requests : DownstreamGone(r)
    \/ \E w \in Workers : PostAdd(w) \/ UpdateCb(w)
    \/ \E d \in Names : EvdnsGetAddrInfo(d)
    \/ MainStep

(* The main loop and the workers run what was posted to them, a worker     *)
(* does not stop within add_dynamic_cluster, and evdns answers a query, if *)
(* only by a timeout.                                                      *)
Fairness ==
    /\ WF_vars(MainStep)
    /\ \A w \in Workers : WF_vars(PostAdd(w) \/ UpdateCb(w))
    /\ \A d \in Names : WF_vars(EvdnsGetAddrInfo(d))

Spec == Init /\ [][Next]_vars
FairSpec == Spec /\ Fairness

----------------------------------------------------------------------------
Posted(what, t) == {i \in DOMAIN mainQ : mainQ[i].what = what /\ what # "add" /\ mainQ[i].target = t}
Waits(t) == {i \in DOMAIN inflight[t[2]].waiters : inflight[t[2]].waiters[i] = t}
Outstanding(t) ==
    Cardinality(Posted("start", t)) + Cardinality(Posted("resolved", t)) + Cardinality(Waits(t))
Holds(w, n) == n \in tls[w] \/ n \in ToSet(workerQ[w])

(* A request that waits is entered with its worker, and what will wake it  *)
(* is on its way: its sub-cluster is about to be posted to the main        *)
(* thread, is posted, is warming with a query open, or is posted back to   *)
(* this worker.  The lookup in thread local storage, the map shared by the *)
(* workers and the joining of DNS queries leave no gap between them.  (A   *)
(* query that was answered with no interface up is the exception.)         *)
WakeUpOnItsWay ==
    \A r \in Requests : req[r].state = "waiting" =>
        LET w == req[r].worker
            n == req[r].cluster
        IN  /\ r \in pending[w][n]
            /\ \/ \E v \in Workers : posting[v] = n
               \/ \E i \in DOMAIN mainQ : mainQ[i].what = "add" /\ mainQ[i].name = n
               \/ /\ where[n] = "warming"
                  /\ \E t \in TargetsOf(n) : Outstanding(t) = 1 \/ t \in stranded
               \/ n \in ToSet(workerQ[w])

(* The main thread and the workers agree: no assertion of the managers     *)
(* fails and no callback reaches a request that already went on; the       *)
(* workers hold, or have posted to them, exactly the clusters that are     *)
(* initialised, each once; the init helper waits for the clusters it was   *)
(* given and no others, and is done when there are none left; and every    *)
(* endpoint is resolved at most once.                                      *)
ViewsAgree ==
    /\ abort = "none"
    /\ \A n \in Clusters :
          /\ (where[n] = "active" /\ n \in Subs) => callback[n] = "done"
          /\ (where[n] = "warming") => callback[n] \in {"helper", "manager"}
          /\ \A w \in Workers : Holds(w, n) <=> callback[n] = "done"
    /\ \A w \in Workers :
          tls[w] \cap ToSet(workerQ[w]) = {} /\ IsInjective(workerQ[w])
    /\ helper.primary = {n \in Clusters : callback[n] = "helper"}
    /\ helper.all <=> helper.primary = {}
    /\ \A t \in Targets : Outstanding(t) <= (IF t \in hosts \cup stranded THEN 0 ELSE 1)

(* A request that waits for its sub-cluster goes on, and every worker      *)
(* learns of every cluster, unless no endpoint's query had an interface.   *)
WaitersContinue ==
    /\ \A r \in Requests :
          (req[r].state = "waiting") ~>
             (req[r].state # "waiting" \/ TargetsOf(req[r].cluster) \subseteq stranded)
    /\ \A n \in Clusters, w \in Workers :
          (n \in known \cup Boot) ~> (n \in tls[w] \/ TargetsOf(n) \subseteq stranded)
============================================================================
