------------------------------ MODULE MCRouter ------------------------------
(***************************************************************************)
(* The two sides of an upstream host in one run: workers choose hosts, or  *)
(* one request for which a host was chosen, or not, passes through the     *)
(* router.  The side that does not run is one that has ended.              *)
(***************************************************************************)
EXTENDS Router, HostSelection

NoSelection ==
    /\ method = CHOOSE m \in Methods : TRUE
    /\ open = {} /\ found = {} /\ healthy = Null /\ last = 0
    /\ pc = [x \in Workers |-> "idle"] /\ vec = [x \in Workers |-> Null]
    /\ pick = [x \in Workers |-> 0] /\ chosen = [x \in Workers |-> 0]
    /\ crashed = TRUE

NoRequest ==
    w = [InitialWorld(CHOOSE k \in Kinds : TRUE, CHOOSE t \in Targets : TRUE) EXCEPT !.gone = TRUE]

BothInit == (Init /\ NoSelection) \/ (NoRequest /\ HostInit)
BothNext == (Next /\ UNCHANGED hostVars) \/ (HostNext /\ UNCHANGED vars)
BothSpec == BothInit /\ [][BothNext]_<<vars, hostVars>> /\ Fairness /\ HostFairness
=============================================================================
