----------------------------- MODULE RelayRoutes ----------------------------
(***************************************************************************)
(* The route an endpoint uploads over: FailoverController of               *)
(* internal/relaytransport/failover.go.  Routes are approved by the server *)
(* in an order; what the endpoint observes of them and how its deliveries  *)
(* end is the environment's.                                               *)
(***************************************************************************)
EXTENDS Naturals, Sequences, FiniteSets, Functions

CONSTANTS
  Routes,            \* the approved routes, by priority
  Stranger,          \* a route that is observed and not approved
  NoRoute,
  FailureThreshold,
  MaxObservations    \* a bound on the observations of one call

Approved == Range(Routes)

ASSUME RoutesAssumption ==
  /\ Routes \in Seq(Approved) /\ Routes # <<>> /\ IsInjective(Routes)
  /\ Stranger \notin Approved /\ NoRoute \notin Approved \cup {Stranger}
  /\ FailureThreshold \in 1..10 /\ MaxObservations \in Nat

VARIABLES active, failures, answer

routeVars == <<active, failures, answer>>

\* usable: healthy, and observed within ObservationMaxAge.
Observation == [route : Approved \cup {Stranger}, usable : BOOLEAN]
Observations == UNION {[1..n -> Observation] : n \in 0..MaxObservations}

\* A route that is observed twice is not available.
availableRouteIDs(seen) ==
  {r \in Approved \cup {Stranger} :
     LET of == {i \in DOMAIN seen : seen[i].route = r} IN
       Cardinality(of) = 1 /\ \A i \in of : seen[i].usable}

\* answer: what the last call returned, and the routes that were available.
Decided(call, route, previous, available) ==
  answer' = [call |-> call, route |-> route, previous |-> previous,
             failures |-> failures, available |-> available]

RoutesInit ==
  /\ active = NoRoute /\ failures = 0
  /\ answer = [call |-> "new", route |-> NoRoute, previous |-> NoRoute,
               failures |-> 0, available |-> {}]

\* As Candidates, below the active route only.
CandidatesBelow(health) ==
  {i \in DOMAIN Routes : Routes[i] \in health /\
     \A j \in DOMAIN Routes : Routes[j] = active => j < i}

\* Positions of the routes that the loop of Select may take.
Candidates(health) == {i \in DOMAIN Routes : Routes[i] # active /\ Routes[i] \in health}

Select(seen) ==
  LET health == availableRouteIDs(seen) IN
  IF active # NoRoute /\ failures < FailureThreshold /\ active \in health
  THEN Decided("select", active, active, health) /\ UNCHANGED <<active, failures>>
  ELSE IF Candidates(health) = {}
  THEN Decided("select", NoRoute, active, health) /\ UNCHANGED <<active, failures>>
  ELSE LET route == Routes[CHOOSE i \in Candidates(health) :
                             \A j \in Candidates(health) : i <= j] IN
       /\ active' = route /\ failures' = 0
       /\ Decided("select", route, active, health)

RecordDelivery(route, succeeded) ==
  /\ route = active /\ route # NoRoute
  /\ failures' = IF succeeded THEN 0
                 ELSE IF failures < FailureThreshold THEN failures + 1 ELSE failures
  /\ UNCHANGED <<active, answer>>

SelectApprovedRoute(route, seen) ==
  LET health == availableRouteIDs(seen) IN
  IF route \in health \cap Approved
  THEN /\ active' = route /\ failures' = 0
       /\ Decided("server", route, active, health)
  ELSE Decided("server", NoRoute, active, health) /\ UNCHANGED <<active, failures>>

RoutesNext ==
  \/ \E seen \in Observations :
       \/ Select(seen)
       \/ \E r \in Approved \cup {Stranger} : SelectApprovedRoute(r, seen)
  \/ \E r \in Approved, ok \in BOOLEAN : RecordDelivery(r, ok)

RoutesSpec == RoutesInit /\ [][RoutesNext]_routeVars

RoutesTypeOK ==
  /\ active \in Approved \cup {NoRoute} /\ failures \in 0..FailureThreshold
  /\ answer.route \in Approved \cup {NoRoute}

(* Failover neither gives up early nor moves without a reason: Select      *)
(* refuses only when no approved route is available besides the one that   *)
(* is in use, it leaves a route only when that is unavailable or has       *)
(* failed FailureThreshold times in a row, and a route it or the server    *)
(* selects is approved and was observed available, once.                   *)
RoutesServed ==
  /\ answer.route = NoRoute /\ answer.call = "select" =>
       answer.available \cap Approved \subseteq {answer.previous}
  /\ answer.route # NoRoute => answer.route \in answer.available \cap Approved
  /\ answer.call = "select" /\ answer.route \notin {NoRoute, answer.previous} =>
       answer.previous \notin answer.available \/ answer.failures = FailureThreshold

(* "no healthy approved relay route is available" (failover.go, the text   *)
(* of ErrNoApprovedRoute) is answered only when that is so.                *)
RefusalMeansNoRoute ==
  answer.call = "select" /\ answer.route = NoRoute => answer.available \cap Approved = {}
=============================================================================
