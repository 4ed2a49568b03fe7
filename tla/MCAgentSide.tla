----------------------------- MODULE MCAgentSide ----------------------------
(***************************************************************************)
(* What runs at and for the endpoints, in components that share no state   *)
(* with one another: the updates of the agent, its identity, the relay     *)
(* queue, the routes to it, and the policies for uploads and heartbeats.   *)
(* A behaviour takes up one of them; the others stay in an initial state.  *)
(***************************************************************************)
EXTENDS AgentUpdates, EndpointIdentity, RelayQueue, RelayRoutes, RelayPolicies, TLC

CONSTANTS f1, f2

\* An alert and a batch of logs; both fit into the queue, exactly.
MCKind == f1 :> "tamper_alert" @@ f2 :> "agent_log_batch"
MCSize == f1 :> 1 @@ f2 :> 2

MCRoutes == <<"primary", "secondary">>

\* Every single window; pairs that overlap, touch or share an identifier.
MCWindow(ids, days, ends, enabled) ==
  [id : ids, days : days, start : 0..DayLength-1, end : ends, enabled : enabled]
MCWindowSets ==
  {<<>>} \cup {<<w>> : w \in MCWindow({1}, SUBSET (0..WeekLength-1), 0..DayLength-1, BOOLEAN)}
  \cup {<<w, v>> : w \in MCWindow({1}, {{0}}, {0, DayLength-1}, {TRUE}),
                   v \in MCWindow({1, 2}, {{0}, {1}}, {0, DayLength-1}, {TRUE})}
MCPolicy ==
  {[target |-> t, allow |-> grace > 0, grace |-> grace] :
     t \in {"endpoint", "other", "group"}, grace \in 0..1}
MCPolicySets ==
  {<<[target |-> t, allow |-> TRUE, grace |-> 2], p>> : t \in {"endpoint", "group"}, p \in MCPolicy}
  \cup {<<[target |-> t, allow |-> TRUE, grace |-> 0]>> : t \in {"endpoint", "group"}}

VARIABLE part

AgentSideInit ==
  /\ part \in {"updates", "identity", "queue", "routes", "policies"}
  /\ UpdatesInit /\ (part # "updates" => platform = "unix")
  /\ IdentityInit
  /\ RelayInit /\ (part # "queue" => file.version = 3 /\ Queued = {})
  /\ RoutesInit
  /\ IF part = "policies" THEN PoliciesInit
     ELSE question = [windows |-> <<>>, policies |-> <<>>, ahead |-> 0, at |-> FirstTime]

AgentSideNext ==
  /\ UNCHANGED part
  /\ \/ /\ part = "updates" /\ UpdatesNext
        /\ UNCHANGED <<identityVars, relayVars, routeVars, question>>
     \/ /\ part = "identity" /\ IdentityNext
        /\ UNCHANGED <<updatesVars, relayVars, routeVars, question>>
     \/ /\ part = "queue" /\ RelayNext
        /\ UNCHANGED <<updatesVars, identityVars, routeVars, question>>
     \/ /\ part = "routes" /\ RoutesNext
        /\ UNCHANGED <<updatesVars, identityVars, relayVars, question>>
     \/ /\ part = "policies" /\ AskLater
        /\ UNCHANGED <<updatesVars, identityVars, relayVars, routeVars>>

AgentSideSpec ==
  AgentSideInit /\ [][AgentSideNext]_<<part, updatesVars, identityVars, relayVars, routeVars, question>>
=============================================================================
