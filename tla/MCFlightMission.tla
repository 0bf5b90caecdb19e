--------------------------- MODULE MCFlightMission ---------------------------
(***************************************************************************)
(* Missions and sensor reports for model-checking FlightMission.           *)
(***************************************************************************)
EXTENDS FlightMission, MCMissionTree

\* The shape of config/generic_flight_mission.xml, with the hold for its legs.
ShippedChildren ==
    [root |-> <<"need_takeoff", "takeoff", "hold", "need_land", "land">>,
     need_takeoff |-> <<>>, takeoff |-> <<>>, hold |-> <<>>,
     need_land |-> <<>>, land |-> <<>>]
ShippedNode == DOMAIN ShippedChildren
ShippedParent == ParentIn(ShippedNode, ShippedChildren)
ShippedDepth == DepthIn(ShippedNode, ShippedParent)
ShippedKind ==
    [n \in ShippedNode |->
       CASE n = "root" -> "Sequence"
         [] n \in {"need_takeoff", "need_land"} ->
              "RequireCapability"
         [] OTHER -> "ExecuteAction"]
ShippedActionOf == [n \in {"takeoff", "hold", "land"} |-> n]
ShippedCapabilityOf ==
    [need_takeoff |-> "takeoff", takeoff |-> "takeoff", hold |-> "hold",
     need_land |-> "land", land |-> "land"]
NoSeconds == [n \in {} |-> 0]
NoEvents == [n \in {} |-> "none"]

\* <Sequence> takeoff; go </Sequence>, also as a ReactiveSequence.
HopChildren ==
    [root |-> <<"takeoff", "go">>, takeoff |-> <<>>, go |-> <<>>]
HopNode == DOMAIN HopChildren
HopParent == ParentIn(HopNode, HopChildren)
HopDepth == DepthIn(HopNode, HopParent)
HopKind == [root |-> "Sequence", takeoff |-> "ExecuteAction",
            go |-> "ExecuteAction"]
HopActionOf == [takeoff |-> "takeoff", go |-> "go"]
HopCapabilityOf == [takeoff |-> "takeoff", go |-> "navigate"]

\* One of every node: the mission waits, tells, takes off, flies to the second of
\* two alternatives, the first of which the executor refuses, and lands.
RelayChildren ==
    [root |-> <<"warm", "hear", "tell", "takeoff", "either", "land">>,
     hear |-> <<>>, warm |-> <<>>, tell |-> <<>>, takeoff |-> <<>>,
     either |-> <<"bad", "go">>, bad |-> <<>>, go |-> <<>>, land |-> <<>>]
RelayNode == DOMAIN RelayChildren
RelayParent == ParentIn(RelayNode, RelayChildren)
RelayDepth == DepthIn(RelayNode, RelayParent)
RelayKind == [root |-> "Sequence", hear |-> "WaitEvent", warm |-> "Wait",
              tell |-> "EmitEvent", takeoff |-> "ExecuteAction",
              either |-> "Fallback", bad |-> "ExecuteAction",
              go |-> "ExecuteAction", land |-> "ExecuteAction"]
RelayActionOf == [n \in {"takeoff", "bad", "go", "land"} |-> n]
RelayCapabilityOf == [takeoff |-> "takeoff", bad |-> "navigate",
                      go |-> "navigate", land |-> "land"]
RelaySeconds == [warm |-> 0]
RelayEvents == [hear |-> "start", tell |-> "start"]

\* Every table the PX4 executor may answer.
FlightTables ==
    [{"navigate", "hold", "takeoff", "land", NoCapability} -> Availability]

\* Every world a tick may judge.
FlightWorlds ==
    [connected : BOOLEAN, valid : BOOLEAN, age : {0}, airborne : BOOLEAN,
     armed : BOOLEAN, falseFacts : SUBSET {"lcp_healthy"}]

HoldOne == [hold |-> 1]

Good ==
    [state |-> "news", landed |-> "news", pose |-> TRUE, near |-> FALSE,
     flightErrors |-> FALSE, preflightErrors |-> FALSE,
     lcpHealthy |-> TRUE, ready |-> TRUE]

\* Nothing wrong: on the way, and at the target.
FairWeather == {Good, [Good EXCEPT !.near = TRUE]}

\* One thing wrong at a time: late topics, a lost link, no pose, a sensor that is
\* an error before and in flight, a lost position, services that are not ready,
\* an unknown landed state.
Weather ==
    FairWeather \cup
      {[Good EXCEPT !.state = "none", !.landed = "none"],
       [Good EXCEPT !.state = "lost"],
       [Good EXCEPT !.pose = FALSE],
       [Good EXCEPT !.preflightErrors = TRUE, !.flightErrors = TRUE],
       [Good EXCEPT !.lcpHealthy = FALSE],
       [Good EXCEPT !.ready = FALSE],
       [Good EXCEPT !.landed = "undefined"]}

\* Nothing is wrong but the preflight checks.
Unready == {[Good EXCEPT !.preflightErrors = TRUE]}

\* In flight, the pose is lost or the topics are late.
Patchy == FairWeather \cup
    {[Good EXCEPT !.state = "none", !.landed = "none"], [Good EXCEPT !.pose = FALSE]}

\* ... or the link is lost.
Lossy == FairWeather \cup
    {[Good EXCEPT !.state = "lost"], [Good EXCEPT !.pose = FALSE]}
=============================================================================
