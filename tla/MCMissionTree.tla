---------------------------- MODULE MCMissionTree ----------------------------
(***************************************************************************)
(* Missions, worlds and capability tables for model-checking MissionTree.  *)
(***************************************************************************)
EXTENDS MissionTree

ParentIn(nodes, children) ==
    [n \in nodes |->
       IF \E p \in nodes : \E k \in 1..Len(children[p]) : children[p][k] = n
         THEN CHOOSE p \in nodes :
                \E k \in 1..Len(children[p]) : children[p][k] = n
         ELSE NoNode]

\* The distance from the root, a recursive function over the parents.
DepthIn(nodes, parent) ==
    LET depth[n \in nodes] ==
          IF parent[n] = NoNode THEN 0 ELSE depth[parent[n]] + 1
    IN  depth

\* Settings of the missions without a reactive composite.
MixedReactive == {}
MixedActionOf == [go_a |-> "go_a", go_b |-> "go_b"]
MixedSecondsOf == [rest |-> 1]
MixedEventOf == [await |-> "release", done |-> "arrived"]

\* <ReactiveFallback> Sequence [RequireCapability; go_a; EmitEvent;
\* WaitEvent]; ReactiveSequence [go_b; Wait] </ReactiveFallback>
ReactiveChildren ==
    [root |-> <<"main", "backup">>,
     main |-> <<"ready", "go_a", "done", "await">>,
     backup |-> <<"go_b", "rest">>,
     ready |-> <<>>, go_a |-> <<>>, go_b |-> <<>>, rest |-> <<>>,
     done |-> <<>>, await |-> <<>>]
ReactiveNode == DOMAIN ReactiveChildren
ReactiveParent == ParentIn(ReactiveNode, ReactiveChildren)
ReactiveDepth == DepthIn(ReactiveNode, ReactiveParent)
ReactiveKind ==
    [root |-> "Fallback", main |-> "Sequence", backup |-> "Sequence",
     ready |-> "RequireCapability", go_a |-> "ExecuteAction",
     done |-> "EmitEvent", await |-> "WaitEvent", go_b |-> "ExecuteAction",
     rest |-> "Wait"]
ReactiveReactive == {"root", "backup"}
ReactiveActionOf == [go_a |-> "go_a", go_b |-> "go_b"]
ReactiveCapabilityOf == [ready |-> "nav", go_a |-> "nav", go_b |-> "nav"]
ReactiveSecondsOf == [rest |-> 1]
ReactiveEventOf == [done |-> "arrived", await |-> "release"]

-----------------------------------------------------------------------------

Healthy == [connected |-> TRUE, valid |-> TRUE, age |-> 0, airborne |-> FALSE,
            armed |-> FALSE, falseFacts |-> {}]

\* The worlds that make the supervisor's rules differ: fine, lost link or
\* stale state, on the ground and in flight, and a false fact.
Worlds ==
    {Healthy, [Healthy EXCEPT !.airborne = TRUE],
     [Healthy EXCEPT !.connected = FALSE],
     [Healthy EXCEPT !.age = 2, !.armed = TRUE],
     [Healthy EXCEPT !.falseFacts = {"sensor"}]}

\* Clock steps that include a clock set back.
BackAndForth == {-1, 0, 1}

Tables == {[c \in {"nav", NoCapability} |->
              IF c = "nav" THEN a ELSE "unsupported"] : a \in Availability}
=============================================================================
