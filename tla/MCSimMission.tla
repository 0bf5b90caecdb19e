----------------------------- MODULE MCSimMission -----------------------------
(***************************************************************************)
(* A mission on the simulator, with two capabilities and an action that    *)
(* has an alternative.                                                     *)
(***************************************************************************)
EXTENDS SimMission, MCMissionTree

\* <Sequence> RequireCapability nav; go_a; Fallback [go_b; Sequence [Wait; go_c]];
\* EmitEvent; WaitEvent </Sequence>
TwoChildren ==
    [root |-> <<"ready", "go_a", "either", "done", "await">>,
     either |-> <<"go_b", "detour">>,
     detour |-> <<"rest", "go_c">>,
     ready |-> <<>>, go_a |-> <<>>, go_b |-> <<>>, rest |-> <<>>, go_c |-> <<>>,
     await |-> <<>>, done |-> <<>>]
TwoNode == DOMAIN TwoChildren
TwoParent == ParentIn(TwoNode, TwoChildren)
TwoDepth == DepthIn(TwoNode, TwoParent)
TwoKind ==
    [n \in TwoNode |->
       CASE n \in {"root", "detour"} -> "Sequence"
         [] n = "either" -> "Fallback"
         [] n = "ready" -> "RequireCapability"
         [] n = "rest" -> "Wait"
         [] n = "await" -> "WaitEvent"
         [] n = "done" -> "EmitEvent"
         [] OTHER -> "ExecuteAction"]
TwoActionOf == [go_a |-> "go_a", go_b |-> "go_b", go_c |-> "go_c"]
TwoCapabilityOf ==
    [ready |-> "nav", go_a |-> "nav", go_b |-> "hold", go_c |-> "nav"]
TwoDurationOf == [nav |-> 1, hold |-> 2]

\* Every table the simulator may answer for the two capabilities.
TwoTables == [{"nav", "hold", NoCapability} -> Availability]

\* Losses that pause a mission on the ground, and a flight in good order.
GroundWorlds ==
    {Healthy, [Healthy EXCEPT !.connected = FALSE],
     [Healthy EXCEPT !.falseFacts = {"sensor"}]}

CalmWorlds == {Healthy}
=============================================================================
