--------------------------- MODULE MCEventMission ---------------------------
(***************************************************************************)
(* A mission, datagrams and worlds for model-checking EventMission.        *)
(***************************************************************************)
EXTENDS EventMission, MCMissionTree

\* <Sequence> Fallback [go_a; Sequence [Wait; go_b]]; EmitEvent; WaitEvent
\* </Sequence>
AskChildren ==
    [root |-> <<"either", "done", "await">>,
     either |-> <<"go_a", "detour">>,
     detour |-> <<"rest", "go_b">>,
     go_a |-> <<>>, rest |-> <<>>, go_b |-> <<>>, done |-> <<>>, await |-> <<>>]
AskNode == DOMAIN AskChildren
AskParent == ParentIn(AskNode, AskChildren)
AskDepth == DepthIn(AskNode, AskParent)
AskKind ==
    [root |-> "Sequence", either |-> "Fallback", detour |-> "Sequence",
     go_a |-> "ExecuteAction", rest |-> "Wait", go_b |-> "ExecuteAction",
     await |-> "WaitEvent", done |-> "EmitEvent"]
AskCapabilityOf == [go_a |-> "nav", go_b |-> "nav"]

\* The station's reply, the same from another port of its host, and a reply
\* that is no envelope.
Reply == [ip |-> "station", port |-> 5005, form |-> "envelope",
          header |-> "release"]
Datagrams == {Reply, [Reply EXCEPT !.port = 9], [Reply EXCEPT !.form = "object"]}

\* Without a RequireCapability a busy capability is as good as an available one.
AskTables == {t \in Tables : t["nav"] # "busy"}

Lengths == [release |-> 7, arrived |-> 7]
ObjectPayloads == [done |-> TRUE]
=============================================================================
