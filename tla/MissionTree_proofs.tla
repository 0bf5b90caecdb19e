------------------------- MODULE MissionTree_proofs -------------------------
(***************************************************************************)
(* Machine-checked properties of MissionTree, for every well-formed tree,  *)
(* every executor, every world and every capability table.                 *)
(***************************************************************************)
EXTENDS MissionTree, TLAPS

\* The loop of composite p is at its child c.
At(p, c) == index[p] \in 1..Len(Children[p]) /\ Children[p][index[p]] = c

\* The call stack: every frame but the root's was called from the current
\* index of its parent's frame, there is one frame per depth, and the cursor is
\* the deepest one (or has just left it).
StackInv ==
    /\ phase = "out" => frames = {}
    /\ phase = "enter" => cursor \in frames
    /\ phase = "back" =>
         /\ cursor \notin frames
         /\ last[cursor] # "idle"
         /\ cursor # Root =>
              Parent[cursor] \in frames /\ At(Parent[cursor], cursor)
    /\ \A n \in frames \ {Root} : Parent[n] \in frames /\ At(Parent[n], n)
    /\ \A n \in frames : n = cursor \/ Depth[n] < Depth[cursor]
    /\ \A m, n \in frames : Depth[m] = Depth[n] => m = n

\* The walk has entered p but not yet looked at its children, or is not in p.
Settled(p) == p \notin frames \/ (phase = "enter" /\ cursor = p)

RunningLeaf == {n \in Leaf : last[n] = "running"}

\* A node never called has called nothing.
IdleBelow ==
    \A n \in Node : last[n] = "idle" /\ Settled(n) =>
      /\ index[n] = 1
      /\ \A k \in 1..Len(Children[n]) : last[Children[n][k]] = "idle"

\* The children after the index have never been called.
IdleAfter ==
    \A n \in Node : \A k \in 1..Len(Children[n]) :
      k > index[n] => last[Children[n][k]] = "idle"

\* A running composite is running because of the child at its index.
RunningBelow ==
    \A n \in Composite : last[n] = "running" /\ Settled(n) =>
      /\ index[n] \in 1..Len(Children[n])
      /\ last[Children[n][index[n]]] = "running"

\* At most one leaf is running; the walk goes down to it, or no leaf runs.
OneRunning ==
    /\ \A m, n \in RunningLeaf : m = n
    /\ phase = "enter" =>
         last[cursor] = "running" \/ (last[cursor] = "idle" /\ RunningLeaf = {})
    /\ phase = "back" /\ last[cursor] # "running" => RunningLeaf = {}
    /\ phase = "out" /\ last[Root] # "running" => RunningLeaf = {}
    /\ phase = "out" /\ ~terminal => last[Root] \in {"idle", "running"}

\* Without reactive nodes the walk follows the branch that was running.
BranchInv == IdleBelow /\ IdleAfter /\ RunningBelow /\ OneRunning

\* What the tree knows of its actions.
ActionInv ==
    /\ \A n \in submitted : last[n] # "idle"
    /\ \A n \in Outstanding : n \in submitted /\ runtime.activeActionId = ActionOf[n]
    /\ \A n \in Node : Kind[n] = "EmitEvent" => last[n] # "running"


-----------------------------------------------------------------------------
(* The constants.                                                          *)

\* A child named by Children is a node other than the root, its Parent is the
\* composite that names it, and it is named once (parse_node builds a tree).
LEMMA ChildFacts ==
    ASSUME NEW p \in Node, NEW k \in 1..Len(Children[p])
    PROVE  /\ Children[p][k] \in Node
           /\ Children[p][k] # Root
           /\ Parent[Children[p][k]] = p
           /\ \A j \in 1..Len(Children[p]) : Children[p][j] = Children[p][k] => j = k
           /\ p \in Composite
<1>1. Children[p] \in Seq(Node)
  BY TreeAssumption
<1>2. Children[p][k] \in Node
  BY <1>1
<1>3. Children[p] # <<>>
  BY <1>1
<1> QED
  BY <1>2, <1>3, TreeAssumption

\* Every node but the root has a parent that is a composite node.
LEMMA ParentFacts ==
    ASSUME NEW n \in Node, n # Root
    PROVE  /\ Parent[n] \in Composite
           /\ \E k \in 1..Len(Children[Parent[n]]) : Children[Parent[n]][k] = n
<1>1. Parent[n] \in Node
  BY TreeAssumption
<1>2. PICK k \in 1..Len(Children[Parent[n]]) : Children[Parent[n]][k] = n
  BY TreeAssumption
<1> QED
  BY <1>1, <1>2, ChildFacts

\* The two kinds of composite, and what ends their loops.
LEMMA CompositeFacts ==
    ASSUME NEW p \in Composite
    PROVE  /\ p \in Node
           /\ Kind[p] \in {"Sequence", "Fallback"}
           /\ Children[p] \in Seq(Node) /\ Len(Children[p]) >= 1
           /\ "running" \in Stops(p)
           /\ Stops(p) \subseteq {"running", "success", "failure"}
           /\ Through(p) \in {"success", "failure"}
           /\ \A s \in NodeStatus \ Stops(p) : s # "idle" => s = Through(p)
<1>1. p \in Node /\ Kind[p] \in {"Sequence", "Fallback"}
  BY DEF Composite
<1>2. Children[p] \in Seq(Node) /\ Children[p] # <<>>
  BY <1>1, TreeAssumption
<1>3. Len(Children[p]) >= 1
  BY <1>2
<1> QED
  BY <1>1, <1>2, <1>3 DEF Stops, Through, NodeStatus

\* A node is a composite or a leaf of one of the five leaf kinds.
LEMMA LeafFacts ==
    ASSUME NEW n \in Node, Kind[n] \notin {"Sequence", "Fallback"}
    PROVE  n \in Leaf /\ n \notin Composite /\ Children[n] = <<>>
BY TreeAssumption DEF Leaf, Composite

-----------------------------------------------------------------------------
(* Types.                                                                  *)

\* What the prologue hands to the supervisor, and keeps, is well typed and
\* names the same action.
LEMMA ObservedType ==
    ASSUME TypeOK, NEW world \in WorldState, NEW time \in Int
    PROVE  /\ Observed(world, time) \in MissionRuntime
           /\ Observed(world, time).activeActionId = runtime.activeActionId
BY DEF TypeOK, Observed, WorldState, MissionRuntime, MissionStatus

\* The runtimes a node leaves behind are well typed.
LEMMA NodeRuntimeType ==
    ASSUME TypeOK, NEW n \in Node
    PROVE  SetNode(n) \in MissionRuntime /\ Reject(n) \in MissionRuntime
BY DEF TypeOK, SetNode, Reject, MissionRuntime

\* The values Init and Reset give the nodes.
LEMMA FreshNodeType ==
    /\ [n \in Node |-> 1] \in [Node -> Nat \ {0}]
    /\ [n \in Node |-> {}] \in [Node -> SUBSET Int]
    /\ [n \in Node |-> "idle"] \in [Node -> NodeStatus]
    /\ FreshRuntime \in MissionRuntime
    /\ NoCaps \in [Capability \cup {NoCapability} -> Availability]
<1>1. 1 \in Nat \ {0} /\ {} \in SUBSET Int /\ "idle" \in NodeStatus
  BY DEF NodeStatus
<1>2. FreshRuntime \in MissionRuntime
  BY DEF FreshRuntime, MissionRuntime, MissionStatus
<1>3. NoCaps \in [Capability \cup {NoCapability} -> Availability]
  BY DEF NoCaps, Availability
<1> QED
  BY <1>1, <1>2, <1>3

\* The loop of a composite keeps the types of what it assigns.
LEMMA LoopType ==
    ASSUME TypeOK, NEW p \in Composite, NEW i \in Nat \ {0}, Loop(p, i)
    PROVE  /\ index' \in [Node -> Nat \ {0}]
           /\ last' \in [Node -> NodeStatus]
           /\ frames' \subseteq Node
           /\ cursor' \in Node
           /\ phase' \in {"enter", "back"}
<1>1. p \in Node /\ Through(p) \in NodeStatus
  BY CompositeFacts DEF NodeStatus
<1>2. CASE i <= Len(Children[p])
  <2>1. i \in 1..Len(Children[p])
    BY <1>2, CompositeFacts
  <2> QED
    BY <1>1, <1>2, <2>1, ChildFacts DEF Loop, Call, TypeOK
<1>3. CASE ~(i <= Len(Children[p]))
  BY <1>1, <1>3 DEF Loop, Return, TypeOK
<1> QED
  BY <1>2, <1>3

\* Every step keeps the types.
LEMMA TypeStep ==
    ASSUME TypeOK, [Next]_vars
    PROVE  TypeOK'
<1> USE DEF vars, nodeVars, walkVars, tickVars
<1>1. CASE BeginTick
  <2>1. PICK time \in 0..MaxNow, world \in Sense,
             table \in CapabilityTable, seen \in SUBSET Event :
          \/ TickTerminal(world, time)
          \/ TickPaused(world, time, table)
          \/ TickAborted(world, time, table)
          \/ TickAllowed(world, time, table, seen)
    BY <1>1 DEF BeginTick, Times
  <2>2. /\ time \in Int /\ world \in WorldState
        /\ table \in [Capability \cup {NoCapability} -> Availability]
    BY EnvironmentAssumption
  <2>3. CASE TickTerminal(world, time)
    BY <2>2, <2>3 DEF TickTerminal, TypeOK, WorldState, MissionRuntime
  <2>4. CASE TickPaused(world, time, table)
    <3>1. runtime' \in MissionRuntime
      BY <2>2, <2>4, ObservedType DEF TickPaused, MissionRuntime, MissionStatus
    <3> QED
      BY <2>2, <2>4, <3>1 DEF TickPaused, TypeOK
  <2>5. CASE TickAborted(world, time, table)
    <3> DEFINE seen_ == Observed(world, time)
    <3>1. [[[seen_ EXCEPT !.status = "failed"] EXCEPT !.failureReason = TRUE]
             EXCEPT !.finishedAt = time] \in MissionRuntime
      <4>1. seen_ \in MissionRuntime
        BY <2>2, ObservedType
      <4> HIDE DEF seen_
      <4> QED
        BY <2>2, <4>1 DEF MissionRuntime, MissionStatus
    <3> QED
      BY <2>2, <2>5, <3>1 DEF TickAborted, TypeOK
  <2>6. CASE TickAllowed(world, time, table, seen)
    <3>1. runtime' \in MissionRuntime
      BY <2>2, <2>6, ObservedType DEF TickAllowed, MissionRuntime, MissionStatus
    <3> QED
      BY <2>2, <2>6, <3>1, TreeAssumption DEF TickAllowed, TypeOK
  <2> QED
    BY <2>1, <2>3, <2>4, <2>5, <2>6
<1>2. ASSUME NEW n \in Node, EnterComposite(n) PROVE TypeOK'
  <2>1. n \in Composite
    BY <1>2 DEF EnterComposite
  <2>2. (IF n \in Reactive THEN 1 ELSE index[n]) \in Nat \ {0}
    BY DEF TypeOK
  <2> QED
    BY <1>2, <2>1, <2>2, LoopType, NodeRuntimeType DEF EnterComposite, TypeOK
<1>3. ASSUME NEW n \in Node, StopAtChild(n) PROVE TypeOK'
  BY <1>3 DEF StopAtChild, Return, TypeOK
<1>4. ASSUME NEW n \in Node, AdvanceChild(n) PROVE TypeOK'
  <2>1. n \in Composite
    BY <1>4, ParentFacts, TreeAssumption DEF AdvanceChild, TypeOK
  <2>2. index[n] + 1 \in Nat \ {0}
    BY DEF TypeOK
  <2> QED
    BY <1>4, <2>1, <2>2, LoopType DEF AdvanceChild, TypeOK
<1>5. ASSUME NEW n \in Node, TickWait(n) PROVE TypeOK'
  <2>1. startedAt' \in [Node -> SUBSET Int]
    BY <1>5 DEF TickWait, TypeOK
  <2>2. \/ /\ runtime' = Reject(n) /\ error' = TRUE
           /\ Return(n, "failure")
        \/ /\ runtime' = SetNode(n) /\ error' = error
           /\ Return(n, "success") \/ Return(n, "running")
    BY <1>5 DEF TickWait
  <2> QED
    <3>1. runtime' \in MissionRuntime /\ error' \in BOOLEAN
      BY <2>2, NodeRuntimeType DEF TypeOK
    <3>2. /\ last' \in [Node -> NodeStatus] /\ frames' \subseteq Node
          /\ phase' = "back" /\ cursor' \in Node
      BY <2>2 DEF TypeOK, Return, NodeStatus
    <3>3. UNCHANGED <<terminal, index, submitted, emitted, tickVars>>
      BY <1>5 DEF TickWait
    <3> QED
      BY <2>1, <3>1, <3>2, <3>3 DEF TypeOK
<1>6. ASSUME NEW n \in Node, TickRequireCapability(n) PROVE TypeOK'
  <2>1. \/ /\ runtime' = Reject(n) /\ error' = TRUE
           /\ Return(n, "failure")
        \/ /\ runtime' = SetNode(n) /\ error' = error
           /\ Return(n, "success") \/ Return(n, "running")
    BY <1>6 DEF TickRequireCapability
  <2> QED
    BY <1>6, <2>1, NodeRuntimeType
       DEF TickRequireCapability, Return, TypeOK, NodeStatus
<1>7. ASSUME NEW n \in Node, TickWaitEvent(n) PROVE TypeOK'
  BY <1>7, NodeRuntimeType DEF TickWaitEvent, Return, TypeOK, NodeStatus
<1>8. ASSUME NEW n \in Node, TickEmitEvent(n) PROVE TypeOK'
  BY <1>8, NodeRuntimeType DEF TickEmitEvent, Return, TypeOK, NodeStatus
<1>9. ASSUME NEW n \in Node, RefuseAction(n) PROVE TypeOK'
  BY <1>9, NodeRuntimeType DEF RefuseAction, Return, TypeOK, NodeStatus
<1>10. ASSUME NEW n \in Node, NEW status \in FeedbackStatus, FollowAction(n, status)
       PROVE  TypeOK'
  <2>1. n \in Action /\ ActionOf[n] \in ActionId /\ CapabilityOf[n] \in Capability
    BY <1>10, AttributeAssumption DEF FollowAction, Ticking, Action
  <2> DEFINE held == IF n \in submitted THEN SetNode(n) ELSE Activated(n)
  <2>2. held \in MissionRuntime
    BY <2>1 DEF TypeOK, SetNode, Activated, MissionRuntime
  <2>3. /\ Deactivated(n, held) \in MissionRuntime
        /\ [held EXCEPT !.failureReason = TRUE] \in MissionRuntime
    <3> HIDE DEF held
    <3> QED
      BY <2>2 DEF Deactivated, MissionRuntime
  <2>4. runtime' \in MissionRuntime /\ error' \in BOOLEAN
    BY <1>10, <2>2, <2>3 DEF FollowAction, TypeOK
  <2> QED
    BY <1>10, <2>1, <2>4 DEF FollowAction, Return, TypeOK, NodeStatus
<1>11. CASE FinishTick
  <2>1. runtime' \in MissionRuntime
    BY <1>11 DEF FinishTick, TypeOK, MissionRuntime, MissionStatus
  <2> QED
    BY <1>11, <2>1, FreshNodeType DEF FinishTick, TypeOK
<1>12. CASE Reset
  BY <1>12, FreshNodeType DEF Reset, TypeOK
<1>13. CASE UNCHANGED vars
  BY <1>13 DEF TypeOK
<1> QED
  BY <1>1, <1>2, <1>3, <1>4, <1>5, <1>6, <1>7, <1>8, <1>9, <1>10, <1>11,
     <1>12, <1>13 DEF Next, Walk

\* The tree starts well typed.
LEMMA InitTyped == Init => TypeOK
<1> SUFFICES ASSUME Init PROVE TypeOK
  OBVIOUS
<1>1. /\ index \in [Node -> Nat \ {0}] /\ startedAt \in [Node -> SUBSET Int]
      /\ last \in [Node -> NodeStatus] /\ runtime \in MissionRuntime
      /\ caps \in [Capability \cup {NoCapability} -> Availability]
  BY FreshNodeType, Zenon DEF Init
<1>2. terminal \in BOOLEAN /\ error \in BOOLEAN
  BY Zenon DEF Init
<1>3. /\ now = 0 /\ phase = "out" /\ cursor = NoNode
      /\ submitted = {} /\ frames = {} /\ emitted = {} /\ events = {}
  BY Zenon DEF Init
<1> QED
  BY <1>1, <1>2, <1>3 DEF TypeOK

\* Every variable always has its type: no node index runs out of range of the
\* loops that read it, no status outside the C++ enumerations is produced.
THEOREM TypeCorrect == Spec => []TypeOK
BY InitTyped, TypeStep, PTL DEF Spec

-----------------------------------------------------------------------------
(* The walk.                                                               *)

\* A step of any leaf: the leaf is called and returns a result.
LeafStep(n) ==
    /\ n \in Leaf /\ phase = "enter" /\ cursor = n
    /\ \E status \in {"running", "success", "failure"} : Return(n, status)
    /\ UNCHANGED <<index, terminal>>

\* A tick begins its walk at the root.
StartStep ==
    /\ phase = "out" /\ ~terminal
    /\ cursor' = Root /\ frames' = {Root} /\ phase' = "enter"
    /\ UNCHANGED <<index, last, terminal>>

\* A tick that does not walk: the mission is paused, aborted or over.
SkipStep == phase = "out" /\ UNCHANGED <<index, last, walkVars>> /\ (terminal => terminal')

\* Each leaf action is a leaf step.
LEMMA LeafActions ==
    ASSUME NEW n \in Node,
           \/ TickWait(n) \/ TickRequireCapability(n) \/ TickWaitEvent(n)
           \/ TickEmitEvent(n) \/ RefuseAction(n)
           \/ \E status \in FeedbackStatus : FollowAction(n, status)
    PROVE  LeafStep(n)
<1>1. CASE TickWait(n)
  BY <1>1, LeafFacts DEF TickWait, Ticking, LeafStep
<1>2. CASE TickRequireCapability(n)
  BY <1>2, LeafFacts DEF TickRequireCapability, Ticking, LeafStep
<1>3. CASE TickWaitEvent(n)
  BY <1>3, LeafFacts DEF TickWaitEvent, Ticking, LeafStep
<1>4. CASE TickEmitEvent(n)
  BY <1>4, LeafFacts DEF TickEmitEvent, Ticking, LeafStep
<1>5. CASE RefuseAction(n)
  BY <1>5, LeafFacts DEF RefuseAction, Ticking, LeafStep
<1>6. ASSUME NEW status \in FeedbackStatus, FollowAction(n, status)
      PROVE  LeafStep(n)
  BY <1>6, LeafFacts DEF FollowAction, Ticking, LeafStep
<1> QED
  BY <1>1, <1>2, <1>3, <1>4, <1>5, <1>6

\* Every step is one of seven shapes, as far as the walk is concerned.
LEMMA StepShapes ==
    ASSUME [Next]_vars
    PROVE  \/ SkipStep \/ StartStep
           \/ \E n \in Node : LeafStep(n) \/ EnterComposite(n)
                               \/ StopAtChild(n) \/ AdvanceChild(n)
           \/ FinishTick \/ Reset
           \/ UNCHANGED <<index, last, walkVars, terminal>>
<1> USE DEF nodeVars
<1>1. CASE BeginTick
  <2>1. PICK time \in 0..MaxNow, world \in Sense,
             table \in CapabilityTable, seen \in SUBSET Event :
          \/ TickTerminal(world, time)
          \/ TickPaused(world, time, table)
          \/ TickAborted(world, time, table)
          \/ TickAllowed(world, time, table, seen)
    BY <1>1 DEF BeginTick, Times
  <2>2. CASE TickTerminal(world, time)
    BY <2>2 DEF TickTerminal, SkipStep
  <2>3. CASE TickPaused(world, time, table)
    BY <2>3 DEF TickPaused, SkipStep
  <2>4. CASE TickAborted(world, time, table)
    BY <2>4 DEF TickAborted, SkipStep
  <2>5. CASE TickAllowed(world, time, table, seen)
    BY <2>5 DEF TickAllowed, StartStep
  <2> QED
    BY <2>1, <2>2, <2>3, <2>4, <2>5
<1>2. CASE Walk
  BY <1>2, LeafActions DEF Walk
<1>3. CASE UNCHANGED vars
  BY <1>3 DEF vars
<1> QED
  BY <1>1, <1>2, <1>3 DEF Next

\* The two outcomes of a composite's loop at index i.
LEMMA LoopCases ==
    ASSUME TypeOK, NEW p \in Composite, NEW i \in Nat \ {0}, Loop(p, i)
    PROVE  /\ index' = [index EXCEPT ![p] = i]
           /\ \/ /\ i \in 1..Len(Children[p])
                 /\ Call(Children[p][i])
                 /\ last' = last
              \/ /\ i \notin 1..Len(Children[p])
                 /\ Return(p, Through(p))
<1>1. p \in Node /\ Len(Children[p]) \in Nat
  BY CompositeFacts
<1> QED
  BY <1>1 DEF Loop

\* A child is one deeper than its parent.
LEMMA DepthFacts ==
    /\ \A n \in Node : Depth[n] \in Nat
    /\ Depth[Root] = 0
    /\ \A n \in Node \ {Root} : Parent[n] \in Node /\ Depth[n] = Depth[Parent[n]] + 1
<1>1. \A n \in Node \ {Root} : Parent[n] \in Node
  BY TreeAssumption
<1> QED
  BY <1>1, TreeAssumption

\* p is the deepest frame of the stack: nothing was called from it.
Top(p) == p \in frames /\ \A n \in frames : n = p \/ Depth[n] < Depth[p]

\* The cursor when it is called, and its parent when it has returned, are on
\* top of the stack.
LEMMA TopOfStack ==
    ASSUME TypeOK, StackInv, NEW p \in Node,
           \/ phase = "enter" /\ cursor = p
           \/ phase = "back" /\ cursor # Root /\ Parent[cursor] = p
    PROVE  Top(p)
<1>1. CASE phase = "enter" /\ cursor = p
  BY <1>1 DEF StackInv, Top
<1>2. CASE phase = "back" /\ cursor # Root /\ Parent[cursor] = p
  <2>1. p \in frames /\ cursor \notin frames /\ cursor \in Node
    BY <1>2 DEF StackInv, TypeOK
  <2>2. Depth[cursor] = Depth[p] + 1
    BY <1>2, <2>1, DepthFacts
  <2>3. ASSUME NEW n \in frames, n # p PROVE Depth[n] < Depth[p]
    <3>1. Depth[n] < Depth[cursor] /\ Depth[n] # Depth[p]
      BY <2>1, <2>3 DEF StackInv
    <3>2. Depth[n] \in Nat /\ Depth[p] \in Nat
      BY <2>1, DepthFacts DEF TypeOK
    <3> QED
      BY <2>2, <3>1, <3>2
  <2> QED
    BY <2>1, <2>3 DEF Top
<1> QED
  BY <1>1, <1>2

\* No frame was called from the top of the stack.
LEMMA TopHasNoChild ==
    ASSUME TypeOK, NEW p \in Node, Top(p), NEW n \in frames \ {Root}
    PROVE  Parent[n] # p
<1>1. n \in Node /\ Depth[n] = Depth[Parent[n]] + 1
  BY DepthFacts DEF TypeOK
<1> QED
  BY <1>1, DepthFacts DEF Top

\* Returning from the top of the stack.
LEMMA StackReturn ==
    ASSUME TypeOK, StackInv, NEW p \in Node, Top(p),
           NEW status \in NodeStatus \ {"idle"}, Return(p, status),
           \A n \in frames \ {Root} : At(Parent[n], n)'
    PROVE  StackInv'
<1>1. cursor' = p /\ frames' = frames \ {p} /\ phase' = "back" /\ last'[p] # "idle"
  BY DEF Return, TypeOK
<1>2. \A n \in frames \ {Root} : Parent[n] \in frames'
  BY <1>1, TopHasNoChild DEF StackInv
<1>3. p # Root => Parent[p] \in frames' /\ At(Parent[p], p)'
  BY <1>2 DEF Top
<1>4. \A n \in frames' : Depth[n] < Depth[p]
  BY <1>1 DEF Top
<1>5. \A m, n \in frames' : Depth[m] = Depth[n] => m = n
  BY <1>1 DEF StackInv
<1>6. /\ cursor' \notin frames' /\ last'[cursor'] # "idle"
      /\ cursor' # Root => Parent[cursor'] \in frames' /\ At(Parent[cursor], cursor)'
  BY <1>1, <1>3
<1>7. \A n \in frames' \ {Root} : Parent[n] \in frames' /\ At(Parent[n], n)'
  BY <1>1, <1>2
<1>8. \A n \in frames' : n = cursor' \/ Depth[n] < Depth[cursor']
  BY <1>1, <1>4
<1> QED
  BY <1>1, <1>5, <1>6, <1>7, <1>8 DEF StackInv

\* Going on with the loop of p, the top of the stack.
LEMMA StackLoop ==
    ASSUME TypeOK, StackInv, NEW p \in Composite, NEW i \in Nat \ {0}, Loop(p, i),
           Top(p)
    PROVE  StackInv'
<1>1. p \in Node /\ Through(p) \in NodeStatus \ {"idle"}
  BY CompositeFacts DEF NodeStatus
<1>2. index' = [index EXCEPT ![p] = i]
  BY LoopCases
<1>3. ASSUME NEW n \in frames \ {Root} PROVE At(Parent[n], n)'
  <2>1. At(Parent[n], n) /\ Parent[n] # p
    BY TopHasNoChild, <1>1 DEF StackInv
  <2>2. Parent[n] \in Node
    BY DepthFacts DEF TypeOK
  <2>3. index'[Parent[n]] = index[Parent[n]]
    BY <1>2, <2>1, <2>2 DEF TypeOK
  <2> QED
    BY <2>1, <2>3 DEF At
<1>4. CASE i \in 1..Len(Children[p]) /\ Call(Children[p][i])
  <2> DEFINE c == Children[p][i]
  <2>1. c \in Node /\ c # Root /\ Parent[c] = p
    BY <1>1, <1>4, ChildFacts
  <2>2. Depth[c] = Depth[p] + 1 /\ Depth[p] \in Nat
    BY <1>1, <2>1, DepthFacts
  <2>3. \A n \in frames : Depth[n] \in Nat /\ Depth[n] < Depth[c]
    BY <2>2, DepthFacts DEF Top, TypeOK
  <2>4. At(p, c)'
    BY <1>1, <1>2, <1>4 DEF At, TypeOK
  <2>5. p \in frames
    BY DEF Top
  <2> HIDE DEF c
  <2>6. cursor' = c /\ frames' = frames \cup {c} /\ phase' = "enter"
    BY <1>4 DEF Call, c
  <2>7. \A n \in frames' \ {Root} : Parent[n] \in frames' /\ At(Parent[n], n)'
    BY <1>3, <2>1, <2>4, <2>5, <2>6 DEF StackInv
  <2>8. \A n \in frames' : n = c \/ Depth[n] < Depth[c]
    BY <2>3, <2>6
  <2>9. \A m, n \in frames' : Depth[m] = Depth[n] => m = n
    BY <2>2, <2>3, <2>6 DEF StackInv
  <2> QED
    BY <2>6, <2>7, <2>8, <2>9 DEF StackInv
<1>5. CASE Return(p, Through(p))
  BY <1>1, <1>3, <1>5, StackReturn
<1> QED
  BY <1>4, <1>5, LoopCases

\* Every step keeps the call stack well formed.
LEMMA StackStep ==
    ASSUME TypeOK, StackInv, [Next]_vars
    PROVE  StackInv'
<1>1. CASE SkipStep
  BY <1>1 DEF SkipStep, StackInv, At, walkVars
<1>2. CASE StartStep
  BY <1>2 DEF StartStep, StackInv
<1>3. ASSUME NEW n \in Node, LeafStep(n) PROVE StackInv'
  <2>1. Top(n)
    BY <1>3, TopOfStack DEF LeafStep
  <2>2. PICK status \in NodeStatus \ {"idle"} : Return(n, status)
    BY <1>3 DEF LeafStep, NodeStatus
  <2>3. \A m \in frames \ {Root} : At(Parent[m], m)'
    BY <1>3 DEF LeafStep, StackInv, At
  <2> QED
    BY <2>1, <2>2, <2>3, StackReturn
<1>4. ASSUME NEW n \in Node, EnterComposite(n) PROVE StackInv'
  <2>1. /\ n \in Composite /\ phase = "enter" /\ cursor = n
        /\ Loop(n, IF n \in Reactive THEN 1 ELSE index[n])
    BY <1>4 DEF EnterComposite, Ticking
  <2>2. (IF n \in Reactive THEN 1 ELSE index[n]) \in Nat \ {0}
    BY DEF TypeOK
  <2> QED
    BY <2>1, <2>2, TopOfStack, StackLoop
<1>5. ASSUME NEW p \in Node, StopAtChild(p) PROVE StackInv'
  <2>1. /\ phase = "back" /\ cursor # Root /\ p = Parent[cursor]
        /\ cursor \in Node /\ Return(p, last[cursor]) /\ index' = index
    BY <1>5 DEF StopAtChild, TypeOK
  <2>2. last[cursor] \in NodeStatus \ {"idle"}
    BY <2>1 DEF StackInv, TypeOK
  <2>3. \A n \in frames \ {Root} : At(Parent[n], n)'
    BY <2>1 DEF StackInv, At
  <2> QED
    BY <2>1, <2>2, <2>3, TopOfStack, StackReturn
<1>6. ASSUME NEW p \in Node, AdvanceChild(p) PROVE StackInv'
  <2>1. /\ phase = "back" /\ cursor # Root /\ p = Parent[cursor]
        /\ cursor \in Node /\ Loop(p, index[p] + 1)
    BY <1>6 DEF AdvanceChild, TypeOK
  <2>2. p \in Composite
    BY <2>1, ParentFacts
  <2>3. index[p] + 1 \in Nat \ {0}
    BY DEF TypeOK
  <2> QED
    BY <2>1, <2>2, <2>3, TopOfStack, StackLoop
<1>7. CASE FinishTick
  <2>1. phase = "back" /\ cursor = Root /\ phase' = "out" /\ frames' = frames
    BY <1>7 DEF FinishTick
  <2>2. frames = {}
    BY <2>1, DepthFacts DEF StackInv, TypeOK
  <2> QED
    BY <2>1, <2>2 DEF StackInv
<1>8. CASE Reset
  BY <1>8 DEF Reset, StackInv, walkVars
<1>9. CASE UNCHANGED <<index, last, walkVars, terminal>>
  BY <1>9 DEF StackInv, At, walkVars
<1> QED
  BY <1>1, <1>2, <1>3, <1>4, <1>5, <1>6, <1>7, <1>8, <1>9, StepShapes

-----------------------------------------------------------------------------
(* PassedChildren.                                                         *)

\* A frame is the child its parent's index is at, so no loop has passed it,
\* nor will it be one its parent has yet to reach.
LEMMA FrameIsAtIndex ==
    ASSUME TypeOK, StackInv, NEW n \in frames,
           NEW p \in Node, NEW k \in 1..Len(Children[p]), Children[p][k] = n
    PROVE  k = index[p] /\ p \in frames
<1>1. n # Root /\ Parent[n] = p
  BY ChildFacts
<1>2. At(p, n) /\ p \in frames
  BY <1>1 DEF StackInv
<1> QED
  BY <1>2, ChildFacts DEF At

\* A frame that returns changes the result of no child already passed.
LEMMA ReturnKeepsPassed ==
    ASSUME TypeOK, StackInv, PassedChildren, NEW n \in frames,
           NEW status, Return(n, status),
           NEW p \in Composite, NEW k \in 1..Len(Children[p]), k < index[p]
    PROVE  last'[Children[p][k]] = Through(p)
<1>1. p \in Node /\ index[p] \in Nat
  BY CompositeFacts DEF TypeOK
<1>2. Children[p][k] # n
  BY <1>1, FrameIsAtIndex
<1>3. last[Children[p][k]] = Through(p)
  BY DEF PassedChildren
<1> QED
  BY <1>1, <1>2, <1>3, ChildFacts DEF Return, TypeOK

\* A loop that has passed only finished children keeps PassedChildren.
LEMMA LoopKeepsPassed ==
    ASSUME TypeOK, StackInv, PassedChildren, NEW p \in Composite, p \in frames,
           NEW i \in Nat \ {0}, Loop(p, i),
           \A k \in 1..Len(Children[p]) :
             k < i => last[Children[p][k]] = Through(p) /\ Children[p][k] # p
    PROVE  PassedChildren'
<1> SUFFICES ASSUME NEW q \in Composite, NEW k \in 1..Len(Children[q]), k < index'[q]
             PROVE  last'[Children[q][k]] = Through(q)
  BY DEF PassedChildren
<1>1. p \in Node /\ q \in Node /\ Children[q][k] \in Node
  BY CompositeFacts, ChildFacts
<1>2. index' = [index EXCEPT ![p] = i] /\ (last' = last \/ Return(p, Through(p)))
  BY LoopCases
<1>3. CASE q = p
  <2>1. last[Children[p][k]] = Through(p) /\ Children[p][k] # p
    BY <1>1, <1>2, <1>3 DEF TypeOK
  <2> QED
    BY <1>1, <1>2, <1>3, <2>1 DEF Return, TypeOK
<1>4. CASE q # p
  <2>1. k < index[q]
    BY <1>1, <1>2, <1>4 DEF TypeOK
  <2> QED
    BY <1>2, <2>1, ReturnKeepsPassed DEF PassedChildren
<1> QED
  BY <1>3, <1>4

\* A child is not its own parent.
LEMMA NotOwnChild ==
    ASSUME NEW p \in Node, NEW k \in 1..Len(Children[p])
    PROVE  Children[p][k] # p
<1>1. Children[p][k] \in Node \ {Root} /\ Parent[Children[p][k]] = p
  BY ChildFacts
<1> QED
  BY <1>1, DepthFacts

\* Every step keeps PassedChildren.
LEMMA PassedStep ==
    ASSUME TypeOK, StackInv, PassedChildren, [Next]_vars
    PROVE  PassedChildren'
<1>1. CASE SkipStep \/ StartStep \/ UNCHANGED <<index, last, walkVars, terminal>>
  BY <1>1 DEF SkipStep, StartStep, PassedChildren
<1>2. ASSUME NEW n \in Node, LeafStep(n) PROVE PassedChildren'
  <2>1. n \in frames /\ index' = index /\ \E status : Return(n, status)
    BY <1>2 DEF LeafStep, StackInv
  <2> QED
    BY <2>1, ReturnKeepsPassed DEF PassedChildren
<1>3. ASSUME NEW n \in Node, EnterComposite(n) PROVE PassedChildren'
  <2> DEFINE i == IF n \in Reactive THEN 1 ELSE index[n]
  <2>1. n \in Composite /\ n \in frames /\ Loop(n, i)
    BY <1>3 DEF EnterComposite, Ticking, StackInv
  <2>2. i \in Nat \ {0} /\ i <= index[n]
    BY DEF TypeOK
  <2>3. \A k \in 1..Len(Children[n]) :
          k < i => last[Children[n][k]] = Through(n) /\ Children[n][k] # n
    <3> HIDE DEF i
    <3>1. index[n] \in Nat
      BY DEF TypeOK
    <3> QED
      BY <2>1, <2>2, <3>1, NotOwnChild DEF PassedChildren
  <2> HIDE DEF i
  <2> QED
    BY <2>1, <2>2, <2>3, LoopKeepsPassed
<1>4. ASSUME NEW p \in Node, StopAtChild(p) PROVE PassedChildren'
  <2>1. /\ p \in frames /\ index' = index /\ Return(p, last[cursor])
    BY <1>4 DEF StopAtChild, StackInv
  <2> QED
    BY <2>1, ReturnKeepsPassed DEF PassedChildren
<1>5. ASSUME NEW p \in Node, AdvanceChild(p) PROVE PassedChildren'
  <2>1. /\ phase = "back" /\ cursor # Root /\ p = Parent[cursor] /\ cursor \in Node
        /\ last[cursor] \notin Stops(p) /\ Loop(p, index[p] + 1)
    BY <1>5 DEF AdvanceChild, TypeOK
  <2>2. p \in Composite /\ p \in frames /\ At(p, cursor) /\ last[cursor] # "idle"
    BY <2>1, ParentFacts DEF StackInv
  <2>3. last[cursor] = Through(p)
    BY <2>1, <2>2, CompositeFacts DEF TypeOK
  <2>4. index[p] + 1 \in Nat \ {0} /\ index[p] \in Nat
    BY DEF TypeOK
  <2>5. ASSUME NEW k \in 1..Len(Children[p]), k < index[p] + 1
        PROVE  last[Children[p][k]] = Through(p) /\ Children[p][k] # p
    <3>1. CASE k < index[p]
      BY <2>2, <3>1, NotOwnChild DEF PassedChildren
    <3>2. CASE k = index[p]
      BY <2>2, <2>3, <3>2, NotOwnChild DEF At
    <3> QED
      BY <2>4, <2>5, <3>1, <3>2
  <2> QED
    BY <2>1, <2>2, <2>4, <2>5, LoopKeepsPassed
<1>6. CASE FinishTick
  BY <1>6 DEF FinishTick, PassedChildren, nodeVars
<1>7. CASE Reset
  <2>1. ASSUME NEW n \in Composite, NEW k \in 1..Len(Children[n]) PROVE ~(k < index'[n])
    BY <1>7, CompositeFacts DEF Reset
  <2> QED
    BY <2>1 DEF PassedChildren
<1> QED
  BY <1>1, <1>2, <1>3, <1>4, <1>5, <1>6, <1>7, StepShapes

\* In every mission, whatever the executor answers and the supervisor decides,
\* a Sequence has passed only children that succeeded and a Fallback only
\* children that failed: the order the XML states is the order that is flown.
THEOREM OrderKept == Spec => []PassedChildren
<1>1. Init => StackInv /\ PassedChildren
  <2> SUFFICES ASSUME Init PROVE StackInv /\ PassedChildren
    OBVIOUS
  <2>1. frames = {} /\ phase = "out" /\ index = [n \in Node |-> 1]
    BY Zenon DEF Init
  <2>2. \A n \in Composite : index[n] = 1
    BY <2>1, CompositeFacts
  <2> QED
    BY <2>1, <2>2 DEF StackInv, PassedChildren
<1>2. TypeOK /\ StackInv /\ PassedChildren /\ [Next]_vars
        => (StackInv /\ PassedChildren)'
  BY StackStep, PassedStep
<1> QED
  BY <1>1, <1>2, TypeCorrect, PTL DEF Spec

-----------------------------------------------------------------------------
(* Trees without reactive nodes: one branch is running.                    *)

\* The top of the stack returns.
LEMMA ReturnKeepsBranch ==
    ASSUME TypeOK, StackInv, BranchInv, NEW n \in frames, NEW i \in Nat,
           i >= index[n], index' = [index EXCEPT ![n] = i],
           NEW status \in {"running", "success", "failure"}, Return(n, status),
           n \in Composite /\ status = "running" =>
             i \in 1..Len(Children[n]) /\ last[Children[n][i]] = "running"
    PROVE  IdleBelow' /\ IdleAfter' /\ RunningBelow'
<1>1. /\ n \in Node /\ frames' = frames \ {n} /\ phase' = "back"
      /\ last' = [last EXCEPT ![n] = status]
  BY DEF Return, TypeOK
<1>2. \A m \in Node : m # n => last'[m] = last[m] /\ index'[m] = index[m]
  BY <1>1 DEF TypeOK
<1>3. last'[n] = status /\ index'[n] = i
  BY <1>1 DEF TypeOK
<1>4. \A m \in Node \ {n} : Settled(m)' => Settled(m)
  BY <1>1 DEF Settled
<1>5. IdleBelow'
  <2> SUFFICES ASSUME NEW m \in Node, last'[m] = "idle", Settled(m)'
               PROVE  /\ index'[m] = 1
                      /\ \A k \in 1..Len(Children[m]) : last'[Children[m][k]] = "idle"
    BY DEF IdleBelow
  <2>1. m # n /\ last[m] = "idle" /\ Settled(m) /\ m \notin frames
    BY <1>1, <1>2, <1>3, <1>4 DEF Settled
  <2>2. \A k \in 1..Len(Children[m]) : Children[m][k] # n
    BY <2>1, FrameIsAtIndex
  <2> QED
    BY <1>2, <2>1, <2>2, ChildFacts DEF BranchInv, IdleBelow
<1>6. IdleAfter'
  <2> SUFFICES ASSUME NEW m \in Node, NEW k \in 1..Len(Children[m]), k > index'[m]
               PROVE  last'[Children[m][k]] = "idle"
    BY DEF IdleAfter
  <2>1. k > index[m] /\ index[m] \in Nat
    BY <1>2, <1>3 DEF TypeOK
  <2>2. Children[m][k] # n
    BY <2>1, FrameIsAtIndex
  <2> QED
    BY <1>2, <2>1, <2>2, ChildFacts DEF BranchInv, IdleAfter
<1>7. RunningBelow'
  <2> SUFFICES ASSUME NEW m \in Composite, last'[m] = "running", Settled(m)'
               PROVE  /\ index'[m] \in 1..Len(Children[m])
                      /\ last'[Children[m][index'[m]]] = "running"
    BY DEF RunningBelow
  <2>1. m \in Node
    BY CompositeFacts
  <2>2. CASE m = n
    <3>1. status = "running" /\ i \in 1..Len(Children[n])
      BY <1>3, <2>2
    <3>2. Children[n][i] \in Node \ {n}
      BY <1>1, <3>1, ChildFacts, NotOwnChild
    <3> QED
      BY <1>2, <1>3, <2>2, <3>1, <3>2
  <2>3. CASE m # n
    <3>1. last[m] = "running" /\ Settled(m) /\ m \notin frames /\ index'[m] = index[m]
      BY <1>1, <1>2, <1>4, <2>1, <2>3 DEF Settled
    <3>2. index[m] \in 1..Len(Children[m]) /\ last[Children[m][index[m]]] = "running"
      BY <3>1 DEF BranchInv, RunningBelow
    <3>3. Children[m][index[m]] \in Node \ {n}
      BY <2>1, <3>1, <3>2, ChildFacts, FrameIsAtIndex
    <3> QED
      BY <1>2, <3>1, <3>2, <3>3
  <2> QED
    BY <2>2, <2>3
<1> QED
  BY <1>5, <1>6, <1>7

\* The top of the stack calls its child at index i.
LEMMA CallKeepsBranch ==
    ASSUME TypeOK, StackInv, BranchInv, NEW p \in Composite, Top(p),
           NEW i \in 1..Len(Children[p]), i >= index[p],
           index' = [index EXCEPT ![p] = i], last' = last,
           Call(Children[p][i])
    PROVE  IdleBelow' /\ IdleAfter' /\ RunningBelow'
<1> DEFINE c == Children[p][i]
<1>1. p \in Node /\ c \in Node \ {Root} /\ Parent[c] = p /\ c # p
  BY CompositeFacts, ChildFacts, NotOwnChild
<1>2. p \in frames /\ c \notin frames
  BY <1>1, TopHasNoChild DEF Top
<1> HIDE DEF c
<1>3. frames' = frames \cup {c} /\ cursor' = c
  BY DEF Call, c
<1>4. \A m \in Node : Settled(m)' => Settled(m) /\ m # p
  BY <1>1, <1>2, <1>3 DEF Settled
<1>5. \A m \in Node \ {p} : index'[m] = index[m]
  BY DEF TypeOK
<1>6. IdleBelow' /\ RunningBelow'
  BY <1>4, <1>5, CompositeFacts DEF BranchInv, IdleBelow, RunningBelow
<1>7. IdleAfter'
  <2> SUFFICES ASSUME NEW m \in Node, NEW k \in 1..Len(Children[m]), k > index'[m]
               PROVE  last[Children[m][k]] = "idle"
    BY DEF IdleAfter
  <2>1. index'[p] = i /\ index[m] \in Nat
    BY <1>1 DEF TypeOK
  <2>2. k > index[m]
    BY <1>5, <2>1
  <2> QED
    BY <2>2 DEF BranchInv, IdleAfter
<1> QED
  BY <1>6, <1>7

\* A leaf step leaves that leaf alone running, or none.
LEMMA LeafRuns ==
    ASSUME TypeOK, OneRunning, NEW n \in Node, LeafStep(n)
    PROVE  /\ RunningLeaf' \subseteq {n}
           /\ last'[n] # "running" => RunningLeaf' = {}
           /\ last[n] \in {"idle", "running"}
           /\ last[n] = "idle" => RunningLeaf = {}
           /\ RunningLeaf \subseteq {n}
<1>1. n \in Leaf /\ phase = "enter" /\ cursor = n
  BY DEF LeafStep
<1>2. PICK status \in {"running", "success", "failure"} : Return(n, status)
  BY DEF LeafStep
<1>3. last' = [last EXCEPT ![n] = status]
  BY <1>2 DEF Return
<1>4. RunningLeaf \subseteq {n}
  BY <1>1 DEF OneRunning, RunningLeaf
<1>5. \A m \in Node \ {n} : last'[m] = last[m]
  BY <1>3 DEF TypeOK
<1>6. RunningLeaf' \subseteq {n}
  BY <1>4, <1>5 DEF RunningLeaf, Leaf
<1> QED
  BY <1>1, <1>4, <1>6 DEF OneRunning, RunningLeaf

\* A composite's step never changes which leaves are running.
LEMMA CompositeKeepsLeaves ==
    ASSUME TypeOK, NEW p \in Composite,
           last' = last \/ \E status : Return(p, status)
    PROVE  /\ \A n \in Leaf : last'[n] = last[n]
           /\ RunningLeaf' = RunningLeaf
<1>1. \A n \in Leaf : n \in Node /\ n # p
  BY DEF Leaf
<1>2. \A n \in Leaf : last'[n] = last[n]
  BY <1>1 DEF Return, TypeOK
<1> QED
  BY <1>2 DEF RunningLeaf

\* Every step of a tree without reactive nodes keeps one running branch.
LEMMA BranchStep ==
    ASSUME TypeOK, StackInv, StackInv', BranchInv, Reactive = {}, [Next]_vars
    PROVE  BranchInv'
<1> USE DEF BranchInv
<1>1. CASE SkipStep
  BY <1>1 DEF SkipStep, walkVars, IdleBelow, IdleAfter, RunningBelow, OneRunning,
              RunningLeaf, Settled
<1>2. CASE StartStep
  <2>1. frames = {} /\ \A n \in Node : Settled(n)
    BY <1>2 DEF StartStep, StackInv, Settled
  <2>2. IdleBelow' /\ IdleAfter' /\ RunningBelow'
    BY <1>2, <2>1, CompositeFacts DEF StartStep, IdleBelow, IdleAfter, RunningBelow
  <2>3. OneRunning'
    BY <1>2 DEF StartStep, OneRunning, RunningLeaf
  <2> QED
    BY <2>2, <2>3
<1>3. ASSUME NEW n \in Node, LeafStep(n) PROVE BranchInv'
  <2>1. PICK status \in {"running", "success", "failure"} : Return(n, status)
    BY <1>3 DEF LeafStep
  <2>2. n \in frames /\ n \notin Composite /\ index' = [index EXCEPT ![n] = index[n]]
        /\ index[n] \in Nat /\ index[n] >= index[n]
    BY <1>3 DEF LeafStep, StackInv, Leaf, TypeOK
  <2>3. IdleBelow' /\ IdleAfter' /\ RunningBelow'
    BY <2>1, <2>2, ReturnKeepsBranch
  <2>4. phase' = "back" /\ cursor' = n
    BY <2>1 DEF Return
  <2>5. OneRunning'
    BY <1>3, <2>4, LeafRuns DEF OneRunning
  <2> QED
    BY <2>3, <2>5
<1>4. ASSUME NEW n \in Node, EnterComposite(n) PROVE BranchInv'
  <2>1. /\ n \in Composite /\ phase = "enter" /\ cursor = n /\ Loop(n, index[n])
        /\ terminal' = terminal
    BY <1>4 DEF EnterComposite, Ticking
  <2>2. /\ index[n] \in Nat \ {0} /\ index[n] >= index[n]
        /\ Settled(n) /\ Top(n)
    BY <2>1, TopOfStack DEF TypeOK, Settled
  <2>3. /\ index[n] \in 1..Len(Children[n])
        /\ \/ last[Children[n][index[n]]] = "running"
           \/ last[Children[n][index[n]]] = "idle" /\ RunningLeaf = {}
    <3>1. CASE last[n] = "running"
      BY <2>1, <2>2, <3>1 DEF RunningBelow
    <3>2. CASE last[n] = "idle" /\ RunningLeaf = {}
      <4>1. index[n] = 1 /\ 1 \in 1..Len(Children[n])
        BY <2>1, <2>2, <3>2, CompositeFacts DEF IdleBelow
      <4> QED
        BY <2>1, <2>2, <3>2, <4>1, CompositeFacts DEF IdleBelow
    <3> QED
      BY <2>1, <3>1, <3>2 DEF OneRunning
  <2>4. /\ index' = [index EXCEPT ![n] = index[n]] /\ last' = last
        /\ Call(Children[n][index[n]])
    BY <2>1, <2>2, <2>3, LoopCases
  <2>5. IdleBelow' /\ IdleAfter' /\ RunningBelow'
    BY <2>1, <2>2, <2>3, <2>4, CallKeepsBranch
  <2>6. phase' = "enter" /\ cursor' = Children[n][index[n]] /\ RunningLeaf' = RunningLeaf
    BY <2>4 DEF Call, RunningLeaf
  <2>7. OneRunning'
    BY <2>3, <2>4, <2>6 DEF OneRunning
  <2> QED
    BY <2>5, <2>7
<1>5. ASSUME NEW p \in Node, StopAtChild(p) PROVE BranchInv'
  <2>1. /\ phase = "back" /\ cursor # Root /\ p = Parent[cursor]
        /\ cursor \in Node /\ Return(p, last[cursor]) /\ index' = index
    BY <1>5 DEF StopAtChild, TypeOK
  <2>2. /\ last[cursor] \in {"running", "success", "failure"}
        /\ p \in frames /\ At(p, cursor) /\ p \in Composite
    BY <2>1, ParentFacts DEF StackInv, TypeOK, NodeStatus
  <2>3. /\ index' = [index EXCEPT ![p] = index[p]]
        /\ index[p] \in Nat /\ index[p] >= index[p]
    BY <2>1 DEF TypeOK
  <2>4. IdleBelow' /\ IdleAfter' /\ RunningBelow'
    <3> DEFINE status == last[cursor]
               i == index[p]
    <3>1. i \in 1..Len(Children[p]) /\ last[Children[p][i]] = status
      BY <2>2 DEF At
    <3>2. /\ status \in {"running", "success", "failure"} /\ Return(p, status)
          /\ i \in Nat /\ i >= index[p] /\ index' = [index EXCEPT ![p] = i]
      BY <2>1, <2>2, <2>3
    <3> HIDE DEF status, i
    <3> QED
      BY <2>2, <3>1, <3>2, ReturnKeepsBranch
  <2>5. phase' = "back" /\ cursor' = p /\ last'[p] = last[cursor]
    BY <2>1 DEF Return, TypeOK
  <2>6. RunningLeaf' = RunningLeaf
    BY <2>1, <2>2, CompositeKeepsLeaves
  <2>7. OneRunning'
    BY <2>1, <2>5, <2>6 DEF OneRunning
  <2> QED
    BY <2>4, <2>7
<1>6. ASSUME NEW p \in Node, AdvanceChild(p) PROVE BranchInv'
  <2>1. /\ phase = "back" /\ cursor # Root /\ p = Parent[cursor] /\ cursor \in Node
        /\ last[cursor] \notin Stops(p) /\ Loop(p, index[p] + 1)
    BY <1>6 DEF AdvanceChild, TypeOK
  <2>2. p \in Composite /\ p \in frames /\ Top(p)
    BY <2>1, ParentFacts, TopOfStack DEF StackInv
  <2>3. RunningLeaf = {}
    BY <2>1, <2>2, CompositeFacts DEF OneRunning
  <2>4. /\ index[p] \in Nat \ {0} /\ index[p] + 1 \in Nat \ {0}
        /\ index[p] + 1 >= index[p]
    BY DEF TypeOK
  <2>5. CASE /\ index[p] + 1 \in 1..Len(Children[p])
             /\ Call(Children[p][index[p] + 1]) /\ last' = last
    <3>1. IdleBelow' /\ IdleAfter' /\ RunningBelow'
      BY <2>1, <2>2, <2>4, <2>5, LoopCases, CallKeepsBranch
    <3>2. last[Children[p][index[p] + 1]] = "idle"
      BY <2>2, <2>4, <2>5 DEF IdleAfter
    <3>3. phase' = "enter" /\ cursor' = Children[p][index[p] + 1] /\ RunningLeaf' = RunningLeaf
      BY <2>5 DEF Call, RunningLeaf
    <3>4. OneRunning'
      BY <2>3, <2>5, <3>2, <3>3 DEF OneRunning
    <3> QED
      BY <3>1, <3>4
  <2>6. CASE Return(p, Through(p))
    <3>1. Through(p) \in {"success", "failure"}
      BY <2>2, CompositeFacts
    <3>2. index' = [index EXCEPT ![p] = index[p] + 1]
      BY <2>1, <2>2, <2>4, LoopCases
    <3>3. IdleBelow' /\ IdleAfter' /\ RunningBelow'
      BY <2>2, <2>4, <2>6, <3>1, <3>2, ReturnKeepsBranch
    <3>4. phase' = "back" /\ cursor' = p
      BY <2>6 DEF Return
    <3>5. RunningLeaf' = {}
      BY <2>2, <2>3, <2>6, CompositeKeepsLeaves
    <3>6. OneRunning'
      BY <3>4, <3>5 DEF OneRunning
    <3> QED
      BY <3>3, <3>6
  <2> QED
    BY <2>1, <2>2, <2>4, <2>5, <2>6, LoopCases
<1>7. CASE FinishTick
  <2>1. /\ phase = "back" /\ cursor = Root /\ phase' = "out" /\ frames' = frames
        /\ index' = index /\ last' = last
        /\ \/ last[Root] = "running" /\ terminal' = terminal
           \/ last[Root] \in {"success", "failure"} /\ terminal'
    BY <1>7 DEF FinishTick, nodeVars
  <2>2. frames = {} /\ \A n \in Node : Settled(n)
    BY <2>1 DEF StackInv, Settled
  <2>3. IdleBelow' /\ IdleAfter' /\ RunningBelow'
    BY <2>1, <2>2, CompositeFacts DEF IdleBelow, IdleAfter, RunningBelow
  <2>4. RunningLeaf' = RunningLeaf
    BY <2>1 DEF RunningLeaf
  <2>5. OneRunning'
    BY <2>1, <2>4 DEF OneRunning
  <2> QED
    BY <2>3, <2>5
<1>8. CASE Reset
  <2>1. /\ \A n \in Node : last'[n] = "idle" /\ index'[n] = 1
        /\ phase' = "out"
    BY <1>8 DEF Reset, walkVars
  <2>2. RunningLeaf' = {}
    BY <2>1 DEF RunningLeaf, Leaf
  <2>3. IdleBelow' /\ IdleAfter' /\ RunningBelow'
    BY <2>1, ChildFacts, CompositeFacts DEF IdleBelow, IdleAfter, RunningBelow
  <2>4. Root \in Node
    BY TreeAssumption
  <2>5. OneRunning'
    BY <2>1, <2>2, <2>4 DEF OneRunning
  <2> QED
    BY <2>3, <2>5
<1>9. CASE UNCHANGED <<index, last, walkVars, terminal>>
  BY <1>9 DEF walkVars, IdleBelow, IdleAfter, RunningBelow, OneRunning,
              RunningLeaf, Settled
<1> QED
  BY <1>1, <1>2, <1>3, <1>4, <1>5, <1>6, <1>7, <1>8, <1>9, StepShapes

-----------------------------------------------------------------------------
(* The active action.                                                      *)

\* No step but FollowAction and RefuseAction touches what ActionInv relates.
LEMMA ActionsKept ==
    ASSUME TypeOK, ActionInv,
           submitted' = submitted, \A n \in Action : last'[n] = last[n],
           \A n \in Node : Kind[n] = "EmitEvent" => last'[n] # "running",
           runtime'.activeActionId = runtime.activeActionId
    PROVE  ActionInv'
BY DEF ActionInv, Outstanding, TypeOK

\* A leaf that is no action returns and keeps the runtime's action.
LEMMA OtherLeafKeeps ==
    ASSUME TypeOK, ActionInv, NEW n \in Node, Kind[n] # "ExecuteAction",
           NEW status \in NodeStatus, Return(n, status),
           Kind[n] = "EmitEvent" => status # "running",
           submitted' = submitted,
           runtime' = SetNode(n) \/ runtime' = Reject(n)
    PROVE  ActionInv'
<1>1. \A m \in Node \ {n} : last'[m] = last[m]
  BY DEF Return, TypeOK
<1>2. last'[n] = status
  BY DEF Return, TypeOK
<1>3. \A m \in Action : last'[m] = last[m]
  BY <1>1 DEF Action
<1>4. runtime'.activeActionId = runtime.activeActionId
  BY DEF SetNode, Reject, TypeOK, MissionRuntime
<1>5. \A m \in Node : Kind[m] = "EmitEvent" => last'[m] # "running"
  BY <1>1, <1>2 DEF ActionInv
<1> QED
  BY <1>3, <1>4, <1>5, ActionsKept

\* A composite's step keeps what is known of the actions.
LEMMA CompositeKeepsActions ==
    ASSUME TypeOK, ActionInv, NEW p \in Composite,
           last' = last \/ \E status : Return(p, status),
           submitted' = submitted,
           runtime'.activeActionId = runtime.activeActionId
    PROVE  ActionInv'
<1>1. \A n \in Node : Kind[n] \in {"ExecuteAction", "EmitEvent"} => n \in Leaf
  BY LeafFacts
<1>2. \A n \in Leaf : last'[n] = last[n]
  BY CompositeKeepsLeaves
<1>3. \A n \in Action : last'[n] = last[n]
  BY <1>1, <1>2 DEF Action
<1>4. \A n \in Node : Kind[n] = "EmitEvent" => last'[n] # "running"
  BY <1>1, <1>2 DEF ActionInv
<1> QED
  BY <1>3, <1>4, ActionsKept

\* An action step: only the action ticked may be outstanding afterwards, and
\* then the runtime names it.
LEMMA FollowKeepsActions ==
    ASSUME TypeOK, BranchInv, ActionInv, NEW n \in Node,
           NEW status \in FeedbackStatus, FollowAction(n, status)
    PROVE  ActionInv'
<1>1. LeafStep(n) /\ n \in Action
  BY LeafActions DEF FollowAction, Ticking, Action
<1>2. /\ RunningLeaf' \subseteq {n} /\ last[n] \in {"idle", "running"}
  BY <1>1, LeafRuns DEF BranchInv
<1>3. PICK returned \in {"running", "success", "failure"} : Return(n, returned)
  BY <1>1 DEF LeafStep
<1>4. last'[n] = returned /\ \A m \in Node \ {n} : last'[m] = last[m]
  BY <1>3 DEF Return, TypeOK
<1>5. submitted' = submitted \cup {n}
  BY DEF FollowAction
<1>6. \A m \in submitted' : last'[m] # "idle"
  BY <1>4, <1>5 DEF ActionInv, TypeOK, Action
<1>7. \A m \in Outstanding' : m = n
  <2>1. Action \subseteq Leaf
    BY LeafFacts DEF Action
  <2> QED
    BY <1>2, <2>1 DEF Outstanding, RunningLeaf
<1>8. last'[n] = "running" => runtime'.activeActionId = ActionOf[n]
  <2>1. CASE n \in submitted
    <3>1. runtime.activeActionId = ActionOf[n]
      BY <1>1, <1>2, <2>1 DEF ActionInv, Outstanding
    <3>2. SetNode(n).activeActionId = runtime.activeActionId
      BY DEF SetNode, TypeOK, MissionRuntime
    <3>3. last'[n] = "running" => runtime' = SetNode(n)
      BY <2>1, <1>4 DEF FollowAction, Return, TypeOK
    <3> QED
      BY <3>1, <3>2, <3>3
  <2>2. CASE n \notin submitted
    <3>1. Activated(n).activeActionId = ActionOf[n]
      BY DEF Activated, SetNode, TypeOK, MissionRuntime
    <3>2. last'[n] = "running" => runtime' = Activated(n)
      BY <2>2, <1>4 DEF FollowAction, Return, TypeOK
    <3> QED
      BY <3>1, <3>2
  <2> QED
    BY <2>1, <2>2
<1>9. \A m \in Node : Kind[m] = "EmitEvent" => last'[m] # "running"
  BY <1>1, <1>4 DEF ActionInv, Action
<1>10. \A m \in Outstanding' : m \in submitted' /\ runtime'.activeActionId = ActionOf[m]
  BY <1>5, <1>7, <1>8 DEF Outstanding
<1> QED
  BY <1>6, <1>9, <1>10 DEF ActionInv

\* A refused submission leaves no trace of the action.
LEMMA RefuseKeepsActions ==
    ASSUME TypeOK, ActionInv, NEW n \in Node, RefuseAction(n)
    PROVE  ActionInv'
<1>1. /\ n \in Action /\ Return(n, "failure") /\ submitted' = submitted
      /\ runtime' = Reject(n) /\ n \notin submitted
  BY DEF RefuseAction, Ticking, Action
<1>2. last'[n] = "failure" /\ \A m \in Node \ {n} : last'[m] = last[m]
  BY <1>1 DEF Return, TypeOK
<1>3. runtime'.activeActionId = runtime.activeActionId
  BY <1>1 DEF Reject, SetNode, TypeOK, MissionRuntime
<1>4. Outstanding' \subseteq Outstanding /\ \A m \in Outstanding' : m # n
  BY <1>2 DEF Outstanding, Action
<1>5. \A m \in Node : Kind[m] = "EmitEvent" => last'[m] # "running"
  BY <1>2 DEF ActionInv
<1>6. \A m \in submitted' : last'[m] # "idle"
  BY <1>1, <1>2 DEF ActionInv, TypeOK, Action
<1> QED
  BY <1>1, <1>3, <1>4, <1>5, <1>6 DEF ActionInv

\* Every step of a tree without reactive nodes keeps ActionInv.
LEMMA ActionStep ==
    ASSUME TypeOK, StackInv, BranchInv, ActionInv, [Next]_vars
    PROVE  ActionInv'
<1>1. CASE BeginTick
  <2>1. PICK time \in 0..MaxNow, world \in Sense,
             table \in CapabilityTable, seen \in SUBSET Event :
          \/ TickTerminal(world, time)
          \/ TickPaused(world, time, table)
          \/ TickAborted(world, time, table)
          \/ TickAllowed(world, time, table, seen)
    BY <1>1 DEF BeginTick, Times
  <2>2. time \in Int /\ world \in WorldState
    BY EnvironmentAssumption
  <2> DEFINE seen_ == Observed(world, time)
  <2>3. seen_ \in MissionRuntime /\ seen_.activeActionId = runtime.activeActionId
    BY <2>2, ObservedType
  <2> HIDE DEF seen_
  <2>4. submitted' = submitted /\ last' = last
    BY <2>1 DEF TickTerminal, TickPaused, TickAborted, TickAllowed, nodeVars
  <2>5. \/ runtime' = [runtime EXCEPT !.airborne = world.airborne]
        \/ runtime' = [seen_ EXCEPT !.status = "paused"]
        \/ runtime' = [seen_ EXCEPT !.status = "failed",
                         !.failureReason = TRUE, !.finishedAt = time]
        \/ runtime' = [seen_ EXCEPT !.status = "running"]
    BY <2>1 DEF TickTerminal, TickPaused, TickAborted, TickAllowed, seen_
  <2>6. runtime'.activeActionId = runtime.activeActionId
    BY <2>3, <2>5 DEF MissionRuntime, TypeOK
  <2> QED
    BY <2>4, <2>6, ActionsKept DEF ActionInv
<1>2. ASSUME NEW p \in Node, EnterComposite(p) \/ StopAtChild(p) \/ AdvanceChild(p)
      PROVE  ActionInv'
  <2>1. p \in Composite /\ submitted' = submitted
    BY <1>2, ParentFacts DEF EnterComposite, StopAtChild, AdvanceChild, TypeOK
  <2>2. runtime' = SetNode(p) \/ runtime' = runtime
    BY <1>2 DEF EnterComposite, StopAtChild, AdvanceChild
  <2>3. last' = last \/ \E status : Return(p, status)
    BY <1>2 DEF EnterComposite, StopAtChild, AdvanceChild, Loop
  <2>4. runtime'.activeActionId = runtime.activeActionId
    BY <2>2 DEF SetNode, TypeOK, MissionRuntime
  <2> QED
    BY <2>1, <2>3, <2>4, CompositeKeepsActions
<1>3. ASSUME NEW n \in Node,
             \/ TickWait(n) \/ TickRequireCapability(n)
             \/ TickWaitEvent(n) \/ TickEmitEvent(n)
      PROVE  ActionInv'
  <2>1. /\ Kind[n] # "ExecuteAction" /\ submitted' = submitted
        /\ runtime' = SetNode(n) \/ runtime' = Reject(n)
    BY <1>3 DEF TickWait, TickRequireCapability, TickWaitEvent, TickEmitEvent, Ticking
  <2>2. PICK status \in NodeStatus :
          Return(n, status) /\ (Kind[n] = "EmitEvent" => status = "success")
    BY <1>3 DEF TickWait, TickRequireCapability, TickWaitEvent, TickEmitEvent,
                Ticking, NodeStatus
  <2> QED
    BY <2>1, <2>2, OtherLeafKeeps
<1>4. CASE FinishTick
  <2>1. submitted' = submitted /\ last' = last
    BY <1>4 DEF FinishTick, nodeVars
  <2>2. runtime'.activeActionId = runtime.activeActionId
    BY <1>4 DEF FinishTick, TypeOK, MissionRuntime
  <2> QED
    BY <2>1, <2>2, ActionsKept DEF ActionInv
<1>5. CASE Reset
  <2>1. submitted' = {} /\ \A n \in Node : last'[n] = "idle"
    BY <1>5 DEF Reset
  <2> QED
    BY <2>1 DEF ActionInv, Outstanding, Action
<1>6. CASE UNCHANGED vars
  <2>1. submitted' = submitted /\ last' = last /\ runtime' = runtime
    BY <1>6 DEF vars, nodeVars
  <2> QED
    BY <2>1, ActionsKept DEF ActionInv
<1> QED
  BY <1>1, <1>2, <1>3, <1>4, <1>5, <1>6, FollowKeepsActions, RefuseKeepsActions
     DEF Next, Walk

-----------------------------------------------------------------------------

\* The inductive invariant of the missions without reactive nodes.
BranchIInv == StackInv /\ (Reactive = {} => BranchInv /\ ActionInv)

\* The stack and, without reactive nodes, the running branch are as described
\* in every reachable state.
LEMMA BranchCorrect == Spec => [](TypeOK /\ BranchIInv)
<1>1. Init => BranchIInv
  <2> SUFFICES ASSUME Init PROVE BranchIInv
    OBVIOUS
  <2>1. /\ frames = {} /\ phase = "out" /\ submitted = {}
        /\ index = [n \in Node |-> 1] /\ last = [n \in Node |-> "idle"]
    BY Zenon DEF Init
  <2>2. /\ \A n \in Node : index[n] = 1 /\ last[n] = "idle"
        /\ Root \in Node
    BY <2>1, TreeAssumption
  <2>3. BranchInv
    BY <2>1, <2>2, ChildFacts, CompositeFacts
       DEF BranchInv, IdleBelow, IdleAfter, RunningBelow, OneRunning, RunningLeaf, Leaf
  <2>4. ActionInv
    BY <2>1, <2>2 DEF ActionInv, Outstanding, Action
  <2> QED
    BY <2>1, <2>3, <2>4 DEF BranchIInv, StackInv
<1>2. TypeOK /\ BranchIInv /\ [Next]_vars => BranchIInv'
  BY StackStep, BranchStep, ActionStep DEF BranchIInv
<1> QED
  BY <1>1, <1>2, TypeCorrect, PTL DEF Spec

\* In every mission without reactive nodes at most one action is awaited, and
\* runtime.active_action_id names it: what the tick pauses, resumes or cancels
\* is what the vehicle is doing.
THEOREM ActiveActionTracked == Spec => []OutstandingIsActive
<1>1. BranchIInv => OutstandingIsActive
  <2>1. Action \subseteq Leaf
    BY LeafFacts DEF Action
  <2> QED
    BY <2>1 DEF BranchIInv, BranchInv, OneRunning, ActionInv, OutstandingIsActive,
                Outstanding, RunningLeaf
<1> QED
  BY <1>1, BranchCorrect, PTL

\* In every mission without reactive nodes, the tree ends the mission only when
\* no action is awaited any more.
THEOREM NothingOrphaned == Spec => []NoOrphanedAction
<1>1. BranchIInv => NoOrphanedAction
  <2>1. Action \subseteq Leaf
    BY LeafFacts DEF Action
  <2> QED
    BY <2>1 DEF BranchIInv, BranchInv, OneRunning, NoOrphanedAction, Outstanding,
                RunningLeaf
<1> QED
  BY <1>1, BranchCorrect, PTL
=============================================================================
