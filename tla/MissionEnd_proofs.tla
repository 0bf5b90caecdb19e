--------------------------- MODULE MissionEnd_proofs ---------------------------
(***************************************************************************)
(* Machine-checked properties of MissionTree, continued: how a mission     *)
(* ends, and what each of its ticks may and may not do.  As before, for    *)
(* every well-formed tree, executor, world, clock and capability table.    *)
(***************************************************************************)
EXTENDS MissionTree_proofs

\* The step of the walk that calls node n, or returns to its loop.
NodeStep(n) ==
    \/ EnterComposite(n) \/ StopAtChild(n) \/ AdvanceChild(n)
    \/ TickWait(n) \/ TickRequireCapability(n)
    \/ TickWaitEvent(n) \/ TickEmitEvent(n) \/ RefuseAction(n)
    \/ \E status \in FeedbackStatus : FollowAction(n, status)

-----------------------------------------------------------------------------
(* What the steps do to the mission as a whole.                            *)

\* A tick that begins does one of four things, with well-typed inputs.
LEMMA BeginCases ==
    ASSUME BeginTick
    PROVE  \E time \in Int, world \in WorldState,
              table \in [Capability \cup {NoCapability} -> Availability],
              seen \in SUBSET Event :
             \/ TickTerminal(world, time)
             \/ TickPaused(world, time, table)
             \/ TickAborted(world, time, table)
             \/ TickAllowed(world, time, table, seen)
<1>1. PICK time \in 0..MaxNow, world \in Sense,
           table \in CapabilityTable, seen \in SUBSET Event :
        \/ TickTerminal(world, time)
        \/ TickPaused(world, time, table)
        \/ TickAborted(world, time, table)
        \/ TickAllowed(world, time, table, seen)
  BY DEF BeginTick, Times
<1>2. /\ time \in Int /\ world \in WorldState
      /\ table \in [Capability \cup {NoCapability} -> Availability]
  BY EnvironmentAssumption
<1> QED
  BY <1>1, <1>2

\* The runtimes a step of the walk leaves behind differ from the old one only in
\* the active node, the active action and the failure reason.
LEMMA RuntimeKept ==
    ASSUME TypeOK, NEW n \in Node,
           NEW rt, \/ rt = SetNode(n) \/ rt = Reject(n)
                   \/ n \in Action /\ rt = Activated(n)
    PROVE  /\ rt.status = runtime.status /\ rt.startedAt = runtime.startedAt
           /\ \A held \in {Deactivated(n, rt), [rt EXCEPT !.failureReason = TRUE]} :
                held.status = runtime.status /\ held.startedAt = runtime.startedAt
<1>1. /\ rt \in MissionRuntime
      /\ rt.status = runtime.status /\ rt.startedAt = runtime.startedAt
  <2>1. CASE rt = SetNode(n) \/ rt = Reject(n)
    BY <2>1 DEF TypeOK, MissionRuntime, SetNode, Reject
  <2>2. CASE n \in Action /\ rt = Activated(n)
    <3>1. ActionOf[n] \in ActionId /\ CapabilityOf[n] \in Capability
      BY <2>2, AttributeAssumption DEF Action
    <3> QED
      BY <2>2, <3>1 DEF TypeOK, MissionRuntime, SetNode, Activated
  <2> QED
    BY <2>1, <2>2
<1> QED
  BY <1>1 DEF Deactivated, MissionRuntime

\* No node changes the mission's status, its start, the terminal flag or what
\* the tick observed, and none takes an error back.
LEMMA NodeKeeps ==
    ASSUME TypeOK, NEW n \in Node, NodeStep(n)
    PROVE  /\ runtime'.status = runtime.status
           /\ runtime'.startedAt = runtime.startedAt
           /\ UNCHANGED <<terminal, tickVars>>
           /\ phase # "out" /\ phase' # "out"
           /\ error => error'
<1>1. CASE EnterComposite(n)
  BY <1>1, RuntimeKept DEF EnterComposite, Ticking, Loop, Call, Return
<1>2. CASE StopAtChild(n)
  BY <1>2 DEF StopAtChild, Return
<1>3. CASE AdvanceChild(n)
  BY <1>3 DEF AdvanceChild, Loop, Call, Return
<1>4. CASE TickWait(n)
  <2>1. runtime' \in {Reject(n), SetNode(n)} /\ (error => error') /\ phase' = "back"
    BY <1>4 DEF TickWait, Return
  <2> QED
    BY <1>4, <2>1, RuntimeKept DEF TickWait, Ticking
<1>5. CASE TickRequireCapability(n)
  <2>1. runtime' \in {Reject(n), SetNode(n)} /\ (error => error') /\ phase' = "back"
    BY <1>5 DEF TickRequireCapability, Return
  <2> QED
    BY <1>5, <2>1, RuntimeKept DEF TickRequireCapability, Ticking
<1>6. CASE TickWaitEvent(n) \/ TickEmitEvent(n) \/ RefuseAction(n)
  BY <1>6, RuntimeKept DEF TickWaitEvent, TickEmitEvent, RefuseAction, Ticking, Return
<1>7. ASSUME NEW status \in FeedbackStatus, FollowAction(n, status)
      PROVE  /\ runtime'.status = runtime.status
             /\ runtime'.startedAt = runtime.startedAt
             /\ UNCHANGED <<terminal, tickVars>>
             /\ phase # "out" /\ phase' # "out"
             /\ error => error'
  <2>1. PICK held \in {SetNode(n), Activated(n)} :
          runtime' \in {held, Deactivated(n, held), [held EXCEPT !.failureReason = TRUE]}
    BY <1>7 DEF FollowAction
  <2>2. runtime'.status = runtime.status /\ runtime'.startedAt = runtime.startedAt
    <3>1. n \in Action
      BY <1>7 DEF FollowAction, Ticking, Action
    <3>2. held = SetNode(n) \/ (n \in Action /\ held = Activated(n))
      BY <2>1, <3>1
    <3>3. /\ held.status = runtime.status /\ held.startedAt = runtime.startedAt
          /\ \A rt \in {Deactivated(n, held), [held EXCEPT !.failureReason = TRUE]} :
               rt.status = runtime.status /\ rt.startedAt = runtime.startedAt
      BY <3>2, RuntimeKept
    <3> QED
      BY <2>1, <3>3
  <2>3. (error => error') /\ phase' = "back" /\ phase = "enter"
    BY <1>7 DEF FollowAction, Return, Ticking
  <2> QED
    BY <1>7, <2>2, <2>3 DEF FollowAction
<1> QED
  BY <1>1, <1>2, <1>3, <1>4, <1>5, <1>6, <1>7 DEF NodeStep

\* Without reactive nodes a composite that is called calls one of its children.
LEMMA EnterCalls ==
    ASSUME TypeOK, StackInv, BranchInv, Reactive = {},
           NEW p \in Node, EnterComposite(p)
    PROVE  phase' = "enter" /\ last' = last
<1>1. p \in Composite /\ phase = "enter" /\ cursor = p /\ Loop(p, index[p])
  BY DEF EnterComposite, Ticking
<1>2. index[p] \in 1..Len(Children[p])
  <2>1. Settled(p)
    BY <1>1 DEF Settled
  <2>2. CASE last[p] = "running"
    BY <1>1, <2>1, <2>2 DEF BranchInv, RunningBelow
  <2>3. CASE last[p] = "idle"
    BY <1>1, <2>1, <2>3, CompositeFacts DEF BranchInv, IdleBelow
  <2> QED
    BY <1>1, <2>2, <2>3 DEF BranchInv, OneRunning
<1>3. index[p] \in Nat \ {0}
  BY DEF TypeOK
<1> QED
  BY <1>1, <1>2, <1>3, LoopCases DEF Call

-----------------------------------------------------------------------------
(* The status of the mission.                                              *)

\* The tree is walked only by a running mission, the terminal flag and the
\* status agree, and a mission that goes on is within its limit.
StatusInv ==
    /\ phase # "out" => runtime.status = "running"
    /\ terminal <=> Ended(runtime.status)
    /\ DurationRespected

\* Only a mission that has not outlived its limit is paused or goes on.
LEMMA DecisionRespectsLimit ==
    ASSUME NEW world, NEW time, NEW table, ~Ended(runtime.status),
           TypeOK, world \in WorldState, time \in Int,
           Decision(world, time, table) \in {"pause", "allow"}
    PROVE  ~Overrun(time, Observed(world, time))
<1>1. ~Ended(Observed(world, time).status)
  BY DEF Observed, Ended, TypeOK, MissionRuntime
<1> QED
  BY <1>1 DEF Decision, Evaluate

\* Every step keeps StatusInv.
LEMMA StatusStep ==
    ASSUME TypeOK, StatusInv, [Next]_vars
    PROVE  StatusInv'
<1>1. CASE BeginTick
  <2>1. PICK time \in Int, world \in WorldState,
             table \in [Capability \cup {NoCapability} -> Availability],
             seen \in SUBSET Event :
          \/ TickTerminal(world, time)
          \/ TickPaused(world, time, table)
          \/ TickAborted(world, time, table)
          \/ TickAllowed(world, time, table, seen)
    BY <1>1, BeginCases
  <2> DEFINE met == Observed(world, time)
  <2>2. met \in MissionRuntime
    BY ObservedType
  <2>3. CASE TickTerminal(world, time)
    BY <2>3 DEF TickTerminal, StatusInv, DurationRespected, TypeOK, MissionRuntime,
                walkVars
  <2>4. CASE \/ TickPaused(world, time, table)
             \/ TickAllowed(world, time, table, seen)
    <3>1. ~Overrun(time, met)
      BY <2>4, DecisionRespectsLimit DEF TickPaused, TickAllowed, StatusInv
    <3>2. /\ \E status \in {"paused", "running"} : runtime' = [met EXCEPT !.status = status]
          /\ now' = time /\ terminal' = terminal /\ ~terminal
          /\ phase' # "out" => runtime' = [met EXCEPT !.status = "running"]
      BY <2>4 DEF TickPaused, TickAllowed, walkVars
    <3> HIDE DEF met
    <3>3. /\ runtime'.status \in {"paused", "running"}
          /\ phase' # "out" => runtime'.status = "running"
          /\ runtime'.startedAt = met.startedAt
      BY <2>2, <3>2 DEF MissionRuntime
    <3> QED
      BY <3>1, <3>2, <3>3 DEF StatusInv, DurationRespected, Overrun, Ended
  <2>5. CASE TickAborted(world, time, table)
    <3>1. /\ terminal' /\ phase' = "out"
          /\ runtime' = [met EXCEPT !.status = "failed", !.failureReason = TRUE,
                                    !.finishedAt = time]
      BY <2>5 DEF TickAborted, walkVars
    <3> HIDE DEF met
    <3>2. runtime'.status = "failed"
      BY <2>2, <3>1 DEF MissionRuntime
    <3> QED
      BY <3>1, <3>2 DEF StatusInv, DurationRespected, Ended
  <2> QED
    BY <2>1, <2>3, <2>4, <2>5
<1>2. ASSUME NEW n \in Node, NodeStep(n) PROVE StatusInv'
  BY <1>2, NodeKeeps DEF StatusInv, DurationRespected, Overrun, tickVars
<1>3. CASE FinishTick
  <2>1. /\ phase = "back" /\ phase' = "out" /\ now' = now /\ ~terminal
        /\ runtime.status = "running"
    BY <1>3 DEF FinishTick, StatusInv, Ended
  <2>2. \/ runtime' = runtime /\ terminal' = terminal
        \/ runtime'.status \in {"succeeded", "failed"} /\ terminal'
    BY <1>3 DEF FinishTick, TypeOK, MissionRuntime
  <2> QED
    BY <2>1, <2>2 DEF StatusInv, DurationRespected, Ended
<1>4. CASE Reset
  BY <1>4 DEF Reset, StatusInv, DurationRespected, FreshRuntime, Ended, walkVars
<1>5. CASE UNCHANGED vars
  BY <1>5 DEF vars, walkVars, tickVars, StatusInv, DurationRespected
<1> QED
  BY <1>1, <1>2, <1>3, <1>4, <1>5 DEF Next, Walk, NodeStep

\* The status is as described in every reachable state.
LEMMA StatusCorrect == Spec => [](TypeOK /\ StatusInv)
<1>1. Init => StatusInv
  <2> SUFFICES ASSUME Init PROVE StatusInv
    OBVIOUS
  <2>1. runtime = FreshRuntime /\ terminal = FALSE /\ phase = "out"
    BY Zenon DEF Init
  <2> QED
    BY <2>1 DEF StatusInv, DurationRespected, FreshRuntime, Ended
<1>2. TypeOK /\ StatusInv /\ [Next]_vars => StatusInv'
  BY StatusStep
<1> QED
  BY <1>1, <1>2, TypeCorrect, PTL DEF Spec

\* In every mission a tick that leaves the mission alive leaves it within
\* max_mission_duration_s, however the clock moves between ticks, and whether the
\* tick paused, resumed or walked the tree.
THEOREM LimitKept == Spec => []DurationRespected
<1>1. StatusInv => DurationRespected
  BY DEF StatusInv
<1> QED
  BY <1>1, StatusCorrect, PTL

\* Once terminal_ is set, no tick changes the status, calls a node or emits an
\* event: only reset() starts the mission again.
THEOREM EndIsFinal == Spec => TerminalIsFinal
<1>1. ASSUME TypeOK, StatusInv, [Next]_vars
      PROVE  [terminal /\ ~Reset =>
                terminal' /\ runtime'.status = runtime.status
                  /\ UNCHANGED <<nodeVars, walkVars>> /\ emitted' = {}]_vars
  <2> SUFFICES ASSUME Next, terminal, ~Reset
               PROVE  terminal' /\ runtime'.status = runtime.status
                        /\ UNCHANGED <<nodeVars, walkVars>> /\ emitted' = {}
    BY <1>1
  <2>1. phase = "out"
    BY <1>1 DEF StatusInv, Ended
  <2>2. BeginTick
    <3>1. \A n \in Node : ~NodeStep(n)
      BY <1>1, <2>1, NodeKeeps
    <3>2. ~FinishTick
      BY <2>1 DEF FinishTick
    <3> QED
      BY <3>1, <3>2 DEF Next, Walk, NodeStep
  <2>3. PICK time \in Int, world \in WorldState : TickTerminal(world, time)
    BY <2>2, BeginCases DEF TickPaused, TickAborted, TickAllowed
  <2> QED
    BY <1>1, <2>3 DEF TickTerminal, TypeOK, MissionRuntime
<1> QED
  BY <1>1, StatusCorrect, PTL DEF Spec, TerminalIsFinal

-----------------------------------------------------------------------------
(* Trees without reactive nodes.                                           *)

\* In every mission without reactive nodes an EmitEvent node pushes its event in
\* one tick of the mission only: no pause, resume or later tick repeats it.
THEOREM EventsEmittedOnce == Spec => EmittedOnce
<1>1. ASSUME TypeOK, BranchIInv, [Next]_vars
      PROVE  [Reactive = {} => \A n \in emitted' \ emitted : last[n] = "idle"]_vars
  <2> SUFFICES ASSUME Next, Reactive = {}, NEW n \in emitted' \ emitted
               PROVE  last[n] = "idle"
    BY <1>1
  <2>1. PICK m \in Node : TickEmitEvent(m)
    <3>1. emitted' # emitted /\ emitted' # {}
      OBVIOUS
    <3>2. ~BeginTick /\ ~FinishTick /\ ~Reset
      BY <3>1, BeginCases
         DEF TickTerminal, TickPaused, TickAborted, TickAllowed, FinishTick, Reset
    <3>3. PICK m \in Node : NodeStep(m)
      BY <3>2 DEF Next, Walk, NodeStep
    <3> QED
      BY <3>1, <3>3
         DEF NodeStep, EnterComposite, StopAtChild, AdvanceChild, TickWait,
             TickRequireCapability, TickWaitEvent, RefuseAction, FollowAction
  <2>2. n = m /\ phase = "enter" /\ cursor = n /\ Kind[n] = "EmitEvent"
    BY <2>1 DEF TickEmitEvent, Ticking
  <2>3. last[n] \in {"idle", "running"} /\ last[n] # "running"
    BY <1>1, <2>1, <2>2 DEF BranchIInv, BranchInv, OneRunning, ActionInv
  <2> QED
    BY <2>3
<1> QED
  BY <1>1, BranchCorrect, PTL DEF Spec, EmittedOnce

\* The active action, at every moment of the walk too, is one the tree waits
\* for or one that failed.
ActiveInv ==
    runtime.activeActionId # NoAction =>
      \E n \in Action : /\ ActionOf[n] = runtime.activeActionId
                        /\ last[n] \in {"running", "failure"}

\* A step that leaves the active action and the results of the actions alone.
LEMMA ActiveKept ==
    ASSUME ActiveInv, runtime'.activeActionId = runtime.activeActionId,
           \A n \in Action : last'[n] \in {last[n], "failure"}
    PROVE  ActiveInv'
BY DEF ActiveInv

\* A node other than an action leaves the active action alone.
LEMMA OtherNodesKeepActive ==
    ASSUME TypeOK, ActiveInv, NEW n \in Node, NodeStep(n),
           ~\E status \in FeedbackStatus : FollowAction(n, status)
    PROVE  ActiveInv'
<1>1. runtime'.activeActionId = runtime.activeActionId
  <2>1. runtime' = runtime \/ runtime' = SetNode(n) \/ runtime' = Reject(n)
    BY DEF NodeStep, EnterComposite, StopAtChild, AdvanceChild, TickWait,
           TickRequireCapability, TickWaitEvent, TickEmitEvent, RefuseAction
  <2> QED
    BY <2>1 DEF SetNode, Reject, TypeOK, MissionRuntime
<1>2. \A m \in Action : last'[m] \in {last[m], "failure"}
  <2>1. CASE EnterComposite(n) \/ StopAtChild(n) \/ AdvanceChild(n)
    <3>1. n \in Composite /\ (last' = last \/ \E status : Return(n, status))
      BY <2>1, ParentFacts DEF EnterComposite, StopAtChild, AdvanceChild, Loop, TypeOK
    <3>2. Action \subseteq Leaf
      BY LeafFacts DEF Action
    <3> QED
      BY <3>1, <3>2, CompositeKeepsLeaves
  <2>2. CASE \/ TickWait(n) \/ TickRequireCapability(n)
             \/ TickWaitEvent(n) \/ TickEmitEvent(n)
    <3>1. Kind[n] # "ExecuteAction" /\ \E status : Return(n, status)
      BY <2>2 DEF TickWait, TickRequireCapability, TickWaitEvent, TickEmitEvent, Ticking
    <3> QED
      BY <3>1 DEF Return, Action, TypeOK
  <2>3. CASE RefuseAction(n)
    BY <2>3 DEF RefuseAction, Return, Action, TypeOK
  <2> QED
    BY <2>1, <2>2, <2>3 DEF NodeStep
<1> QED
  BY <1>1, <1>2, ActiveKept

\* An action that is ticked becomes, or already is, the active one; it stays so
\* unless it succeeds.
LEMMA FollowKeepsActive ==
    ASSUME TypeOK, BranchInv, ActionInv, NEW n \in Node,
           NEW status \in FeedbackStatus, FollowAction(n, status)
    PROVE  ActiveInv'
<1> DEFINE held == IF n \in submitted THEN SetNode(n) ELSE Activated(n)
<1>1. n \in Action /\ LeafStep(n)
  BY LeafActions DEF FollowAction, Ticking, Action
<1>2. held \in MissionRuntime /\ held.activeActionId = ActionOf[n]
  <2>1. CASE n \in submitted
    <3>1. last[n] = "running"
      BY <1>1, <2>1, LeafRuns DEF BranchInv, ActionInv
    <3>2. runtime.activeActionId = ActionOf[n]
      BY <1>1, <3>1 DEF ActionInv, Outstanding
    <3> QED
      BY <2>1, <3>2 DEF SetNode, TypeOK, MissionRuntime
  <2>2. CASE n \notin submitted
    <3>1. ActionOf[n] \in ActionId /\ CapabilityOf[n] \in Capability
      BY <1>1, AttributeAssumption DEF Action
    <3> QED
      BY <2>2, <3>1 DEF Activated, SetNode, TypeOK, MissionRuntime
  <2> QED
    BY <2>1, <2>2
<1>3. \/ runtime' = held /\ Return(n, "running")
      \/ runtime' = Deactivated(n, held)
      \/ runtime' = [held EXCEPT !.failureReason = TRUE] /\ Return(n, "failure")
  BY DEF FollowAction
<1> HIDE DEF held
<1>4. CASE runtime' = Deactivated(n, held)
  BY <1>2, <1>4 DEF Deactivated, MissionRuntime, ActiveInv
<1>5. CASE /\ runtime' \in {held, [held EXCEPT !.failureReason = TRUE]}
           /\ Return(n, "running") \/ Return(n, "failure")
  <2>1. runtime'.activeActionId = ActionOf[n]
    BY <1>2, <1>5 DEF MissionRuntime
  <2>2. last'[n] \in {"running", "failure"}
    BY <1>5 DEF Return, TypeOK
  <2> QED
    BY <1>1, <2>1, <2>2 DEF ActiveInv
<1> QED
  BY <1>3, <1>4, <1>5

\* In every mission without reactive nodes, the action the runtime names is one
\* the tree waits for, or a failed one whose alternative is being tried: no
\* succeeded action goes on deciding what the supervisor asks of the world.
THEOREM ActiveActionIsLive == Spec => []ActiveIsOutstanding
<1>1. Init => (Reactive = {} => ActiveInv)
  <2> SUFFICES ASSUME Init PROVE ActiveInv
    OBVIOUS
  <2>1. runtime = FreshRuntime
    BY Zenon DEF Init
  <2> QED
    BY <2>1 DEF FreshRuntime, ActiveInv
<1>2. TypeOK /\ BranchIInv /\ [Next]_vars /\ (Reactive = {} => ActiveInv)
        => (Reactive = {} => ActiveInv)'
  <2> SUFFICES ASSUME TypeOK, BranchIInv, [Next]_vars, Reactive = {}, ActiveInv
               PROVE  ActiveInv'
    OBVIOUS
  <2>1. CASE BeginTick
    <3>1. PICK time \in Int, world \in WorldState,
               table \in [Capability \cup {NoCapability} -> Availability],
               seen \in SUBSET Event :
            \/ TickTerminal(world, time)
            \/ TickPaused(world, time, table)
            \/ TickAborted(world, time, table)
            \/ TickAllowed(world, time, table, seen)
      BY <2>1, BeginCases
    <3> DEFINE met == Observed(world, time)
    <3>2. met \in MissionRuntime /\ met.activeActionId = runtime.activeActionId
      BY ObservedType
    <3>3. /\ last' = last
          /\ \/ runtime' = [runtime EXCEPT !.airborne = world.airborne]
             \/ runtime' = [met EXCEPT !.status = "paused"]
             \/ runtime' = [met EXCEPT !.status = "failed",
                              !.failureReason = TRUE, !.finishedAt = time]
             \/ runtime' = [met EXCEPT !.status = "running"]
      BY <3>1 DEF TickTerminal, TickPaused, TickAborted, TickAllowed, nodeVars
    <3> HIDE DEF met
    <3>4. runtime'.activeActionId = runtime.activeActionId
      BY <3>2, <3>3 DEF MissionRuntime, TypeOK
    <3> QED
      BY <3>3, <3>4, ActiveKept
  <2>2. ASSUME NEW n \in Node, NodeStep(n) PROVE ActiveInv'
    BY <2>2, OtherNodesKeepActive, FollowKeepsActive DEF BranchIInv
  <2>3. CASE FinishTick
    <3>1. last' = last /\ runtime'.activeActionId = runtime.activeActionId
      BY <2>3 DEF FinishTick, nodeVars, TypeOK, MissionRuntime
    <3> QED
      BY <3>1, ActiveKept
  <2>4. CASE Reset
    BY <2>4 DEF Reset, FreshRuntime, ActiveInv
  <2>5. CASE UNCHANGED vars
    BY <2>5, ActiveKept DEF vars, nodeVars
  <2> QED
    BY <2>1, <2>2, <2>3, <2>4, <2>5 DEF Next, Walk, NodeStep
<1>3. (Reactive = {} => ActiveInv) => ActiveIsOutstanding
  BY DEF ActiveInv, ActiveIsOutstanding
<1> QED
  BY <1>1, <1>2, <1>3, BranchCorrect, PTL DEF Spec

-----------------------------------------------------------------------------
(* The reason of a failure.  A Fallback that is not reactive and has run out *)
(* of children fails again, without an error, whenever it is called again.   *)
(* A reactive ancestor may do so; but it absorbs that failure: the nodes     *)
(* whose failure makes the root fail in the same tick fail only once.        *)

\* S holds the root, every child of its Sequences and the last child of its
\* Fallbacks.
Decides(S) ==
    /\ Root \in S
    /\ \A p \in S : \A k \in 1..Len(Children[p]) :
         Kind[p] = "Sequence" \/ k = Len(Children[p]) => Children[p][k] \in S

\* The nodes whose failure ends the mission.
Decisive == {n \in Node : \A S \in SUBSET Node : Decides(S) => n \in S}

\* The failure of a decisive child makes its parent fail.
LEMMA DecisiveParent ==
    ASSUME NEW n \in Decisive, n # Root
    PROVE  /\ Parent[n] \in Decisive
           /\ \/ Kind[Parent[n]] = "Sequence"
              \/ Children[Parent[n]][Len(Children[Parent[n]])] = n
<1>1. n \in Node
  BY DEF Decisive
<1>2. Decides(Decisive)
  <2>1. Root \in Decisive
    BY TreeAssumption DEF Decisive, Decides
  <2>2. ASSUME NEW p \in Decisive, NEW k \in 1..Len(Children[p]),
               Kind[p] = "Sequence" \/ k = Len(Children[p])
        PROVE  Children[p][k] \in Decisive
    <3>1. p \in Node /\ Children[p][k] \in Node
      BY ChildFacts DEF Decisive
    <3>2. \A S \in SUBSET Node : Decides(S) => Children[p][k] \in S
      BY <2>2 DEF Decisive, Decides
    <3> QED
      BY <3>1, <3>2 DEF Decisive
  <2> QED
    BY <2>1, <2>2 DEF Decides
<1> SUFFICES ASSUME ~(/\ Parent[n] \in Decisive
                      /\ \/ Kind[Parent[n]] = "Sequence"
                         \/ Children[Parent[n]][Len(Children[Parent[n]])] = n)
             PROVE  FALSE
  OBVIOUS
<1> DEFINE S == Decisive \ {n}
<1>3. Decides(S)
  <2>1. Root \in S
    BY <1>2 DEF Decides
  <2>2. ASSUME NEW p \in S, NEW k \in 1..Len(Children[p]),
               Kind[p] = "Sequence" \/ k = Len(Children[p])
        PROVE  Children[p][k] \in S
    <3>1. Children[p][k] \in Decisive
      BY <1>2, <2>2 DEF Decides
    <3>2. p \in Node
      BY DEF Decisive
    <3>3. Children[p][k] # n
      BY <2>2, <3>2, ChildFacts
    <3> QED
      BY <3>1, <3>3
  <2> HIDE DEF S
  <2> QED
    BY <2>1, <2>2 DEF Decides
<1>4. S \in SUBSET Node
  BY DEF Decisive
<1> QED
  BY <1>3, <1>4 DEF Decisive

\* A decisive node has just failed, so the root is going to.
Failing == phase = "back" /\ cursor \in Decisive /\ last[cursor] = "failure"

\* A decisive node fails with an error, and once.
ReasonInv ==
    /\ FailureIsExplained
    /\ Failing => error
    /\ \A n \in Decisive :
         /\ Kind[n] = "Fallback" /\ n \notin Reactive /\ index[n] > Len(Children[n])
         => terminal \/ Failing

\* The loop of p, at index i, keeps ReasonInv: if it ends in failure, there is an
\* error and the mission is failing.
LEMMA ReasonLoop ==
    ASSUME TypeOK, ReasonInv, NEW p \in Composite, NEW i \in Nat \ {0}, Loop(p, i),
           runtime' = runtime \/ runtime' = SetNode(p),
           UNCHANGED <<terminal, error>>,
           Failing => p \in Decisive /\ Through(p) = "failure" /\ i > Len(Children[p]),
           p \in Decisive /\ Through(p) = "failure" /\ i > Len(Children[p]) => error
    PROVE  ReasonInv'
<1>1. p \in Node /\ Kind[p] \in {"Sequence", "Fallback"} /\ Len(Children[p]) \in Nat
  BY CompositeFacts
<1>2. index' = [index EXCEPT ![p] = i]
  BY LoopCases
<1>3. FailureIsExplained'
  BY DEF ReasonInv, FailureIsExplained, SetNode, TypeOK, MissionRuntime
<1>4. CASE i \in 1..Len(Children[p]) /\ Call(Children[p][i])
  <2>1. ~Failing /\ ~Failing'
    BY <1>4 DEF Failing, Call
  <2> QED
    BY <1>1, <1>2, <1>3, <1>4, <2>1 DEF ReasonInv, TypeOK
<1>5. CASE i \notin 1..Len(Children[p]) /\ Return(p, Through(p))
  <2>1. i > Len(Children[p])
    BY <1>1, <1>5
  <2>2. Failing' <=> p \in Decisive /\ Through(p) = "failure"
    BY <1>1, <1>5 DEF Failing, Return, TypeOK
  <2>3. ASSUME NEW n \in Decisive, Kind[n] = "Fallback", n \notin Reactive,
               index'[n] > Len(Children[n])
        PROVE  terminal' \/ Failing'
    <3>1. CASE n = p
      BY <2>2, <2>3, <3>1 DEF Through
    <3>2. CASE n # p
      <4>1. index'[n] = index[n]
        BY <1>2, <3>2 DEF Decisive, TypeOK
      <4> QED
        BY <2>1, <2>2, <2>3, <4>1 DEF ReasonInv
    <3> QED
      BY <3>1, <3>2
  <2> QED
    BY <1>3, <2>1, <2>2, <2>3 DEF ReasonInv
<1> QED
  BY <1>4, <1>5, LoopCases

\* A leaf that fails has set the error, in the tick and in the runtime's reason.
LEMMA ReasonLeaf ==
    ASSUME TypeOK, ReasonInv, NEW n \in Node, LeafStep(n),
           Return(n, "failure") => error',
           runtime'.status = runtime.status, runtime.status # "failed"
    PROVE  ReasonInv'
<1>1. ~Failing /\ index' = index /\ terminal' = terminal
  BY DEF LeafStep, Failing
<1>2. PICK status \in {"running", "success", "failure"} : Return(n, status)
  BY DEF LeafStep
<1>3. Failing' => error'
  BY <1>2 DEF Failing, Return, TypeOK
<1> QED
  BY <1>1, <1>3 DEF ReasonInv, FailureIsExplained

\* Each leaf of the tree reports why it fails.
LEMMA LeafExplains ==
    ASSUME TypeOK, NEW n \in Node, Return(n, "failure"),
           \/ TickWait(n) \/ TickRequireCapability(n) \/ TickWaitEvent(n)
           \/ TickEmitEvent(n) \/ RefuseAction(n)
           \/ \E status \in FeedbackStatus : FollowAction(n, status)
    PROVE  error'
<1>1. ASSUME NEW status, Return(n, status) PROVE status = "failure"
  BY <1>1 DEF Return, TypeOK
<1>2. ASSUME NEW status, FollowAction(n, status) PROVE error'
  BY <1>1, <1>2 DEF FollowAction
<1> QED
  BY <1>1, <1>2 DEF TickWait, TickRequireCapability, TickWaitEvent, TickEmitEvent,
                    RefuseAction

\* Every step keeps ReasonInv.
LEMMA ReasonStep ==
    ASSUME TypeOK, StackInv, StatusInv, ReasonInv, [Next]_vars
    PROVE  ReasonInv'
<1>1. CASE BeginTick
  <2>1. PICK time \in Int, world \in WorldState,
             table \in [Capability \cup {NoCapability} -> Availability],
             seen \in SUBSET Event :
          \/ TickTerminal(world, time)
          \/ TickPaused(world, time, table)
          \/ TickAborted(world, time, table)
          \/ TickAllowed(world, time, table, seen)
    BY <1>1, BeginCases
  <2> DEFINE met == Observed(world, time)
  <2>2. met \in MissionRuntime
    BY ObservedType
  <2>3. /\ index' = index /\ (terminal => terminal') /\ ~Failing /\ ~Failing'
    BY <2>1 DEF TickTerminal, TickPaused, TickAborted, TickAllowed, nodeVars, walkVars,
                Failing
  <2>4. FailureIsExplained'
    <3>1. \/ runtime' = [runtime EXCEPT !.airborne = world.airborne]
          \/ runtime' = [met EXCEPT !.status = "paused"]
          \/ runtime' = [met EXCEPT !.status = "failed",
                           !.failureReason = TRUE, !.finishedAt = time]
          \/ runtime' = [met EXCEPT !.status = "running"]
      BY <2>1 DEF TickTerminal, TickPaused, TickAborted, TickAllowed
    <3> HIDE DEF met
    <3>2. runtime'.status = "failed" =>
            \/ runtime.status = "failed" /\ runtime'.failureReason = runtime.failureReason
            \/ runtime'.failureReason
      BY <2>2, <3>1 DEF MissionRuntime, TypeOK
    <3> QED
      BY <3>2 DEF ReasonInv, FailureIsExplained
  <2> QED
    BY <2>3, <2>4 DEF ReasonInv
<1>2. ASSUME NEW n \in Node, EnterComposite(n) PROVE ReasonInv'
  <2> DEFINE i == IF n \in Reactive THEN 1 ELSE index[n]
  <2>1. /\ n \in Composite /\ phase = "enter" /\ cursor = n /\ Loop(n, i)
        /\ runtime' = SetNode(n) /\ UNCHANGED <<terminal, error>>
    BY <1>2 DEF EnterComposite, Ticking
  <2>2. i \in Nat \ {0} /\ ~Failing
    BY <2>1 DEF TypeOK, Failing
  <2>3. ~(n \in Decisive /\ Through(n) = "failure" /\ i > Len(Children[n]))
    <3>1. SUFFICES ASSUME n \in Decisive, Through(n) = "failure", i > Len(Children[n])
                   PROVE  FALSE
      OBVIOUS
    <3>2. Kind[n] = "Fallback"
      BY <2>1, <3>1, CompositeFacts DEF Through
    <3>3. n \notin Reactive /\ i = index[n]
      BY <2>1, <3>1, CompositeFacts
    <3>4. ~terminal
      BY <2>1 DEF StatusInv, Ended
    <3> QED
      BY <2>2, <3>1, <3>2, <3>3, <3>4 DEF ReasonInv
  <2> HIDE DEF i
  <2> QED
    BY <2>1, <2>2, <2>3, ReasonLoop
<1>3. ASSUME NEW p \in Node, StopAtChild(p) PROVE ReasonInv'
  <2>1. /\ phase = "back" /\ cursor \in Node /\ cursor # Root /\ p = Parent[cursor]
        /\ last[cursor] \in Stops(p) /\ Return(p, last[cursor])
        /\ UNCHANGED <<runtime, terminal, index, error>>
    BY <1>3 DEF StopAtChild, TypeOK
  <2>2. Failing <=> Failing'
    <3>1. Failing' <=> p \in Decisive /\ last[cursor] = "failure"
      BY <2>1 DEF Failing, Return, TypeOK
    <3>2. last[cursor] = "failure" => Kind[p] = "Sequence"
      BY <2>1 DEF Stops
    <3>3. cursor \in Decisive => p \in Decisive
      BY <2>1, DecisiveParent
    <3>4. p \in Decisive /\ Kind[p] = "Sequence" => cursor \in Decisive
      <4>1. PICK k \in 1..Len(Children[p]) : Children[p][k] = cursor
        BY <2>1, ParentFacts
      <4> QED
        BY <2>1, <4>1 DEF Decisive, Decides
    <3> QED
      BY <2>1, <3>1, <3>2, <3>3, <3>4 DEF Failing
  <2> QED
    BY <2>1, <2>2 DEF ReasonInv, FailureIsExplained
<1>4. ASSUME NEW p \in Node, AdvanceChild(p) PROVE ReasonInv'
  <2>1. /\ phase = "back" /\ cursor \in Node /\ cursor # Root /\ p = Parent[cursor]
        /\ last[cursor] \notin Stops(p) /\ Loop(p, index[p] + 1)
        /\ UNCHANGED <<runtime, terminal, error>>
    BY <1>4 DEF AdvanceChild, TypeOK
  <2>2. /\ p \in Composite /\ At(p, cursor) /\ last[cursor] = Through(p)
        /\ index[p] + 1 \in Nat \ {0} /\ index[p] \in Nat
    BY <2>1, ParentFacts, CompositeFacts DEF StackInv, TypeOK
  <2>3. Len(Children[p]) \in Nat /\ Kind[p] \in {"Sequence", "Fallback"}
    BY <2>2, CompositeFacts
  <2>4. Failing => /\ p \in Decisive /\ Through(p) = "failure"
                   /\ index[p] + 1 > Len(Children[p])
    <3>1. SUFFICES ASSUME Failing
                   PROVE  p \in Decisive /\ Through(p) = "failure"
                            /\ index[p] + 1 > Len(Children[p])
      OBVIOUS
    <3>2. Through(p) = "failure" /\ Kind[p] = "Fallback"
      BY <2>2, <2>3, <3>1 DEF Failing, Through
    <3>3. p \in Decisive /\ Children[p][Len(Children[p])] = cursor
      BY <2>1, <3>1, <3>2, DecisiveParent DEF Failing
    <3>4. index[p] = Len(Children[p])
      <4>1. Len(Children[p]) \in 1..Len(Children[p])
        BY <2>2, CompositeFacts
      <4> QED
        BY <2>2, <3>3, <4>1, ChildFacts DEF At
    <3> QED
      BY <2>2, <3>2, <3>3, <3>4
  <2>5. p \in Decisive /\ Through(p) = "failure" /\ index[p] + 1 > Len(Children[p])
          => error
    <3>1. SUFFICES ASSUME p \in Decisive, Through(p) = "failure",
                          index[p] + 1 > Len(Children[p])
                   PROVE  Failing
      BY DEF ReasonInv
    <3>2. index[p] = Len(Children[p])
      BY <2>2, <2>3, <3>1 DEF At
    <3>3. cursor \in Decisive
      BY <2>1, <2>2, <3>1, <3>2 DEF At, Decisive, Decides
    <3> QED
      BY <2>1, <2>2, <3>1, <3>3 DEF Failing
  <2> QED
    BY <2>1, <2>2, <2>4, <2>5, ReasonLoop
<1>5. ASSUME NEW n \in Node,
             \/ TickWait(n) \/ TickRequireCapability(n)
             \/ TickWaitEvent(n) \/ TickEmitEvent(n) \/ RefuseAction(n)
             \/ \E status \in FeedbackStatus : FollowAction(n, status)
      PROVE  ReasonInv'
  <2>1. LeafStep(n) /\ NodeStep(n)
    BY <1>5, LeafActions DEF NodeStep
  <2>2. runtime'.status = runtime.status /\ runtime.status # "failed"
    BY <2>1, NodeKeeps DEF StatusInv
  <2> QED
    BY <1>5, <2>1, <2>2, LeafExplains, ReasonLeaf
<1>6. CASE FinishTick
  <2>1. /\ phase = "back" /\ cursor = Root /\ phase' = "out"
        /\ index' = index /\ (terminal => terminal')
    BY <1>6 DEF FinishTick, nodeVars
  <2>2. Root \in Decisive
    BY TreeAssumption DEF Decisive, Decides
  <2>3. last[Root] = "failure" => error /\ terminal'
    BY <1>6, <2>1, <2>2 DEF FinishTick, ReasonInv, Failing
  <2>4. FailureIsExplained'
    BY <1>6, <2>1, <2>3 DEF FinishTick, ReasonInv, FailureIsExplained, TypeOK,
                            MissionRuntime
  <2>5. ~Failing' /\ (Failing => terminal')
    BY <2>1, <2>3 DEF Failing
  <2> QED
    BY <2>1, <2>4, <2>5 DEF ReasonInv
<1>7. CASE Reset
  <2>1. ~Failing'
    BY <1>7 DEF Reset, walkVars, Failing
  <2>2. \A n \in Decisive : index'[n] = 1
    BY <1>7 DEF Reset, Decisive
  <2>3. \A n \in Decisive : Kind[n] = "Fallback" => Len(Children[n]) >= 1
    BY CompositeFacts DEF Decisive, Composite
  <2>4. FailureIsExplained'
    BY <1>7 DEF Reset, FreshRuntime, FailureIsExplained
  <2>5. \A n \in Decisive : Kind[n] = "Fallback" => ~(index'[n] > Len(Children[n]))
    <3>1. \A n \in Decisive : Kind[n] = "Fallback" => Len(Children[n]) \in Nat
      BY CompositeFacts DEF Decisive, Composite
    <3> QED
      BY <2>2, <2>3, <3>1
  <2> QED
    BY <2>1, <2>4, <2>5 DEF ReasonInv
<1>8. CASE UNCHANGED vars
  BY <1>8 DEF vars, nodeVars, walkVars, ReasonInv, FailureIsExplained, Failing
<1> QED
  BY <1>1, <1>2, <1>3, <1>4, <1>5, <1>6, <1>7, <1>8 DEF Next, Walk

\* In every mission, reactive or not, a failed mission has a reason: the nodes
\* that make the root fail have failed in that tick, and said why, although the
\* reason is overwritten with the error of that tick alone.
THEOREM FailuresExplained == Spec => []FailureIsExplained
<1>1. Init => ReasonInv
  <2> SUFFICES ASSUME Init PROVE ReasonInv
    OBVIOUS
  <2>1. runtime = FreshRuntime /\ phase = "out" /\ index = [n \in Node |-> 1]
    BY Zenon DEF Init
  <2>2. \A n \in Decisive : n \in Node /\ index[n] = 1
    BY <2>1 DEF Decisive
  <2>3. \A n \in Decisive : Kind[n] = "Fallback" =>
          Len(Children[n]) \in Nat /\ Len(Children[n]) >= 1
    BY <2>2, CompositeFacts DEF Composite
  <2>4. \A n \in Decisive : Kind[n] = "Fallback" => ~(index[n] > Len(Children[n]))
    BY <2>2, <2>3
  <2> QED
    BY <2>1, <2>4 DEF ReasonInv, FailureIsExplained, Failing, FreshRuntime
<1>2. TypeOK /\ BranchIInv /\ StatusInv /\ ReasonInv /\ [Next]_vars => ReasonInv'
  BY ReasonStep DEF BranchIInv
<1>3. ReasonInv => FailureIsExplained
  BY DEF ReasonInv
<1> QED
  BY <1>1, <1>2, <1>3, BranchCorrect, StatusCorrect, PTL DEF Spec

-----------------------------------------------------------------------------
(* What success says of the tree.                                          *)

\* A composite that returned success, and is not being called again, still has
\* the results that made it one: all its children's if it is a Sequence, one
\* child's if it is a Fallback.
ResultInv ==
    \A p \in Composite : p \notin frames /\ last[p] = "success" =>
      IF Kind[p] = "Sequence"
        THEN \A k \in 1..Len(Children[p]) : last[Children[p][k]] = "success"
        ELSE \E k \in 1..Len(Children[p]) : last[Children[p][k]] = "success"

\* A node that returns leaves the results below every other node alone.
LEMMA ReturnKeepsResults ==
    ASSUME TypeOK, StackInv, ResultInv, NEW n \in frames, NEW status, Return(n, status),
           NEW p \in Composite, p # n, p \notin frames', last'[p] = "success"
    PROVE  IF Kind[p] = "Sequence"
             THEN \A k \in 1..Len(Children[p]) : last'[Children[p][k]] = "success"
             ELSE \E k \in 1..Len(Children[p]) : last'[Children[p][k]] = "success"
<1>1. p \in Node /\ n \in Node /\ p \notin frames
  BY CompositeFacts DEF Return, TypeOK
<1>2. last[p] = "success"
  BY <1>1 DEF Return, TypeOK
<1>3. \A k \in 1..Len(Children[p]) : last'[Children[p][k]] = last[Children[p][k]]
  <2> SUFFICES ASSUME NEW k \in 1..Len(Children[p])
               PROVE  last'[Children[p][k]] = last[Children[p][k]]
    OBVIOUS
  <2>1. Children[p][k] # n /\ Children[p][k] \in Node
    BY <1>1, FrameIsAtIndex, ChildFacts
  <2> QED
    BY <1>1, <2>1 DEF Return, TypeOK
<1> QED
  BY <1>1, <1>2, <1>3 DEF ResultInv

\* A loop that ends has passed all the children of a Sequence with success.
LEMMA LoopKeepsResults ==
    ASSUME TypeOK, StackInv, ResultInv, PassedChildren',
           NEW n \in Composite, n \in frames, NEW i \in Nat \ {0}, Loop(n, i)
    PROVE  ResultInv'
<1>1. n \in Node /\ Len(Children[n]) \in Nat /\ Kind[n] \in {"Sequence", "Fallback"}
  BY CompositeFacts
<1>2. index' = [index EXCEPT ![n] = i] /\ index'[n] = i
  BY <1>1, LoopCases DEF TypeOK
<1>3. CASE i \in 1..Len(Children[n]) /\ Call(Children[n][i]) /\ last' = last
  BY <1>3 DEF Call, ResultInv
<1>4. CASE i \notin 1..Len(Children[n]) /\ Return(n, Through(n))
  <2> SUFFICES ASSUME NEW p \in Composite, p \notin frames', last'[p] = "success"
               PROVE  IF Kind[p] = "Sequence"
                        THEN \A k \in 1..Len(Children[p]) : last'[Children[p][k]] = "success"
                        ELSE \E k \in 1..Len(Children[p]) : last'[Children[p][k]] = "success"
    BY DEF ResultInv
  <2>1. CASE p # n
    BY <1>4, <2>1, ReturnKeepsResults
  <2>2. CASE p = n
    <3>1. last'[n] = Through(n)
      BY <1>1, <1>4 DEF Return, TypeOK
    <3>2. Kind[n] = "Sequence"
      BY <1>1, <2>2, <3>1 DEF Through
    <3>3. \A k \in 1..Len(Children[n]) : k < index'[n]
      BY <1>1, <1>2, <1>4
    <3>4. \A k \in 1..Len(Children[n]) : last'[Children[n][k]] = Through(n)
      BY <3>3 DEF PassedChildren
    <3> QED
      BY <2>2, <3>1, <3>2, <3>4
  <2> QED
    BY <2>1, <2>2
<1> QED
  BY <1>3, <1>4, LoopCases

\* Every step keeps ResultInv.
LEMMA ResultStep ==
    ASSUME TypeOK, StackInv, PassedChildren', ResultInv, [Next]_vars
    PROVE  ResultInv'
<1>1. CASE SkipStep \/ UNCHANGED <<index, last, walkVars, terminal>>
  BY <1>1 DEF SkipStep, ResultInv, walkVars
<1>2. CASE StartStep
  BY <1>2 DEF StartStep, StackInv, ResultInv
<1>3. ASSUME NEW n \in Node, LeafStep(n) PROVE ResultInv'
  <2>1. n \in frames /\ n \notin Composite
    BY <1>3 DEF LeafStep, StackInv, Leaf
  <2>2. PICK status : Return(n, status)
    BY <1>3 DEF LeafStep
  <2> QED
    BY <2>1, <2>2, ReturnKeepsResults DEF ResultInv
<1>4. ASSUME NEW n \in Node, EnterComposite(n) PROVE ResultInv'
  <2> DEFINE i == IF n \in Reactive THEN 1 ELSE index[n]
  <2>1. n \in Composite /\ n \in frames /\ Loop(n, i)
    BY <1>4 DEF EnterComposite, Ticking, StackInv
  <2>2. i \in Nat \ {0}
    BY DEF TypeOK
  <2> HIDE DEF i
  <2> QED
    BY <2>1, <2>2, LoopKeepsResults
<1>5. ASSUME NEW p \in Node, StopAtChild(p) PROVE ResultInv'
  <2>1. /\ phase = "back" /\ cursor # Root /\ p = Parent[cursor] /\ cursor \in Node
        /\ Return(p, last[cursor]) /\ last[cursor] \in Stops(p) /\ index' = index
    BY <1>5 DEF StopAtChild, TypeOK
  <2>2. p \in Composite /\ p \in frames /\ At(p, cursor)
    BY <2>1, ParentFacts DEF StackInv
  <2>3. last'[p] = "success" =>
          Kind[p] # "Sequence" /\ last[cursor] = "success"
    BY <2>1 DEF Stops, Return, TypeOK
  <2>4. index[p] \in 1..Len(Children[p]) /\ Children[p][index[p]] = cursor
    BY <2>2 DEF At
  <2>5. last'[cursor] = last[cursor]
    BY <1>5, <2>1, <2>4, NotOwnChild DEF Return, TypeOK
  <2> QED
    BY <2>1, <2>2, <2>3, <2>4, <2>5, ReturnKeepsResults DEF ResultInv
<1>6. ASSUME NEW p \in Node, AdvanceChild(p) PROVE ResultInv'
  <2>1. /\ phase = "back" /\ cursor # Root /\ p = Parent[cursor] /\ cursor \in Node
        /\ Loop(p, index[p] + 1)
    BY <1>6 DEF AdvanceChild, TypeOK
  <2>2. p \in Composite /\ p \in frames
    BY <2>1, ParentFacts DEF StackInv
  <2>3. index[p] + 1 \in Nat \ {0}
    BY DEF TypeOK
  <2> QED
    BY <2>1, <2>2, <2>3, LoopKeepsResults
<1>7. CASE FinishTick
  BY <1>7 DEF FinishTick, ResultInv, nodeVars
<1>8. CASE Reset
  <2>1. \A n \in Composite : last'[n] = "idle"
    BY <1>8, CompositeFacts DEF Reset
  <2> QED
    BY <2>1 DEF ResultInv
<1> QED
  BY <1>1, <1>2, <1>3, <1>4, <1>5, <1>6, <1>7, <1>8, StepShapes

\* A mission has succeeded because its root has, and it has stopped.
SuccessInv ==
    runtime.status = "succeeded" =>
      phase = "out" /\ frames = {} /\ last[Root] = "success"

\* Every step keeps SuccessInv.
LEMMA SuccessStep ==
    ASSUME TypeOK, StackInv, StatusInv, SuccessInv, [Next]_vars
    PROVE  SuccessInv'
<1>1. CASE BeginTick
  <2>1. PICK time \in Int, world \in WorldState,
             table \in [Capability \cup {NoCapability} -> Availability],
             seen \in SUBSET Event :
          \/ TickTerminal(world, time)
          \/ TickPaused(world, time, table)
          \/ TickAborted(world, time, table)
          \/ TickAllowed(world, time, table, seen)
    BY <1>1, BeginCases
  <2>2. Observed(world, time) \in MissionRuntime
    BY ObservedType
  <2>3. CASE TickTerminal(world, time)
    BY <2>3 DEF TickTerminal, SuccessInv, TypeOK, MissionRuntime, walkVars, nodeVars
  <2>4. CASE \/ TickPaused(world, time, table) \/ TickAborted(world, time, table)
             \/ TickAllowed(world, time, table, seen)
    <3>1. runtime'.status # "succeeded"
      BY <2>2, <2>4 DEF TickPaused, TickAborted, TickAllowed, MissionRuntime
    <3> QED
      BY <3>1 DEF SuccessInv
  <2> QED
    BY <2>1, <2>3, <2>4
<1>2. ASSUME NEW n \in Node, NodeStep(n) PROVE SuccessInv'
  <2>1. runtime'.status # "succeeded"
    BY <1>2, NodeKeeps DEF StatusInv
  <2> QED
    BY <2>1 DEF SuccessInv
<1>3. CASE FinishTick
  <2>1. phase' = "out" /\ frames' = frames /\ last' = last /\ frames = {}
    BY <1>3, DepthFacts DEF FinishTick, nodeVars, StackInv, TypeOK
  <2>2. runtime.status = "running"
    BY <1>3 DEF FinishTick, StatusInv
  <2>3. runtime'.status = "succeeded" => last[Root] = "success"
    BY <1>3, <2>2 DEF FinishTick, TypeOK, MissionRuntime
  <2> QED
    BY <2>1, <2>3 DEF SuccessInv
<1>4. CASE Reset
  BY <1>4 DEF Reset, FreshRuntime, SuccessInv
<1>5. CASE UNCHANGED vars
  BY <1>5 DEF vars, walkVars, nodeVars, SuccessInv
<1> QED
  BY <1>1, <1>2, <1>3, <1>4, <1>5 DEF Next, Walk, NodeStep

\* What success says of the tree holds in every reachable state.
LEMMA ResultCorrect == Spec => [](ResultInv /\ SuccessInv)
<1>1. Init => StackInv /\ ResultInv /\ SuccessInv
  <2> SUFFICES ASSUME Init PROVE StackInv /\ ResultInv /\ SuccessInv
    OBVIOUS
  <2>1. /\ runtime = FreshRuntime /\ frames = {} /\ phase = "out"
        /\ last = [n \in Node |-> "idle"]
    BY Zenon DEF Init
  <2>2. \A n \in Composite : last[n] = "idle"
    BY <2>1, CompositeFacts
  <2> QED
    BY <2>1, <2>2 DEF StackInv, ResultInv, SuccessInv, FreshRuntime
<1>2. TypeOK /\ StatusInv /\ StackInv /\ PassedChildren' /\ ResultInv /\ SuccessInv
        /\ [Next]_vars => (StackInv /\ ResultInv /\ SuccessInv)'
  BY StackStep, ResultStep, SuccessStep
<1> QED
  BY <1>1, <1>2, StatusCorrect, OrderKept, PTL DEF Spec
=============================================================================
