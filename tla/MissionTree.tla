----------------------------- MODULE MissionTree -----------------------------
(***************************************************************************)
(* mission_core::MissionTree: an XML mission interpreted one tick at a     *)
(* time, against any action executor, any stream of world states and any   *)
(* capability table.                                                       *)
(*                                                                         *)
(* The tree is given by constants, so every specification and theorem is   *)
(* about every well-formed tree.  One C++ tick() is a run of steps of this *)
(* module: the prologue (safety decision, pause / cancel / resume), then   *)
(* one step per node call or return of the recursive tree walk, then the   *)
(* epilogue.  `frames` is the C++ call stack as a set, `cursor` its top.   *)
(* Nothing else runs between these steps (the process is single-threaded). *)
(* The answers of IActionExecutor::submit and ::feedback are parameters of *)
(* TickExecuteAction: here any answer is possible, and the modules that    *)
(* compose the tree with an executor supply that executor's answer.        *)
(***************************************************************************)
EXTENDS SafetySupervisor, Sequences

CONSTANTS
    Node, NoNode, Root,  \* the nodes of the parsed tree
    Kind,                \* [Node -> XML element name, without "Reactive"]
    Reactive,            \* the composites declared Reactive...
    Children, Parent,    \* the tree
    Depth,               \* distance from the root: the tree has no cycle
    ActionOf,            \* action id of an ExecuteAction node
    CapabilityOf,        \* capability of a RequireCapability or ExecuteAction
    SecondsOf,           \* duration of a Wait node
    EventOf,             \* event of a WaitEvent or EmitEvent node
    Event, ActionId, NoCapability,
    Sense,               \* the world states a tick may observe
    CapabilityTable,     \* the capability tables an executor may answer
    Elapse,              \* how far the clock may move between two ticks
    MaxNow               \* bound on the clock

Composite == {n \in Node : Kind[n] \in {"Sequence", "Fallback"}}

Leaf == Node \ Composite

Action == {n \in Node : Kind[n] = "ExecuteAction"}

\* What MissionTree::Impl::parse_node accepts: one root, composites that are
\* not empty, every other element a leaf of a known kind.
ASSUME TreeAssumption ==
    /\ Root \in Node /\ NoNode \notin Node
    /\ Kind \in [Node -> {"Sequence", "Fallback", "Wait", "RequireCapability",
                          "ExecuteAction", "WaitEvent", "EmitEvent"}]
    /\ Reactive \subseteq Composite
    /\ Children \in [Node -> Seq(Node)]
    /\ \A n \in Node : Children[n] # <<>> <=> n \in Composite
    /\ Parent \in [Node -> Node \cup {NoNode}]
    /\ \A n \in Node : n = Root <=> Parent[n] = NoNode
    /\ Depth \in [Node -> Nat] /\ Depth[Root] = 0
    /\ \A n \in Node \ {Root} : Depth[n] = Depth[Parent[n]] + 1
    /\ \A n \in Node \ {Root} :
         \E k \in 1..Len(Children[Parent[n]]) : Children[Parent[n]][k] = n
    /\ \A p \in Node : \A k \in 1..Len(Children[p]) :
         /\ Parent[Children[p][k]] = p
         /\ \A j \in 1..Len(Children[p]) :
              Children[p][j] = Children[p][k] => j = k

ASSUME AttributeAssumption ==
    /\ NoAction \notin ActionId /\ NoCapability \notin Capability
    /\ ActionOf \in [Action -> ActionId]
    /\ CapabilityOf \in
         [{n \in Node : Kind[n] \in {"RequireCapability", "ExecuteAction"}}
            -> Capability]
    /\ SecondsOf \in [{n \in Node : Kind[n] = "Wait"} -> Nat]
    /\ EventOf \in [{n \in Node : Kind[n] \in {"WaitEvent", "EmitEvent"}}
                      -> Event]

ASSUME EnvironmentAssumption ==
    /\ Sense \subseteq WorldState
    /\ CapabilityTable \subseteq [Capability \cup {NoCapability} -> Availability]
    /\ Elapse \subseteq Int
    /\ MaxNow \in Nat

VARIABLES
    runtime,     \* MissionRuntime
    terminal,    \* Impl::terminal_
    index,       \* SequenceNode / FallbackNode ::index_, counted from 1
    startedAt,   \* WaitNode::started_at_, {} or {time}
    submitted,   \* the ExecuteAction nodes with submitted_ set
    frames,      \* nodes whose tick() is on the call stack
    cursor,      \* the node being called, or that has just returned
    phase,       \* "out", or "enter" / "back": cursor is called / has returned
    last,        \* history: what the latest tick() of each node returned
    error,       \* Context::error is not empty
    emitted,     \* EmitEvent nodes that pushed an event in this tick
    now, caps, events   \* what this tick observed

nodeVars == <<index, startedAt, submitted, last>>
walkVars == <<frames, cursor, phase>>
tickVars == <<now, caps, events>>
vars == <<runtime, terminal, nodeVars, walkVars, error, emitted, tickVars>>

NodeStatus == {"idle", "running", "success", "failure"}

FeedbackStatus == {"idle", "accepted", "running", "paused",
                   "succeeded", "failed", "cancelled"}

\* failure_reason and Context::error are kept only as empty or not.
MissionRuntime ==
    [status : MissionStatus, activeNode : Node \cup {NoNode},
     activeActionId : ActionId \cup {NoAction},
     activeCapability : Capability \cup {NoCapability},
     airborne : BOOLEAN, startedAt : Int, finishedAt : Int,
     failureReason : BOOLEAN]

NoCaps == [c \in Capability \cup {NoCapability} |-> "unsupported"]

FreshRuntime ==
    [status |-> "idle", activeNode |-> NoNode, activeActionId |-> NoAction,
     activeCapability |-> NoCapability, airborne |-> FALSE, startedAt |-> 0,
     finishedAt |-> 0, failureReason |-> FALSE]

Init ==
    /\ runtime = FreshRuntime
    /\ terminal = FALSE
    /\ index = [n \in Node |-> 1]
    /\ startedAt = [n \in Node |-> {}]
    /\ submitted = {}
    /\ last = [n \in Node |-> "idle"]
    /\ frames = {} /\ cursor = NoNode /\ phase = "out"
    /\ error = FALSE /\ emitted = {}
    /\ now = 0 /\ caps = NoCaps /\ events = {}

-----------------------------------------------------------------------------
(* The prologue of MissionTree::tick.                                      *)

\* The runtime as the safety supervisor sees it: airborne mirrored from the
\* world, and an idle mission started.
Observed(world, time) ==
    LET mirrored == [runtime EXCEPT !.airborne = world.airborne]
    IN  IF runtime.status = "idle"
          THEN [mirrored EXCEPT !.status = "running", !.startedAt = time]
          ELSE mirrored

\* Fault: a paused mission whose state is lost stays paused, limit or not.
DecisionMutant(world, time, table) ==
    IF runtime.status = "paused" /\ StateLost(world) THEN "pause"
    ELSE Evaluate(world, time, table, Observed(world, time))

Decision(world, time, table) ==
    Evaluate(world, time, table, Observed(world, time))

\* A tick of a finished mission only mirrors airborne and updates the executor.
TickTerminal(world, time) ==
    /\ phase = "out" /\ terminal
    /\ runtime' = [runtime EXCEPT !.airborne = world.airborne]
    /\ now' = time /\ emitted' = {}
    /\ UNCHANGED <<terminal, nodeVars, walkVars, error, caps, events>>

\* The supervisor pauses: the tree is not ticked and the events are dropped.
TickPaused(world, time, table) ==
    /\ phase = "out" /\ ~terminal
    /\ Decision(world, time, table) = "pause"
    /\ runtime' = [Observed(world, time) EXCEPT !.status = "paused"]
    /\ now' = time /\ emitted' = {}
    /\ UNCHANGED <<terminal, nodeVars, walkVars, error, caps, events>>

\* The supervisor ends the mission; the active action, if any, is cancelled.
TickAborted(world, time, table) ==
    /\ phase = "out" /\ ~terminal
    /\ Decision(world, time, table) \in {"abort", "emergency"}
    /\ runtime' = [Observed(world, time) EXCEPT !.status = "failed",
                     !.failureReason = TRUE, !.finishedAt = time]
    /\ terminal' = TRUE
    /\ now' = time /\ emitted' = {}
    /\ UNCHANGED <<nodeVars, walkVars, error, caps, events>>

\* Fault: the terminal_ flag is not tested before the tree is ticked.
TickAllowedMutant(world, time, table, seen) ==
    /\ phase = "out" /\ Decision(world, time, table) = "allow"
    /\ runtime' = [Observed(world, time) EXCEPT !.status = "running"]
    /\ now' = time /\ caps' = table /\ events' = seen
    /\ cursor' = Root /\ frames' = {Root} /\ phase' = "enter"
    /\ error' = FALSE /\ emitted' = {}
    /\ UNCHANGED <<terminal, nodeVars>>

\* The supervisor allows the tick: a paused mission resumes, the executor is
\* updated and the root is called.
TickAllowed(world, time, table, seen) ==
    /\ phase = "out" /\ ~terminal
    /\ Decision(world, time, table) = "allow"
    /\ runtime' = [Observed(world, time) EXCEPT !.status = "running"]
    /\ now' = time /\ caps' = table /\ events' = seen
    /\ cursor' = Root /\ frames' = {Root} /\ phase' = "enter"
    /\ error' = FALSE /\ emitted' = {}
    /\ UNCHANGED <<terminal, nodeVars>>

-----------------------------------------------------------------------------
(* The recursive walk: Node::tick() of each kind.                          *)

\* A node is called: its tick() starts.
Call(n) == cursor' = n /\ frames' = frames \cup {n} /\ phase' = "enter"

\* The tick() of n returns to the loop of its parent.
Return(n, status) ==
    /\ cursor' = n /\ frames' = frames \ {n} /\ phase' = "back"
    /\ last' = [last EXCEPT ![n] = status]

Ticking(n, kind) ==
    phase = "enter" /\ cursor = n /\ Kind[n] = kind

\* Context::set_node
SetNode(n) == [runtime EXCEPT !.activeNode = n]

\* Context::reject: the failure is recorded, even if a Fallback absorbs it.
Reject(n) == [SetNode(n) EXCEPT !.failureReason = TRUE]

\* Fault: a Sequence goes on past a child that is still running.
StopsMutant(p) == IF Kind[p] = "Sequence" THEN {"failure"}
                                          ELSE {"running", "success"}

\* What a composite returns at once, and what it returns when its loop ends.
Stops(p) == IF Kind[p] = "Sequence" THEN {"running", "failure"}
                                    ELSE {"running", "success"}

Through(p) == IF Kind[p] = "Sequence" THEN "success" ELSE "failure"

\* Fault: the loop stores the index it counted from zero.
LoopMutant(p, i) ==
    /\ index' = [index EXCEPT ![p] = i - 1]
    /\ \/ /\ i <= Len(Children[p])
          /\ Call(Children[p][i])
          /\ UNCHANGED last
       \/ /\ i > Len(Children[p])
          /\ Return(p, Through(p))

\* The while loop of SequenceNode::tick and FallbackNode::tick at index i.
Loop(p, i) ==
    /\ index' = [index EXCEPT ![p] = i]
    /\ \/ /\ i <= Len(Children[p])
          /\ Call(Children[p][i])
          /\ UNCHANGED last
       \/ /\ i > Len(Children[p])
          /\ Return(p, Through(p))

\* Fault: every composite starts again at its first child.
EnterCompositeMutant(n) ==
    /\ n \in Composite /\ Ticking(n, Kind[n])
    /\ runtime' = SetNode(n)
    /\ Loop(n, 1)
    /\ UNCHANGED <<terminal, startedAt, submitted, error, emitted, tickVars>>

\* A composite is called: a reactive one starts again at its first child.
EnterComposite(n) ==
    /\ n \in Composite /\ Ticking(n, Kind[n])
    /\ runtime' = SetNode(n)
    /\ Loop(n, IF n \in Reactive THEN 1 ELSE index[n])
    /\ UNCHANGED <<terminal, startedAt, submitted, error, emitted, tickVars>>

\* The child the loop of p called has returned and ends the loop.
StopAtChild(p) ==
    /\ phase = "back" /\ cursor # Root /\ p = Parent[cursor]
    /\ last[cursor] \in Stops(p)
    /\ Return(p, last[cursor])
    /\ UNCHANGED <<runtime, terminal, index, startedAt, submitted, error,
                   emitted, tickVars>>

\* The child has returned and the loop goes on with the next one.
AdvanceChild(p) ==
    /\ phase = "back" /\ cursor # Root /\ p = Parent[cursor]
    /\ last[cursor] \notin Stops(p)
    /\ Loop(p, index[p] + 1)
    /\ UNCHANGED <<runtime, terminal, startedAt, submitted, error, emitted,
                   tickVars>>

\* WaitNode::tick; the start time is latched by the first call.
TickWait(n) ==
    /\ Ticking(n, "Wait")
    /\ startedAt' = [startedAt EXCEPT ![n] = IF @ = {} THEN {now} ELSE @]
    /\ \E start \in startedAt'[n] :
         \/ /\ now < start
            /\ runtime' = Reject(n) /\ error' = TRUE
            /\ Return(n, "failure")
         \/ /\ now >= start
            /\ runtime' = SetNode(n) /\ UNCHANGED error
            /\ Return(n, IF now - start >= SecondsOf[n] THEN "success"
                                                        ELSE "running")
    /\ UNCHANGED <<terminal, index, submitted, emitted, tickVars>>

\* RequireCapabilityNode::tick; a busy capability is waited for.
TickRequireCapability(n) ==
    /\ Ticking(n, "RequireCapability")
    /\ LET found == caps[CapabilityOf[n]]
       IN  \/ /\ found = "unsupported"
              /\ runtime' = Reject(n) /\ error' = TRUE
              /\ Return(n, "failure")
           \/ /\ found # "unsupported"
              /\ runtime' = SetNode(n) /\ UNCHANGED error
              /\ Return(n, IF found = "available" THEN "success"
                                                  ELSE "running")
    /\ UNCHANGED <<terminal, index, startedAt, submitted, emitted, tickVars>>

\* WaitEventNode::tick: only the events of this tick count.
TickWaitEvent(n) ==
    /\ Ticking(n, "WaitEvent")
    /\ runtime' = SetNode(n)
    /\ Return(n, IF EventOf[n] \in events THEN "success" ELSE "running")
    /\ UNCHANGED <<terminal, index, startedAt, submitted, error, emitted,
                   tickVars>>

\* EmitEventNode::tick
TickEmitEvent(n) ==
    /\ Ticking(n, "EmitEvent")
    /\ runtime' = SetNode(n)
    /\ emitted' = emitted \cup {n}
    /\ Return(n, "success")
    /\ UNCHANGED <<terminal, index, startedAt, submitted, error, tickVars>>

\* Fault: an action already named by the runtime is not replaced.
ActivatedMutant(n) ==
    IF runtime.activeActionId # NoAction THEN SetNode(n)
    ELSE [SetNode(n) EXCEPT !.activeActionId = ActionOf[n],
                            !.activeCapability = CapabilityOf[n]]

\* The runtime while action n is the one submitted last.
Activated(n) ==
    [SetNode(n) EXCEPT !.activeActionId = ActionOf[n],
                       !.activeCapability = CapabilityOf[n]]

\* Fault: only the capability is cleared.
DeactivatedMutant(n, rt) == [rt EXCEPT !.activeCapability = NoCapability]

\* The runtime once n has succeeded: it no longer names n's action.
Deactivated(n, rt) ==
    IF rt.activeActionId = ActionOf[n]
      THEN [rt EXCEPT !.activeActionId = NoAction,
                      !.activeCapability = NoCapability]
      ELSE rt

\* Fault: the refusal reaches failure_reason, but not Context::error.
RefuseActionMutant(n) ==
    /\ Ticking(n, "ExecuteAction") /\ n \notin submitted
    /\ runtime' = Reject(n) /\ UNCHANGED error
    /\ Return(n, "failure")
    /\ UNCHANGED <<terminal, index, startedAt, submitted, emitted, tickVars>>

\* ExecuteActionNode::tick, the executor refusing the submission.
RefuseAction(n) ==
    /\ Ticking(n, "ExecuteAction") /\ n \notin submitted
    /\ runtime' = Reject(n) /\ error' = TRUE
    /\ Return(n, "failure")
    /\ UNCHANGED <<terminal, index, startedAt, submitted, emitted, tickVars>>

\* Fault: an action that works counts as done.
FollowActionMutant(n, status) ==
    /\ Ticking(n, "ExecuteAction") /\ submitted' = submitted \cup {n}
    /\ runtime' = Deactivated(n, Activated(n)) /\ UNCHANGED error
    /\ Return(n, "success")
    /\ UNCHANGED <<terminal, index, startedAt, emitted, tickVars>>

\* ExecuteActionNode::tick of an action already submitted or accepted now, the
\* executor then answering `status` for it.
FollowAction(n, status) ==
    LET held == IF n \in submitted THEN SetNode(n) ELSE Activated(n)
    IN  /\ Ticking(n, "ExecuteAction")
        /\ submitted' = submitted \cup {n}
        /\ \/ /\ status \in {"idle", "accepted", "running", "paused"}
              /\ runtime' = held /\ UNCHANGED error
              /\ Return(n, "running")
           \/ /\ status = "succeeded"
              /\ runtime' = Deactivated(n, held) /\ UNCHANGED error
              /\ Return(n, "success")
           \/ /\ status \in {"failed", "cancelled"}
              /\ runtime' = [held EXCEPT !.failureReason = TRUE]
              /\ error' = TRUE
              /\ Return(n, "failure")
        /\ UNCHANGED <<terminal, index, startedAt, emitted, tickVars>>

-----------------------------------------------------------------------------
(* The epilogue of MissionTree::tick, and MissionTree::reset.              *)

FinishTick ==
    /\ phase = "back" /\ cursor = Root
    /\ \/ /\ last[Root] = "running"
          /\ UNCHANGED <<runtime, terminal>>
       \/ /\ last[Root] = "success"
          /\ runtime' = [runtime EXCEPT !.status = "succeeded",
                                        !.finishedAt = now]
          /\ terminal' = TRUE
       \/ /\ last[Root] = "failure"
          /\ runtime' = [runtime EXCEPT !.status = "failed",
                           !.finishedAt = now, !.failureReason = error]
          /\ terminal' = TRUE
    /\ cursor' = NoNode /\ phase' = "out"
    /\ error' = FALSE /\ caps' = NoCaps /\ events' = {}
    /\ UNCHANGED <<nodeVars, frames, emitted, now>>

\* MissionTree::reset: the tree forgets everything, the executor is not told.
Reset ==
    /\ phase = "out"
    /\ runtime' = FreshRuntime /\ terminal' = FALSE
    /\ index' = [n \in Node |-> 1]
    /\ startedAt' = [n \in Node |-> {}]
    /\ submitted' = {}
    /\ last' = [n \in Node |-> "idle"]
    /\ emitted' = {}
    /\ UNCHANGED <<walkVars, error, tickVars>>

-----------------------------------------------------------------------------

\* The times a tick may read from its clock; once the bounded clock has run to
\* its end, ticks go on without it.
Times ==
    {time \in 0..MaxNow :
       (\E d \in Elapse : time = now + d) \/ (now = MaxNow /\ time = now)}

\* One call of tick() begins: the caller samples the clock, the world, the
\* capability table and the queued events.
BeginTick ==
    \E time \in Times, world \in Sense,
       table \in CapabilityTable, seen \in SUBSET Event :
      \/ TickTerminal(world, time)
      \/ TickPaused(world, time, table)
      \/ TickAborted(world, time, table)
      \/ TickAllowed(world, time, table, seen)

Walk ==
    \/ \E n \in Node :
         \/ EnterComposite(n)
         \/ StopAtChild(n)
         \/ AdvanceChild(n)
         \/ TickWait(n)
         \/ TickRequireCapability(n)
         \/ TickWaitEvent(n)
         \/ TickEmitEvent(n)
         \/ RefuseAction(n)
         \/ \E status \in FeedbackStatus : FollowAction(n, status)
    \/ FinishTick

Next == BeginTick \/ Walk \/ Reset

Spec == Init /\ [][Next]_vars

-----------------------------------------------------------------------------
(* Liveness.  The callers (the ROS timer, the simulator's loop) tick again  *)
(* and again with a clock that moves on, and never call reset().            *)

ForwardTick == BeginTick /\ now' > now

LiveSpec ==
    /\ Init /\ [][BeginTick \/ Walk]_vars
    /\ SF_vars(ForwardTick) /\ WF_vars(Walk)

-----------------------------------------------------------------------------
(* Properties.                                                              *)

TypeOK ==
    /\ runtime \in MissionRuntime
    /\ terminal \in BOOLEAN
    /\ index \in [Node -> Nat \ {0}]
    /\ startedAt \in [Node -> SUBSET Int]
    /\ submitted \subseteq Action
    /\ last \in [Node -> NodeStatus]
    /\ frames \subseteq Node
    /\ phase \in {"out", "enter", "back"}
    /\ cursor \in IF phase = "out" THEN {NoNode} ELSE Node
    /\ error \in BOOLEAN
    /\ emitted \subseteq Node
    /\ now \in Int
    /\ caps \in [Capability \cup {NoCapability} -> Availability]
    /\ events \subseteq Event

\* A composite has passed only children that are done: every child before a
\* Sequence's index_ last returned success, every child before a Fallback's
\* last returned failure.  It is what makes `takeoff' precede `navigate':
\* index_ survives pauses, resumes and ticks in which the composite is not
\* reached, and the reactive composites rewind it (mission_tree.cpp:95-112,
\* 132-146).
PassedChildren ==
    \A n \in Composite : \A k \in 1..Len(Children[n]) :
      k < index[n] => last[Children[n][k]] = Through(n)

\* The ExecuteAction nodes whose action the tree still waits for.
Outstanding == {n \in Action : last[n] = "running"}

\* In a tree without reactive nodes, at most one action is being waited for,
\* and it is the one runtime.active_action_id names: the pause, resume and
\* cancel of MissionTree::tick (mission_tree.cpp:440-472) address the action
\* that is really running, and no other one is left behind.
OutstandingIsActive ==
    Reactive = {} =>
      /\ \A m, n \in Outstanding : m = n
      /\ \A n \in Outstanding : runtime.activeActionId = ActionOf[n]

\* In a tree without reactive nodes, a mission the tree itself ends, with
\* success or failure, leaves no action running: the failure path cancels
\* nothing (mission_tree.cpp:480-489), so this is all that protects against it.
NoOrphanedAction ==
    Reactive = {} /\ phase = "out" /\ last[Root] \in {"success", "failure"}
      => Outstanding = {}

\* In a tree without reactive nodes, the active action of a live mission is one
\* the tree waits for, or one that failed and whose alternative is being tried
\* (a failed action stays in the runtime, lines 251-255): the supervisor never
\* judges the world by the needs of an action that has succeeded.
ActiveIsOutstanding ==
    Reactive = {} /\ phase = "out" /\ ~terminal
      /\ runtime.activeActionId # NoAction =>
        \E n \in Action : /\ ActionOf[n] = runtime.activeActionId
                          /\ last[n] \in {"running", "failure"}

\* Every failed mission says why: whichever node made the root fail in this
\* tick, some node rejected with a reason in the same tick, although
\* failure_reason is overwritten by this tick's error alone (line 487).
FailureIsExplained ==
    runtime.status = "failed" => runtime.failureReason

\* A mission that is still alive after a tick has not outlived its limit, on
\* whatever path the tick took and however the clock moved.
DurationRespected ==
    ~terminal /\ runtime.status # "idle" => ~Overrun(now, runtime)

\* A finished mission stays finished and starts nothing more, whatever the
\* executor and the world do (README.md:60), until reset() is called.
TerminalIsFinal ==
    [][terminal /\ ~Reset =>
         terminal' /\ runtime'.status = runtime.status
           /\ UNCHANGED <<nodeVars, walkVars>> /\ emitted' = {}]_vars

\* Without reactive nodes an EmitEvent node is called once per mission, so an
\* event is announced once even if the mission is paused around it.
EmittedOnce ==
    [][Reactive = {} => \A n \in emitted' \ emitted : last[n] = "idle"]_vars

\* Every mission with a time limit ends, whichever node it waits at and
\* whatever its executor answers, if the caller keeps ticking.
EventuallyEnds == <>terminal
=============================================================================
