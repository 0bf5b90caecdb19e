------------------------------ MODULE SimMission ------------------------------
(***************************************************************************)
(* A mission on the simulated executor: MissionTree::tick with every call  *)
(* it makes on SimExecutor, driven by a loop like mission_sim's main() and *)
(* tests, which may inject faults between two ticks.  Every step is a step *)
(* of MissionTree together with the calls the code makes in it.            *)
(***************************************************************************)
EXTENDS MissionTree

CONSTANTS
    DurationOf, ForeignFrame,
    Supply,       \* what set_capability may be called with
    Calm,         \* from this time on nothing disturbs the mission:
    CalmSense     \* only these worlds occur and every event is offered

ASSUME CalmAssumption == Calm \in Nat /\ CalmSense \subseteq Sense

\* set_duration takes no negative duration, and the tables of MissionTree are
\* those SimExecutor::capabilities can answer.
ASSUME SimAssumption ==
    /\ DurationOf \in [Capability -> Nat]
    /\ Supply \subseteq Availability
    /\ [Capability \cup {NoCapability} -> Availability] \subseteq CapabilityTable

VARIABLES
    sim,      \* the SimExecutor
    worked    \* history: clock time the mission ran while the action was active

simVars == <<vars, sim, worked>>

Sim == INSTANCE SimExecutor

Contract == INSTANCE ActionLifecycle
              WITH status <- [a \in ActionId |-> Sim!Feedback(sim, a)]

SimTypeOK == TypeOK /\ sim \in Sim!State /\ worked \in [ActionId -> Int]

SimInit ==
    /\ Init
    /\ sim = Sim!Start
    /\ worked = [a \in ActionId |-> 0]

-----------------------------------------------------------------------------
(* The prologue of tick(), with the executor.                              *)

\* The clock moved from the last tick to this one.  If the mission was running
\* in between, that time was work for the active action.
Elapsed(time) ==
    worked' = IF runtime.status = "running" /\ runtime.activeActionId # NoAction
                THEN [worked EXCEPT ![runtime.activeActionId] = @ + time - now]
                ELSE worked

SimTickTerminal(world, time) ==
    /\ TickTerminal(world, time)
    /\ sim' = Sim!Update(sim, time)
    /\ UNCHANGED worked

SimTickPaused(world, time) ==
    /\ TickPaused(world, time, Sim!Capabilities(sim))
    /\ LET held == IF runtime.activeActionId = NoAction THEN sim
                   ELSE Sim!Pause(sim, runtime.activeActionId, time)
       IN  sim' = Sim!Update(held, time)
    /\ Elapsed(time)

SimTickAborted(world, time) ==
    /\ TickAborted(world, time, Sim!Capabilities(sim))
    /\ LET dropped == IF runtime.activeActionId = NoAction THEN sim
                      ELSE Sim!Cancel(sim, runtime.activeActionId)
       IN  sim' = Sim!Update(dropped, time)
    /\ Elapsed(time)

SimTickAllowed(world, time, seen) ==
    /\ TickAllowed(world, time, Sim!Capabilities(sim), seen)
    /\ LET resuming == runtime.status = "paused"
                         /\ runtime.activeActionId # NoAction
           resumed == IF resuming
                        THEN Sim!Resume(sim, runtime.activeActionId, time)
                        ELSE sim
       IN  sim' = Sim!Update(resumed, time)
    /\ Elapsed(time)

-----------------------------------------------------------------------------
(* The walk: only ExecuteAction calls the executor.                         *)

\* submit() refuses.
SimRefuse(n) ==
    /\ ~Sim!Accepts(sim, ActionOf[n], CapabilityOf[n])
    /\ RefuseAction(n)
    /\ UNCHANGED <<sim, worked>>

\* submit(), the first time, and then feedback().
SimFollow(n) ==
    /\ n \in submitted \/ Sim!Accepts(sim, ActionOf[n], CapabilityOf[n])
    /\ sim' = IF n \in submitted THEN sim
              ELSE Sim!Submit(sim, ActionOf[n], CapabilityOf[n], now)
    /\ FollowAction(n, Sim!Feedback(sim', ActionOf[n]))
    /\ UNCHANGED worked

\* The steps of the walk that do not touch the executor.
SimOther(n) ==
    /\ \/ EnterComposite(n)
       \/ StopAtChild(n)
       \/ AdvanceChild(n)
       \/ TickWait(n)
       \/ TickRequireCapability(n)
       \/ TickWaitEvent(n)
       \/ TickEmitEvent(n)
    /\ UNCHANGED <<sim, worked>>

SimFinish == FinishTick /\ UNCHANGED <<sim, worked>>

\* Between two ticks a test changes what the simulated platform can do.
Reconfigure ==
    /\ phase = "out" /\ now < Calm
    /\ \E c \in Capability :
         \/ \E availability \in Supply :
              sim' = Sim!SetCapability(sim, c, availability)
         \/ \E reject \in BOOLEAN :
              /\ Supply # {}
              /\ sim' = Sim!RejectCapability(sim, c, reject)
    /\ UNCHANGED <<vars, worked>>

-----------------------------------------------------------------------------

SimBegin ==
    \E time \in Times :
      \E world \in IF time < Calm THEN Sense ELSE CalmSense :
        \/ SimTickTerminal(world, time)
        \/ SimTickPaused(world, time)
        \/ SimTickAborted(world, time)
        \/ \E seen \in IF time < Calm THEN SUBSET Event ELSE {Event} :
             SimTickAllowed(world, time, seen)

SimWalk ==
    \/ \E n \in Node : SimOther(n)
    \/ \E n \in Action : SimRefuse(n) \/ SimFollow(n)
    \/ SimFinish

SimNext == SimBegin \/ SimWalk \/ Reconfigure

SimSpec == SimInit /\ [][SimNext]_simVars

\* main() ticks again and again with a clock that advances.
SimForward == SimBegin /\ now' > now

SimLiveSpec == SimSpec /\ WF_simVars(SimWalk) /\ SF_simVars(SimForward)

-----------------------------------------------------------------------------
(* Properties.                                                              *)

\* Without reactive nodes, outside a tick, the executor works on exactly the
\* action the mission runtime names, so a pause, resume or cancel of
\* MissionTree::tick (lines 440-472) reaches the action at work: neither side is
\* left with an action the other one has forgotten, through refusals,
\* alternatives, pauses, resumes and injected faults.
ActiveAgrees ==
    Reactive = {} /\ phase = "out" /\ ~terminal =>
      sim.active = runtime.activeActionId

\* An action that succeeded was given its full duration of unpaused time: the
\* accounting of paused_at_s and paused_duration_s (sim_executor.cpp:86-116,
\* 133) over any pattern of pauses, each of them repeated every tick.
WorkedFullTime ==
    \A a \in ActionId : sim.records[a].status = "succeeded" =>
      worked[a] >= DurationOf[sim.records[a].capability]

\* D is a set of nodes done by what the executor did: an action is done if it
\* succeeded there, a Sequence if all its children are done, a Fallback if one of
\* them is.  (In a finite tree this is what evaluating it bottom-up gives.)
Done(D) ==
    \A n \in D :
      CASE Kind[n] = "ExecuteAction" -> sim.records[ActionOf[n]].status = "succeeded"
        [] Kind[n] = "Sequence" -> \A k \in 1..Len(Children[n]) : Children[n][k] \in D
        [] Kind[n] = "Fallback" -> \E k \in 1..Len(Children[n]) : Children[n][k] \in D
        [] OTHER -> TRUE

\* A mission reports success only when the actions that really succeeded on the
\* executor make it one, whatever was refused, paused and retried on the way.
SuccessMeansDone ==
    runtime.status = "succeeded" => \E D \in SUBSET Node : Root \in D /\ Done(D)

\* The mission and the executor together keep the contract of ActionLifecycle.
LifecycleKept == Contract!Spec

\* A mission nobody injects a fault into, and whose troubles (pauses of a
\* grounded platform, events not yet sent) end, ends in success by itself,
\* without a time limit: no pause, resume, wait for an event or hand-over from
\* one action to the next is lost.
EventuallySucceeds ==
    [](sim.supply = Sim!Start.supply /\ sim.rejected = {})
      => <>(runtime.status = "succeeded")
=============================================================================
