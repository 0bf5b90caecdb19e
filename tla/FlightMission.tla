---------------------------- MODULE FlightMission ----------------------------
(***************************************************************************)
(* A mission on the real vehicle: the 20 Hz tick of ApplicationNode, with  *)
(* MissionTree, Px4ActionExecutor and Offboard, against an external flight *)
(* controller.  The process is single-threaded, so the flight controller   *)
(* acts between two ticks; the service calls travel, may be lost, and take *)
(* effect late, and the telemetry a tick sees may lag behind the vehicle.  *)
(***************************************************************************)
EXTENDS MissionTree

CONSTANTS
    Mode, NoMode, InvalidAction, NeedsOrigin, BadYaw, HoldSeconds, Warmup,
    ControlEnabled, RequestInterval, ServiceTimeout,
    Grace,         \* sensor_loss_grace_s
    Sample,        \* what the sensors may report to a tick
    Calm,          \* from this time on only CalmSample is reported, and no
    CalmSample     \* service request is lost or refused

VARIABLES
    px,            \* the Px4ActionExecutor
    off,           \* the Offboard adapter
    telemetry,     \* Initialization::telemetry_, as far as it is used here
    faultSince,    \* sensor_fault_since_, {} or {time}
    fcu,           \* external: the vehicle
    wire,          \* external: service requests not handled yet
    answered       \* external: services whose open call has its answer

flightVars == <<px, off, telemetry, faultSince>>
fcuVars == <<fcu, wire, answered>>
allVars == <<vars, flightVars, fcuVars>>

Px4 == INSTANCE Px4ActionExecutor

Off == INSTANCE Offboard

\* What a tick finds: the news of the State and ExtendedState topics since the
\* last one ("lost": MAVROS reports the link to the vehicle as lost), the pose,
\* the health verdicts of Initialization (preflightErrors: or LCP is not ready),
\* and whether the services are ready.
Samples ==
    [state : {"none", "news", "lost"}, landed : {"none", "news", "undefined"},
     pose : BOOLEAN, near : BOOLEAN,
     flightErrors : BOOLEAN, preflightErrors : BOOLEAN,
     lcpHealthy : BOOLEAN, ready : BOOLEAN]

Service == {"mode", "arm"}

Request ==
    [service : {"mode"}, value : Mode, at : Int]
      \cup [service : {"arm"}, value : BOOLEAN, at : Int]

Vehicle == [armed : BOOLEAN, mode : Mode, landed : {"ground", "air"}]

\* The executor registers these four capabilities, and MissionTree refuses a
\* mission that names another one (px4_action_executor.cpp:35-38,
\* application_node.cpp:53-55).  The world of a tick is its own, so its age is 0.
ASSUME FlightAssumption ==
    /\ {"OFFBOARD", "MANUAL", "AUTO.LAND"} \subseteq Mode /\ NoMode \notin Mode
    /\ {Warmup, RequestInterval, ServiceTimeout, Grace, Calm} \subseteq Nat
    /\ ControlEnabled \in BOOLEAN
    /\ Sample \subseteq Samples /\ CalmSample \subseteq Sample
    /\ Capability = Px4!Flying /\ "lcp_healthy" \in Fact
    /\ [connected : BOOLEAN, valid : BOOLEAN, age : {0}, airborne : BOOLEAN,
        armed : BOOLEAN, falseFacts : SUBSET {"lcp_healthy"}] \subseteq Sense
    /\ [Capability \cup {NoCapability} -> Availability] \subseteq CapabilityTable

FlightTypeOK ==
    /\ TypeOK
    /\ px \in Px4!State /\ off \in Off!State /\ telemetry \in Px4!Telemetry
    /\ faultSince \in SUBSET Int /\ wire \in SUBSET Request
    /\ fcu \in Vehicle /\ answered \subseteq Service

FlightInit ==
    /\ Init
    /\ px = Px4!Start /\ off = Off!Start
    /\ telemetry = [connected |-> FALSE, armed |-> FALSE, mode |-> NoMode,
                    landed |-> "undefined", pose |-> FALSE, near |-> FALSE]
    /\ faultSince = {}
    /\ fcu = [armed |-> FALSE, mode |-> "MANUAL", landed |-> "ground"]
    /\ wire = {} /\ answered = {}

-----------------------------------------------------------------------------
(* ApplicationNode::tick_generic up to MissionTree::tick.                   *)

\* The subscriptions: each topic brings its latest news, or nothing.
Received(sample) ==
    LET state == CASE sample.state = "none" -> telemetry
                   [] sample.state = "news" ->
                        [telemetry EXCEPT !.connected = TRUE,
                                   !.armed = fcu.armed, !.mode = fcu.mode]
                   [] sample.state = "lost" ->
                        [telemetry EXCEPT !.connected = FALSE,
                                   !.armed = FALSE, !.mode = NoMode]
    IN  [state EXCEPT !.pose = sample.pose, !.near = sample.near,
           !.landed = CASE sample.landed = "none" -> @
                        [] sample.landed = "news" -> fcu.landed
                        [] sample.landed = "undefined" -> "undefined"]

\* in_flight is what the previous tick knew.
InFlight == px.world.airborne

\* Flight errors are looked for in flight, or once the vehicle reports armed;
\* a lost link, a missing pose and a disarmed vehicle are among them.
Faulty(sample) ==
    LET tel == Received(sample)
    IN  /\ InFlight \/ tel.armed
        /\ sample.flightErrors \/ ~tel.connected \/ ~tel.pose \/ ~tel.armed

\* sensor_fault_since_ after this tick.
FaultSince(sample, time) ==
    IF InFlight /\ Faulty(sample)
      THEN IF faultSince = {} THEN {time} ELSE faultSince
      ELSE {}

\* Errors in flight are tolerated for the grace time.
FlightHealthy(sample, time) ==
    \/ ~Faulty(sample)
    \/ InFlight /\ \A since \in FaultSince(sample, time) : time - since <= Grace

\* The executor after observe().
Noticed(sample) == Px4!Observe(px, Received(sample))

\* The world handed to the tree, as the executor keeps it ...
Seen(sample, time) ==
    LET world == Noticed(sample).world
    IN  [world EXCEPT
           !.valid = @ /\ FlightHealthy(sample, time),
           !.preflightReady = ControlEnabled /\ ~sample.preflightErrors]

\* ... and as the supervisor reads it.  observed_at_s is the tick's own time.
Judged(sample, time) ==
    LET world == Seen(sample, time)
    IN  [connected |-> world.connected, valid |-> world.valid, age |-> 0,
         airborne |-> world.airborne, armed |-> world.armed,
         falseFacts |-> IF sample.lcpHealthy THEN {} ELSE {"lcp_healthy"}]

\* What one tick has made of the executor and the adapter before the tree is
\* ticked: poll, observe, the tree's pause, cancel or resume, which makes the
\* executor `called', then update.
Flown(sample, time, called) ==
    LET updating == [called EXCEPT !.world = Seen(sample, time)]
        polled == Off!Observe(Off!Poll(off, answered, time),
                              Received(sample).armed, Received(sample).mode)
    IN  /\ px' = Px4!Update(updating, time)
        /\ off' = Off!Apply(polled, Px4!UpdateCommand(updating, time), time,
                            sample.ready)
        /\ telemetry' = Received(sample)
        /\ faultSince' = FaultSince(sample, time)
        /\ answered' = {}
        /\ wire' = wire
             \cup {[service |-> "mode", value |-> c.value, at |-> c.at] :
                     c \in off'.modeCall \ polled.modeCall}
             \cup {[service |-> "arm", value |-> c.value, at |-> c.at] :
                     c \in off'.armCall \ polled.armCall}
        /\ UNCHANGED fcu

Tabled(sample, time) ==
    Px4!Capabilities(Noticed(sample), Seen(sample, time))

-----------------------------------------------------------------------------
(* The tick, with the executor.                                             *)

FlightTickTerminal(sample, time) ==
    /\ TickTerminal(Judged(sample, time), time)
    /\ Flown(sample, time, Noticed(sample))

FlightTickPaused(sample, time) ==
    /\ TickPaused(Judged(sample, time), time, Tabled(sample, time))
    /\ Flown(sample, time,
             Px4!Pause(Noticed(sample), runtime.activeActionId, time))

FlightTickAborted(sample, time) ==
    /\ TickAborted(Judged(sample, time), time, Tabled(sample, time))
    /\ Flown(sample, time,
             Px4!Cancel(Noticed(sample), runtime.activeActionId, time))

FlightTickAllowed(sample, time, seen) ==
    /\ TickAllowed(Judged(sample, time), time, Tabled(sample, time), seen)
    /\ Flown(sample, time,
             IF runtime.status = "paused"
               THEN Px4!Resume(Noticed(sample), runtime.activeActionId, time)
               ELSE Noticed(sample))

\* submit() refuses.
FlightRefuse(n) ==
    /\ ~Px4!Accepts(px, ActionOf[n])
    /\ RefuseAction(n)
    /\ px' = Px4!Refuse(px, ActionOf[n])
    /\ UNCHANGED <<off, telemetry, faultSince, fcuVars>>

\* submit(), the first time, and then feedback().
FlightFollow(n) ==
    /\ n \in submitted \/ Px4!Accepts(px, ActionOf[n])
    /\ px' = IF n \in submitted THEN px
             ELSE Px4!Submit(px, ActionOf[n], CapabilityOf[n], now)
    /\ FollowAction(n, Px4!Feedback(px', ActionOf[n]))
    /\ UNCHANGED <<off, telemetry, faultSince, fcuVars>>

\* The steps of the walk that do not touch the executor.
FlightOther(n) ==
    /\ \/ EnterComposite(n)
       \/ StopAtChild(n)
       \/ AdvanceChild(n)
       \/ TickWait(n)
       \/ TickRequireCapability(n)
       \/ TickWaitEvent(n)
       \/ TickEmitEvent(n)
    /\ UNCHANGED <<flightVars, fcuVars>>

FlightFinish == FinishTick /\ UNCHANGED <<flightVars, fcuVars>>

-----------------------------------------------------------------------------
(* The flight controller (external): it acts between two ticks.             *)

\* The answer to a request is kept only while its call is open.
Answering(r) ==
    LET call == IF r.service = "mode" THEN off.modeCall ELSE off.armCall
    IN  answered' = IF \E c \in call : c.at = r.at
                      THEN answered \cup {r.service} ELSE answered

DisarmsInFlight(r) ==
    r.service = "arm" /\ r.value = FALSE /\ fcu.landed = "air"

\* The requests to one service arrive in the order they were made.
First(r) == r \in wire /\ \A q \in wire : q.service = r.service => r.at <= q.at

\* A request arrives and is carried out.  A vehicle in the air does not disarm.
Obey(r) ==
    /\ phase = "out" /\ First(r)
    /\ wire' = wire \ {r} /\ Answering(r)
    /\ ~DisarmsInFlight(r)
    /\ fcu' = IF r.service = "mode" THEN [fcu EXCEPT !.mode = r.value]
                                    ELSE [fcu EXCEPT !.armed = r.value]
    /\ UNCHANGED <<vars, flightVars>>

\* A request arrives and is turned down.
TurnDown(r) ==
    /\ phase = "out" /\ First(r)
    /\ now < Calm \/ DisarmsInFlight(r)
    /\ wire' = wire \ {r} /\ Answering(r)
    /\ UNCHANGED <<vars, flightVars, fcu>>

\* A request is lost and its call stays open.
Lose(r) ==
    /\ phase = "out" /\ r \in wire /\ now < Calm
    /\ wire' = wire \ {r}
    /\ UNCHANGED <<vars, flightVars, fcu, answered>>

\* An armed vehicle follows its setpoint off the ground.
LiftOff ==
    /\ phase = "out"
    /\ fcu.armed /\ fcu.mode = "OFFBOARD" /\ fcu.landed = "ground"
    /\ fcu' = [fcu EXCEPT !.landed = "air"]
    /\ UNCHANGED <<vars, flightVars, wire, answered>>

TouchDown ==
    /\ phase = "out" /\ fcu.mode = "AUTO.LAND" /\ fcu.landed = "air"
    /\ fcu' = [fcu EXCEPT !.landed = "ground"]
    /\ UNCHANGED <<vars, flightVars, wire, answered>>

-----------------------------------------------------------------------------

\* Ticks are 50 ms apart.
FlightBegin ==
    \E time \in Times :
      \E sample \in IF time < Calm THEN Sample ELSE CalmSample :
        /\ \/ FlightTickTerminal(sample, time)
           \/ FlightTickPaused(sample, time)
           \/ FlightTickAborted(sample, time)
           \/ \E seen \in SUBSET Event : FlightTickAllowed(sample, time, seen)

FlightWalk ==
    \/ \E n \in Node : FlightOther(n)
    \/ \E n \in Action : FlightRefuse(n) \/ FlightFollow(n)
    \/ FlightFinish

FlightController ==
    \/ \E r \in wire : Obey(r) \/ TurnDown(r) \/ Lose(r)
    \/ LiftOff \/ TouchDown

FlightNext == FlightBegin \/ FlightWalk \/ FlightController

FlightSpec == FlightInit /\ [][FlightNext]_allVars

\* The wall timer ticks for ever, and the vehicle carries out what it is asked
\* once it is calm.
Reached == \E sample \in CalmSample :
    sample.near /\ FlightTickAllowed(sample, now, Event)

FlightLiveSpec ==
    /\ FlightSpec
    /\ WF_allVars(FlightWalk) /\ SF_allVars(FlightBegin)
    /\ SF_allVars(Reached)
    /\ \A service \in Service :
         SF_allVars(\E r \in wire : r.service = service /\ (Obey(r) \/ TurnDown(r)))
    /\ SF_allVars(LiftOff) /\ SF_allVars(TouchDown)

-----------------------------------------------------------------------------
(* Properties.                                                              *)

\* Outside a tick, the action the runtime names is the one the executor flies:
\* live, and paused exactly when the mission is, so that an abort always finds
\* the action it has to turn into a landing.
ExecutorFollows ==
    phase = "out" /\ ~terminal /\ runtime.activeActionId # NoAction =>
      /\ px.active = runtime.activeActionId
      /\ px.status \in Px4!Working
      /\ px.paused <=> runtime.status = "paused"

\* A mission of the shipped shape that fails while the vehicle may be flying
\* leaves a safety landing in progress, whatever the reason and the moment:
\* the hand-over from one action to the next leaves no tick without an action.
FailureInFlightLands ==
    [][runtime'.status = "failed" /\ runtime.status # "failed"
         /\ (px'.world.airborne \/ px'.world.armed) => px'.safetyLand]_allVars

\* ARM is requested only for a takeoff that is being flown: never while the
\* mission is paused, never for a finished action, never after the mission has
\* ended (px4_action_executor.cpp:341-342, 376-377).
ArmsOnlyToTakeOff ==
    [][off'.armCall # off.armCall /\ off'.armCall # {}
         /\ (\E c \in off'.armCall : c.value) =>
           /\ runtime'.status = "running" /\ ~terminal'
           /\ px'.capability = "takeoff" /\ px'.status = "running"
           /\ ~px'.world.armed /\ px'.world.mode = "OFFBOARD"]_allVars

\* A mission that ends with a landing reports success only for a vehicle that
\* was seen on the ground and disarmed in that very tick.
SuccessOnTheGround ==
    [][runtime'.status = "succeeded" /\ runtime.status # "succeeded" =>
         px.world.landed /\ ~px.world.armed]_allVars

\* A safety landing ends with the vehicle on the ground and disarmed, although
\* requests made before it are still under way (docs/mission-platform.md:63-64).
SafetyLandingCompletes ==
    px.safetyLand ~> fcu.landed = "ground" /\ ~fcu.armed

\* A mission whose world stays valid ends in success by itself, although its
\* first requests are lost or turned down: every request is made again.
EventuallySucceeds ==
    [](now > 0 => px.world.valid) => <>(runtime.status = "succeeded")

\* OFFBOARD is requested for a takeoff only if the preflight checks pass and LCP
\* is ready (docs/lcp-startup-api.md:29, 57-60).
ReadyBeforeTakeoff ==
    [][off'.modeCall # off.modeCall /\ off'.modeCall # {}
         /\ (\E c \in off'.modeCall : c.value = "OFFBOARD")
         /\ px'.capability = "takeoff" /\ ~px'.world.armed
           => px'.world.preflightReady]_allVars
=============================================================================
