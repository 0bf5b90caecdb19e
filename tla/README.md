# Verification of the generic robot task planner

TLA+ models of the mission core, its two executors, the on-board initialisation, the
ground station link and the LCP vision bridge, checked with TLC on small instances, and
proofs with TLAPS: the safety properties hold of every mission tree, every configuration
and every value of the other constants, under the assumptions that section 5 names.
Paths below are relative to the repository's root; `M/` is
`mavros_xyz_position_offboard/`.

## 1. The system

A mission is an XML behaviour tree. `MissionTree` interprets it tick by tick; a
`SafetySupervisor` decides at the start of every tick whether the mission may go on;
an executor behind the `IActionExecutor` interface carries out its actions. There are
two executors: a simulated one, and one that flies a PX4 vehicle through MAVROS. The
on-board process is one ROS node with a single-threaded executor: a 20 Hz wall timer
(`ApplicationNode::tick`) and subscription callbacks. Concurrency lies
outside the process: service requests and answers travel, topics lag behind the vehicle,
the LCP driver and the flight controller act on their own.

| part | state | operations | what makes it correct |
|---|---|---|---|
| `SafetySupervisor` (`mission_core/src/safety.cpp`) | none | `evaluate` | no live mission outlives its limit; a loss in flight is an emergency |
| `MissionTree` (`mission_core/src/mission_tree.cpp`) | `MissionRuntime`, `terminal_`, per node `index_`, `started_at_`, `submitted_` | `tick`, `reset`, one `tick` per node kind | order of children, one action at a time, nothing left running, final end, every mission with a limit ends |
| `SimExecutor` (`mission_sim/src/sim_executor.cpp`) | `records_`, `active_action_id_`, capabilities | `submit`, `cancel`, `pause`, `resume`, `update`, fault injection | agrees with the tree, counts unpaused time |
| `Px4ActionExecutor` (`M/src/execution/`) | `active_`, `world_`, `takeoff_origin_` | the same, and `observe` | failure in flight lands, arms only to take off, success means landed |
| `Offboard` (`M/src/offboard/`) | one open call and a rate limit per service | `apply`, `poll`, `request_mode`, `request_arm` | a command gets through although requests are lost |
| `ApplicationNode` (`M/src/application/`) | `sensor_fault_since_`, the height baselines | `tick_generic`, `latch_init_height`, `lcp_debug_callback` | the order of poll, observe, tree, executor and requests; the grace time; a reported height is true |
| `Initialization` (`M/src/initialization/`) | telemetry, LCP request state, `RangeGuard` | callbacks, `request_lcp_start`, `poll_lcp_start`, verdicts | LCP asked once, ready only when it is; silence is noticed; faults clear only by agreement |
| `GroundStationLink` (`M/src/communication/`) | the socket | `poll`, `decode_datagram`, `send` | only the ground station is heard, and heard in time |
| `LcpVisionBridge` (`M/src/bridge/`) | `lcp_status_`, `lcp_status_at_` | `status_callback`, `odometry_callback` | vision flows while LCP is locked, and the start-up does not wait in a circle |
| trajectory planner, command line, logging, deployment | | | not modelled, see section 7 |

The hard behaviours: requests in flight when a mission pauses, fails or ends; telemetry
that is stale or says "disarmed" because the link is down; the hand-over from one action
to the next; reactive composites that go back to finished actions; pauses repeated every
tick; messages queued before a request and delivered after it; answers after a timeout; one
topic silent while the others go on; a node restarted in the air; a start-up in which
preflight, pose, bridge and LCP wait for each other.
`PROJECT.json` lists each at its line, with the property that covers it.

## 2. The modules

| module | models | notes |
|---|---|---|
| `SafetySupervisor` | `SafetySupervisor::evaluate` | pure operators over the configuration as constants |
| `MissionTree` | `MissionTree` | extends the supervisor; any executor |
| `ActionLifecycle` | the contract of `IActionExecutor` and the tree | abstract specification |
| `SimExecutor` | `SimExecutor` | a record and an operator per method |
| `SimMission` | `mission_sim/src/main.cpp` and the tests' fault injection | `MissionTree` with `SimExecutor`; refines `ActionLifecycle` |
| `Px4ActionExecutor`, `Offboard` | the PX4 executor and the MAVROS adapter | records and operators |
| `FlightMission` | `ApplicationNode::tick_generic` with the tree, executor and adapter | plus an external flight controller |
| `GroundStationLink` | `GroundStationLink` | plus the receive buffer of its socket |
| `EventMission` | `tick_generic` with the tree and the link | any executor; a network that loses, repeats and reorders |
| `FlightHealth` | `Initialization` as a watchdog, and what the tick makes of its verdicts | plus a vehicle that does as it likes, and restarts |
| `LcpStart` | the LCP part of `Initialization` and of the tick | plus an external LCP driver |
| `VisionLoop` | `LcpStart` with `LcpVisionBridge`, the pose and the preflight | closes the loop through the estimator |
| `RangeGuard` | `RangeGuard` | exact means |
| `HeightReport` | `RangeGuard` with `latch_init_height` and the height of `lcp_debug_callback` | plus the vehicle's altitude |
| `MissionTree_proofs` | theorems about `MissionTree`: types, the call stack, one action at a time | the lemmas on the tree and on each step of the walk |
| `MissionEnd_proofs` | theorems about `MissionTree`: how a mission ends and why | extends `MissionTree_proofs` |
| `EventMission_proofs`, `SimMission_proofs`, `FlightMission_proofs` | theorems about the composed systems | extend `MissionEnd_proofs`; each proves its system a run of `MissionTree` |
| `VisionLoop_proofs`, `FlightHealth_proofs`, `HeightReport_proofs` | theorems about the on-board initialisation | `VisionLoop_proofs` covers `LcpStart` too |
| `MC*` | trees, tables, worlds and weathers for TLC | |

### MissionTree

The tree is constants (`Node`, `Kind`, `Children`, `Parent`, `Depth`, ...) under
`TreeAssumption`, which is what `parse_node` accepts. One C++ `tick()` is a run of steps:
the prologue (`TickTerminal`, `TickPaused`, `TickAborted` or `TickAllowed`, each with all
its calls), then one step per call or return of the recursive walk, then `FinishTick`.
`frames` is the call stack as a set, `cursor` its top and `phase` says whether the cursor
is called ("enter") or has returned ("back"). Nothing runs between the steps of a tick, so
properties about ticks ask for `phase = "out"`. `Times` is the caller's clock. The answers of `submit` and `feedback` are
free in this module; the composing modules supply their executor's. Reasons are kept as
"empty or not", event payloads are left out.

`SimMission` and `FlightMission` conjoin to every step of `MissionTree` the calls the code
makes in it: for instance `SimTickPaused` is `TickPaused` with `Sim!Pause` and then
`Sim!Update`. So every behaviour of theirs is one of `MissionTree`'s steps together with
the executor's.

### FlightMission

One tick is `Flown`: poll the calls, observe the telemetry, the tree's call on the
executor (pause, cancel, resume or none), `update`, and the requests `update` makes; then
the walk. The flight controller acts between ticks only: it obeys, turns down or never
gets a request, requests to one service keep their order, it lifts off when armed in
OFFBOARD and touches down in AUTO.LAND, and refuses to disarm in flight. Answers count only for the open call.
A `Sample` is what a tick finds: the news (or none) of the State and ExtendedState topics,
the pose, the verdicts of `Initialization`, the readiness of the services. The verdicts
are inputs: `FlightHealth` models where they come from, and a lost link, a
missing pose or a disarmed vehicle in flight are always errors (`Faulty`).

### EventMission

`GroundStationLink` reduces a datagram to what `decode_datagram` tests: its sender, how
far it parses, its header. `EventMission` polls at the start of a tick, hands what was
accepted to `TickAllowed` and drops it in a paused, aborted or finished tick, as the
code does; when the walk has returned, what the tree emitted is sent, and what cannot be
sent is dropped. The network is free: a datagram may arrive at any time, any number of times, or
never, from anyone. `replied` is history: it names the `WaitEvent` nodes to which the tick
that polled the answer has shown it, where the answer is one to an `EmitEvent` right
before, in the same `Sequence`, whose datagram has left.

### FlightHealth

Every watched topic has an age and a grade: good for nothing, for a flight, or for the
preflight too. The grades stand for the thresholds of `battery_errors`,
`pose_velocity_errors` and the others, which read one message each. A tick ages all
topics and derives `preflight`, `faultFor` and `valid` in the order of the code: the
verdict of the tick uses `airborne` of the tick before, `observe` then renews it.
`Restart` puts the node back to its start while the vehicle stays as it is. `sickFor`,
`flownFor` and `armedFor` are history and independent of `faultFor`, so that
`GraceIsGiven` does not compare the timer with itself.

### LcpStart and VisionLoop

`LcpStart` keeps the `lcp_...` fields, replacing sequence numbers by "past the baseline",
since that is all they are compared for, and queues messages and answers between driver
and node independently. An odometry message is finite or not: one that is not moves the node
past the baseline and is never healthy (`initialization.cpp:340`). Two variables are
history, read by no action: `seen`, which statuses were received since the request and from which map,
and `requests`, the requests made, whatever became of them. `VisionLoop` adds the bridge, whose subscriptions are
queues of their own, so that the bridge and the node see the same scan in either order. The
bridge can use an odometry only if it is finite, but not every finite one (another frame).
Vision gives the estimator a local pose at once; the pose is one of the preflight's
conditions. `Prerequisites` is what the start of LCP asks for: the link and the ground, not the pose.

### RangeGuard and HeightReport

`RangeGuard` keeps a mean as sum and count, so the running mean of the code is exact.
Readings share a steady clock with the ticks, so it never goes back. `HeightReport`
adds local Z, which is the true altitude at the time of its message, the baselines and
the report. `Latch` may happen at any altitude: `in_flight` is false in the first tick of
a node, wherever the vehicle is, so a node that is restarted in the air latches there.

## 3. What is checked

All runs are exhaustive on their instance. `Calm` is the time after which the environment
behaves; the live runs need it, the other ones set it beyond the clock.

| run | properties | instance |
|---|---|---|
| `EventMission_mixed` | `EventTypeOK`, `ReleasedByStation`, `ReplyIsHeard`, `OutstandingIsActive`, `NoOrphanedAction`, `DurationRespected`, `ActiveIsOutstanding`, `EmittedOnce` | Sequence and Fallback with every leaf kind, a time limit; clock may go back; `reset()`; the station's answer, the same from another port, a malformed one; a buffer of two |
| `MissionTree_reactive` | `TypeOK`, `PassedChildren`, `FailureIsExplained`, `TerminalIsFinal`, `EventuallyEnds` | reactive composites around ordinary ones and every leaf kind, a time limit |
| `SimMission_faults` | `SimTypeOK`, `ActiveAgrees`, `WorkedFullTime`, `SuccessMeansDone`, `LifecycleKept` (refinement), `EventuallySucceeds` | an action, then one with an alternative; capabilities that come, go and refuse |
| `FlightMission_shipped` | `FlightTypeOK`, `ExecutorFollows`, `FailureInFlightLands`, `ArmsOnlyToTakeOff` | takeoff, hold, land, in the shape of the shipped mission; every weather at any time; a warm-up; a time limit that expires in any phase |
| `FlightMission_live` | `SafetyLandingCompletes`, `EventuallySucceeds`, `SuccessOnTheGround` | wait, event, takeoff, a leg with a refused alternative, landing; poses and topics late and requests lost until `Calm` |
| `VisionLoop_any` | `VisionTypeOK`, `AskedOnce`, `ReadyIsEarned`, `PreflightCompletes`, `VisionResumes` | two samples, queues of one message; any ground, driver and odometry until `Calm`, the end of the clock |
| `HeightReport_readings` | `HeightTypeOK`, `HeightIsTrue`, `ClearedByAgreement`, `SteadyClears` | readings 0, 1, 3 and unusable ones; two recovery samples; altitudes 0 to 2 |
| `FlightHealth_watch` | `HealthTypeOK`, `LossIsNoticed`, `ReadyOnlyDisarmed`, `GraceIsGiven` | State, landed state and pose with different timeouts, every grade; restarts |

The four runs of section 4 expect a violation.

Bounds. A tree of one action per hand-over and one node per kind shows every step of
the walk and every pair of adjacent steps; the proofs remove the bound on the tree for
the properties they cover. In `FlightMission_shipped` the limit is just long enough for an
undisturbed mission to begin its landing; `FlightMission_live` flies a leg and completes it.
Clocks are a few units long, with grace, hold, warm-up and timeouts of one or two units, so
every comparison is met on both sides and in every order. At the end of the clock (`MaxNow`) a mission ticks on without it, and the
clock of `VisionLoop` stands: what is asked of the time after `Calm` there is whether
things come together at all, not how long they stay fresh. `FlightHealth` has no
clock: an age stops counting when no limit can tell the difference any more, so its
run is not bounded in time. One sensor stands there for the other five, which are
treated alike. A batch and a buffer of two datagrams give an answer
a predecessor of every kind; 64 gives it no other. Two recovery samples are the
fewest for which the mean matters. Two healthy samples are the fewest that can be
interrupted. The world states a tick sees are all those the
supervisor tells apart.

Not every configuration is the production one: the shipped configuration
(`M/config/udp_ground_station.yaml`: abort on a lost state during an action, pause on
`lcp_healthy` except while landing, a grace time) is that of the `FlightMission` runs.

`FailureInFlightLands` is about missions of the shipped shape. A tree with a `Wait` or
`WaitEvent` after a takeoff has no active action while it waits, and then an emergency
cancels nothing and no landing is commanded (`mission_tree.cpp:454`). The code and its
docs do not promise otherwise, so this is stated here as the property's limit.

`HeightIsTrue` compares a report with the latched altitude, which is the ground
only if the node was started there.

### Fairness

- `LiveSpec`, `SimLiveSpec`: the caller ticks for ever with a clock that
  moves on (the loop of `mission_sim/src/main.cpp`, the wall timer), and a tick that has begun runs to
  its end. Strong fairness for the tick, because it is disabled during the walk.
- `FlightLiveSpec`: the timer ticks for ever; once it is calm, a request is answered,
  an armed vehicle in OFFBOARD lifts off, one in AUTO.LAND touches down, and a target is
  reached (`Reached`) if the mission keeps flying to it. These are assumptions about the vehicle, not the code.
- `VisionSpec`: the node and the bridge spin, the driver scans for ever and handles a
  request. Strong fairness for a locked scan (`VisionScan(2, TRUE, TRUE)`): a driver that can find
  its lock again and again finds it some time. This is an assumption about LCP.
- `HeightSpec`: the range sensor goes on publishing.
- `EventSpec` and `HealthSpec` need none: their properties are about safety.

## 4. Where the code and its descriptions disagree

| run | property | what TLC shows |
|---|---|---|
| `FlightMission_linkloss` | `SafetyLandingCompletes` | the vehicle has touched down in a safety landing, the disarm request is lost, and MAVROS reports the link as lost with `armed = false`: the action is taken for finished (`px4_action_executor.cpp:384`) and the vehicle stays armed |
| `FlightMission_reactive` | `EventuallySucceeds` | `feedback()` answers idle for a finished action that is no longer the active one (`px4_action_executor.cpp:413`), so a ReactiveSequence waits for ever; the simulator finishes it |
| `FlightMission_unready` | `ReadyBeforeTakeoff` | `submit()` does not look at `preflight_ready` (`px4_action_executor.cpp:213`); only a `RequireCapability` before the takeoff, as in the shipped mission, protects it, and not while the takeoff is under way |
| `LcpStart_fresh` | `ReadyIsFresh` | healthy messages of the old map, queued before the request and delivered after it, count |

`SafetyLandingCompletes` and `EventuallySucceeds` also hold on the instance of
`FlightMission_live`: the runs together delimit what breaks them.

Smaller observations have no run of their own.

- An ARM request that is under way when the mission is paused still arms the vehicle:
  `ArmsOnlyToTakeOff` is about when requests are made.
- A tree that ends cancels nothing (`mission_tree.cpp:484`). Without reactive composites there is
  nothing to cancel (`NoOrphanedAction`); a reactive one whose earlier child has changed its
  answer no longer reaches the action it waited for, which goes on after the mission.
- A non-finite range reading between two recovery samples does not restart
  the count (`initialization.cpp:83`), so `ClearedByAgreement` asks for agreement, not
  for consecutive samples.
- `inbox_capacity` and `message_ttl_s` (`M/config/udp_ground_station.yaml:17-20`) are
  validated and never used: `poll` reads at most 64 datagrams, and a message lives for the
  one tick that polls it. An event polled while the mission is paused, or before
  its `WaitEvent` is reached, is lost; `ReplyIsHeard` says which messages are safe.
- An emitted event that cannot be encoded or sent is dropped with a warning, and the mission goes
  on to wait for an answer to it (`application_node.cpp:329`).
- The tick that first sees the vehicle armed gives no grace time, since `in_flight` is
  that of the tick before, and one healthy tick ends a fault, so a sensor that flaps
  starts a new grace time each time. A lost link gets no grace: `observe` makes the world
  invalid by itself.
- The height baselines are latched in one go (`application_node.cpp:212`): a pose before the first
  usable range leaves the range without one, and the height invalid, for the node's life; the
  pose may be an old one; a node that is started in the air latches there, although the
  comment in `application_node.hpp:59` speaks of the first valid ground state.
- The bridge trusts the time a status was received, not its stamp or its map, so odometry
  of the old map passes while the status is still fresh.
- Two `ExecuteAction` nodes may have the same id (`mission_tree.cpp:347`). The simulator
  answers the second from the record of the first and keeps the id as its active action
  for good, so that it refuses every later action (`sim_executor.cpp:52-60`). This is why
  the theorems about the simulator ask for distinct ids (`Plain`); the PX4 executor takes a
  finished action's id anew.
- `resume()` makes its action active even if it has finished (`sim_executor.cpp:114`).
  With a reactive composite that does not reach the action's node in the tick in which the
  action finishes, a pause and a resume leave it active for good, and every later action
  is refused. Both states were seen by TLC on instances altered to have them.
- The drift check of `flight_errors` is inert: the application passes NAN for the
  commanded position and never calls `seed_drift_baseline`.

## 5. What is proved

The theorems hold for every value of the constants that satisfies the modules'
assumptions, which TLC evaluates on every run, and the hypotheses of the last column.
There, no reactive means `Reactive = {}`, and `Plain` adds that no two `ExecuteAction`
nodes have the same id.

| module | theorem | states | hypothesis |
|---|---|---|---|
| `MissionTree_proofs` | `TypeCorrect` | `TypeOK` | |
| | `OrderKept` | `PassedChildren` | |
| | `ActiveActionTracked` | `OutstandingIsActive` | |
| | `NothingOrphaned` | `NoOrphanedAction` | |
| `MissionEnd_proofs` | `LimitKept` | `DurationRespected` | |
| | `EndIsFinal` | `TerminalIsFinal` | |
| | `EventsEmittedOnce` | `EmittedOnce` | |
| | `ActiveActionIsLive` | `ActiveIsOutstanding` | |
| | `FailuresExplained` | `FailureIsExplained` | |
| | `ResultCorrect` | a composite's last result agrees with its children's (`ResultInv`) | |
| `EventMission_proofs` | `EventsRefine` | `EventSpec => Spec` | |
| | `EventTypeCorrect` | `EventTypeOK` | |
| | `EventMissionTracksAction`, `EventMissionKeepsLimit` | five properties of the tree, of the composed system | |
| | `StationReleases` | `ReleasedByStation` | |
| | `RepliesHeard` | `ReplyIsHeard` | `Answerable` |
| `SimMission_proofs` | `SimTypeCorrect` | `SimTypeOK` | |
| | `SimRefines` | `SimSpec => Spec` | |
| | `SimAgrees` | `ActiveAgrees` | `Plain` |
| | `SimKeepsLifecycle` | `LifecycleKept`: it implements `ActionLifecycle` | `Plain` |
| | `SimWorksFullTime` | `WorkedFullTime` | `Plain`, a clock that does not go back |
| | `SimSuccessIsDone` | `SuccessMeansDone` | |
| `FlightMission_proofs` | `FlightTypeCorrect` | `FlightTypeOK` | |
| | `FlightRefines` | `FlightSpec => Spec` | |
| | `FlightFollows` | `ExecutorFollows` | no reactive |
| | `ArmsForTakeOff` | `ArmsOnlyToTakeOff` | no reactive |
| | `FailureLands` | a mission that fails over an action in flight leaves a landing in progress | no reactive |
| | `SuccessIsOnTheGround` | `SuccessOnTheGround` | no reactive, `EndsWithLanding` |
| `VisionLoop_proofs` | `LcpTypeCorrect`, `VisionTypeCorrect` | `LcpTypeOK`, `VisionTypeOK` | |
| | `AskedAtMostOnce`, `VisionAsksOnce` | `AskedOnce` | |
| | `ReadyEarned`, `VisionReadyEarned` | `ReadyIsEarned` | |
| | `VisionIsLcpStart` | `VisionSpec => LcpSpec` | |
| `FlightHealth_proofs` | `HealthTypeCorrect` | `HealthTypeOK` | |
| | `LossNoticed` | `LossIsNoticed` | |
| | `ReadyDisarmed` | `ReadyOnlyDisarmed` | |
| | `GraceGiven` | `GraceIsGiven` | |
| `HeightReport_proofs` | `HeightTypeCorrect` | `HeightTypeOK` | |
| | `HeightsAreTrue` | `HeightIsTrue` | |
| | `FaultsClearedByAgreement` | `ClearedByAgreement` | |

Three of the tree's properties (`OutstandingIsActive`, `NoOrphanedAction`,
`ActiveIsOutstanding`) and `EmittedOnce` have `Reactive = {}` in their own statement.

### The arguments

**The walk.** `StackInv` says that the frames are exactly the nodes from the root to the
cursor (a set closed under parents, with the cursor at its end), which is what makes
a return go to the right composite. `PassedChildren` is inductive on top of it: a
composite's index moves only past the child that has just returned. For missions
without reactive nodes, `BranchInv` says that at most one branch of the tree is
running: below a node that is not running nothing runs, a running composite has its
running child at its index and idle children after it. `OutstandingIsActive` alone is
not inductive: that a second action cannot start follows only from the idle siblings of the branch.
`ActionInv` ties the running leaf to `runtime.active_action_id`. `BranchIInv` is their
conjunction; `BranchCorrect` proves it of every reachable state.

**The end.** `StatusInv` ties `terminal_`, the status and the limit together and says that
only a running mission is walked. `ActiveInv` follows the active action through the steps
of a walk. `FailureIsExplained` needs to know which failures end a mission: a node is
*decisive* if it is the root, a child of a decisive Sequence or the last child of a decisive
Fallback, and `ReasonInv` says that a decisive node that has just failed has left its reason
in this tick's error.
`ResultInv` is proved for all trees; a composite that is being called again is left out of
it, because its children's results then change before its own.

**The composed systems.** Every step of `EventSpec`, `SimSpec` and `FlightSpec` is a step
of `MissionTree` or leaves its variables alone, so the theorems above hold of them too. The
refinement needs the executor's types: a `feedback` outside `FeedbackStatus` would be no
step of the tree.

**The link.** `ReleaseInv`: what the station's envelopes in the buffer, and the events of a
tick, say has been sent. `ReplyInv` has four parts: a question never fails, an emitted
event leads the walk on to its question, an announced one has had its question asked, and
a question whose reply was taken has succeeded or lies ahead of the walk. They hold
together only: the datagram leaves after the walk, so the question is open before anybody
can answer it.

**The simulator.** `SimInv`: the records and the active action agree (`Sound`), an
action at work is awaited by the tree and named by the runtime (`AwaitInv`), the records are
those of the submitted actions (`KnownInv`), and a named action is active or has finished in
this very tick on the way to its node (`NamedInv`). The refinement of `ActionLifecycle`
follows from them step by step. `TimeInv` bounds `worked` from below by what the
record's own accounting gives at each pause. `DoneInv` says that what the tree saw
succeed stays succeeded; with `ResultInv` it gives `SuccessMeansDone`, which asks for a set
of nodes that justifies the success, since the prover cannot use the equation of a function
defined by recursion over the tree.

**The flight.** `FollowInv`: the executor serves the action the runtime names and a node
awaits, rests when there is none, and after the end rests or lands. It is the interplay
of all parts that keeps it: this executor never reports that an action failed, so only the
supervisor ends a mission over an active one, and it cancels first. `FailureLands` is
the part of `FailureInFlightLands` that does not depend on the mission; that one
says besides that on the shipped mission every failure in flight has an
active action. `LandInv` follows the last step of the root: its `success` is reported in the
tick in which the world says landed and disarmed, and nothing is walked after it.

**Initialisation.** `AskedInv` says that a state in which LCP would be asked is one in which no
request was ever made. `EarnedInv` matches the counter
of healthy statuses with the history. `LossInv` gives every silence in flight a fault that is
as old; `ArmedInv` bounds how long the vehicle can have been armed by the age of the message
that says it is not. `RangeInv` keeps a candidate's mean within tolerance of the latest
values; `HeightInv` bounds what a pose can be wrong by the time since it came.

### The assumptions

`TreeAssumption` and `AttributeAssumption` are what `parse_node` accepts,
`SafetyConfigAssumption` is what the configuration is validated for. `SimAssumption` and
`FlightAssumption` let the environment offer at least what the executor of that mission may
see or answer, and `FlightAssumption` restricts the capabilities to the four that the PX4
executor declares (`px4_action_executor.cpp:35-38`), without which the node refuses a mission
(`application_node.cpp:53-55`). `RecoverySamples` is at least 2 (`types.cpp:76`). A
clock that does not go back is that of the loop in `mission_sim/src/main.cpp:25`;
only `WorkedFullTime` asks for it. `Answerable`
leaves out reactive missions and events whose name does not fit a header, which no datagram
can carry. `EndsWithLanding` is the shape of the shipped mission
(`M/config/generic_flight_mission.xml`).

### Only model-checked

- Liveness: `EventuallyEnds`, `EventuallySucceeds`, `SafetyLandingCompletes`,
  `PreflightCompletes`, `VisionResumes`, `SteadyClears`. The prover handles neither fairness
  of these specifications nor `ENABLED`.
- `FailureInFlightLands`, which is about one shape of mission; `FailureLands` is what
  holds of all.
## 6. Files

Each `.cfg` is named after its run; `tlc -config X.cfg M` runs it, `tlapm
M_proofs.tla` checks the proofs of one of the eight proof modules of section 2. Operators named `...Mutant`, each before the
definition it varies, are plausible faults; `PROJECT.json` pairs each with the
property that must then fail. `PROJECT.json` also maps each definition to its lines.

## 7. Not modelled

- The thresholds of the health verdicts, one by one: a message is graded by what it passes.
- The geometry of targets and setpoints: a target is reached or not.
- XML parsing and parameter validation: the trees and actions they accept are constants.
  UTF-8 and JSON: a datagram has a form.
- The encoding of `xyzstatus` but for its height, the status report, `optical_flow_effective`.
- `TrajectoryPlanner` (real arithmetic, used by its tests only), the Python bridge that
  `LcpVisionBridge` replaces, command line, artifact log, launch files, deployment.

## 8. Plan

1. The supervisor's decisions are monotone: a worse world never gets a milder decision,
   with the exceptions of section 4 stated as such.
2. What remains true of reactive missions on the PX4 executor: at most one open call per
   service, and no ARM after the end.
3. `ReadyBeforeTakeoff` for missions with a `RequireCapability` before the takeoff, up to the
   moment at which the action is submitted.
