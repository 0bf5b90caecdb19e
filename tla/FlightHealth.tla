---------------------------- MODULE FlightHealth ----------------------------
(***************************************************************************)
(* Class Initialization as a watchdog over the MAVROS topics, and what the *)
(* tick of ApplicationNode makes of its verdicts: preflight_ready, the     *)
(* grace time for sensor faults, and the validity of the world.            *)
(*                                                                         *)
(* A time stamp is kept as its age, up to the age at which nothing changes *)
(* any more.  The contents of a message are graded by the checks it        *)
(* passes: none, those of a flight, or those of the preflight as well; the *)
(* comparison of local Z with the range is one of those of the pose.       *)
(***************************************************************************)
EXTENDS Integers

CONSTANTS
    Sensor,    \* the watched topics other than state and extended_state
    Timeout,   \* [topic -> its ..._timeout_s]
    Grace,     \* sensor_loss_grace_s
    Graded     \* the grades the messages of a sensor may have

Topic == Sensor \cup {"state", "landed"}

Grade == {"unfit", "flyable", "fit"}

ASSUME HealthAssumption ==
    /\ "pose" \in Sensor
    /\ Sensor \subseteq {"sys_status", "battery", "pose", "velocity", "estimator",
                         "range", "optical_flow"}
    /\ Timeout \in [Topic -> Nat] /\ Grace \in Nat
    /\ Graded \in [Sensor -> SUBSET Grade]

VARIABLES
    age,        \* of each topic's latest message; Old if there is none
    grade,      \* what that message is good for
    armed,      \* telemetry_.armed
    airborne,   \* Px4ActionExecutor::world_.airborne: in_flight of the next tick
    faultFor,   \* the age of sensor_fault_since_, {} or {age}
    preflight,  \* facts["preflight_ready"] but for the part of LCP
    valid,      \* world.valid as the mission tree gets it
    vehicle,    \* external: the vehicle as it really is
    armedFor,   \* history: how long it has been armed
    flownFor,   \* history: how many ticks in a row have found it in flight
    sickFor     \* history: the age of the run of ticks with flight errors

nodeVars == <<age, grade, armed, airborne, faultFor, preflight, valid>>
healthVars == <<nodeVars, vehicle, armedFor, flownFor, sickFor>>

\* From this age on, a topic has been silent beyond every limit.
Old(t) == Timeout[t] + Grace + 2

Long == Grace + 2

Capped(n, limit) == IF n < limit THEN n + 1 ELSE limit

HealthTypeOK ==
    /\ \A t \in Topic : age[t] \in 0..Old(t)
    /\ grade \in [Topic -> Grade]
    /\ {armed, airborne, preflight, valid} \subseteq BOOLEAN
    /\ faultFor \in SUBSET (0..Long) /\ sickFor \in SUBSET (0..Long)
    /\ vehicle \in [armed : BOOLEAN, landed : BOOLEAN]
    /\ armedFor \in 0..Timeout["state"] + 1 /\ flownFor \in 0..Long

\* A node that has just started.
Started ==
    /\ age' = [t \in Topic |-> Old(t)]
    /\ grade' = [t \in Topic |-> "unfit"]
    /\ armed' = FALSE /\ airborne' = FALSE /\ faultFor' = {}
    /\ preflight' = FALSE /\ valid' = FALSE
    /\ flownFor' = 0 /\ sickFor' = {}

HealthInit ==
    /\ age = [t \in Topic |-> Old(t)]
    /\ grade = [t \in Topic |-> "unfit"]
    /\ armed = FALSE /\ airborne = FALSE /\ faultFor = {}
    /\ preflight = FALSE /\ valid = FALSE
    /\ vehicle = [armed |-> FALSE, landed |-> TRUE]
    /\ armedFor = 0 /\ flownFor = 0 /\ sickFor = {}

-----------------------------------------------------------------------------
(* The callbacks.                                                           *)

Received(t, g) ==
    /\ age' = [age EXCEPT ![t] = 0]
    /\ grade' = [grade EXCEPT ![t] = g]
    /\ UNCHANGED <<airborne, faultFor, preflight, valid, vehicle, armedFor,
                   flownFor, sickFor>>

\* update_state: MAVROS without a link reports a vehicle that is not armed.
ReceiveState ==
    \/ Received("state", "fit") /\ armed' = vehicle.armed
    \/ Received("state", "unfit") /\ armed' = FALSE

\* update_landed; "flyable": seen in the air, "unfit": undefined.
ReceiveLanded ==
    /\ \/ Received("landed", IF vehicle.landed THEN "fit" ELSE "flyable")
       \/ Received("landed", "unfit")
    /\ UNCHANGED armed

\* The other update_... methods.
ReceiveSensor(t) ==
    \E g \in Graded[t] : Received(t, g) /\ UNCHANGED armed

-----------------------------------------------------------------------------
(* The verdicts, at the ages `old'.                                         *)

Fresh(t, old) == old[t] <= Timeout[t]

\* connection_errors, battery_errors, pose_velocity_errors, estimator_errors
\* and range_flow_errors, with the thresholds of the given phase.  (A heartbeat
\* that is not STANDBY or ACTIVE is an error only with a bad SYS_STATUS, which
\* is an error by itself.)
SensorErrors(old, allowed) ==
    \E t \in Topic \ {"landed"} : ~Fresh(t, old) \/ grade[t] \notin allowed

\* flight_errors
FlightErrors(old) == SensorErrors(old, {"flyable", "fit"}) \/ ~armed

\* Fault: a State topic that has gone silent still vouches for `disarmed'.
PreflightErrorsMutant(old) ==
    \/ SensorErrors([old EXCEPT !["state"] = 0], {"fit"}) \/ armed
    \/ ~Fresh("landed", old) \/ grade["landed"] # "fit"

\* preflight_errors
PreflightErrors(old) ==
    \/ SensorErrors(old, {"fit"}) \/ armed
    \/ ~Fresh("landed", old) \/ grade["landed"] # "fit"

\* health_snapshot looks for flight errors in flight, or once armed.
Faulty(old) == (airborne \/ armed) /\ FlightErrors(old)

\* Fault: a healthy tick does not end the fault.
FaultForMutant(old) ==
    IF airborne /\ (Faulty(old) \/ faultFor # {})
      THEN IF faultFor = {} THEN {0} ELSE {Capped(n, Long) : n \in faultFor}
      ELSE {}

\* Fault: the two times of the difference are swapped.
FaultForSwappedMutant(old) ==
    IF airborne /\ Faulty(old)
      THEN IF faultFor = {} THEN {0} ELSE {n - 1 : n \in faultFor}
      ELSE {}

\* sensor_fault_since_ after this tick: one healthy tick ends a fault.
FaultFor(old) ==
    IF airborne /\ Faulty(old)
      THEN IF faultFor = {} THEN {0} ELSE {Capped(n, Long) : n \in faultFor}
      ELSE {}

\* Fault: the grace time never ends.
FlightHealthyMutant(old) == ~Faulty(old) \/ airborne

FlightHealthy(old) ==
    \/ ~Faulty(old)
    \/ airborne /\ \A n \in FaultFor(old) : n <= Grace

\* Px4ActionExecutor::observe: connected, and a pose that is a number.
Observed == grade["state"] = "fit" /\ grade["pose"] # "unfit"

\* Px4ActionExecutor::observe: an unknown landed_state keeps what was known.
Airborne ==
    \/ armed
    \/ grade["landed"] = "flyable"
    \/ grade["landed"] = "unfit" /\ airborne

Aged == [t \in Topic |-> Capped(age[t], Old(t))]

\* One tick of the application, a unit of time after the last one.
HealthTick ==
    /\ age' = Aged
    /\ preflight' = ~PreflightErrors(Aged)
    /\ faultFor' = FaultFor(Aged)
    /\ valid' = (Observed /\ FlightHealthy(Aged))
    /\ airborne' = Airborne
    /\ armedFor' = IF vehicle.armed THEN Capped(armedFor, Timeout["state"] + 1) ELSE 0
    /\ flownFor' = IF airborne THEN Capped(flownFor, Long) ELSE 0
    /\ sickFor' = IF ~Faulty(Aged) THEN {}
                  ELSE IF sickFor = {} THEN {0}
                  ELSE {Capped(n, Long) : n \in sickFor}
    /\ UNCHANGED <<grade, armed, vehicle>>

\* External: the vehicle arms, disarms, lifts off or touches down.
Vehicle ==
    /\ \/ vehicle.landed /\ \E a \in BOOLEAN : vehicle' = [vehicle EXCEPT !.armed = a]
       \/ vehicle.armed /\ \E l \in BOOLEAN : vehicle' = [vehicle EXCEPT !.landed = l]
    /\ armedFor' = IF vehicle'.armed THEN armedFor ELSE 0
    /\ UNCHANGED <<nodeVars, flownFor, sickFor>>

\* The service unit starts a failed node again, whatever the vehicle is doing.
Restart == Started /\ UNCHANGED <<vehicle, armedFor>>

HealthNext ==
    \/ HealthTick \/ ReceiveState \/ ReceiveLanded
    \/ \E t \in Sensor : ReceiveSensor(t)
    \/ Vehicle \/ Restart

HealthSpec == HealthInit /\ [][HealthNext]_healthVars

-----------------------------------------------------------------------------
(* Properties.                                                              *)

\* A topic that falls silent in flight is acted on: once it has been silent for
\* its timeout and the grace time, and the node has known for as long that it is
\* in flight, the world is invalid, whatever the other topics do meanwhile.
LossIsNoticed ==
    \A t \in Topic \ {"landed"} :
      age[t] = Old(t) /\ flownFor = Long => ~valid

\* In flight, a fault invalidates the world only when it has lasted longer than
\* the grace time without one healthy tick (application_node.cpp:301-307).
\* The tick that first sees the vehicle armed has no grace time.
GraceIsGiven ==
    [][HealthTick /\ airborne /\ Observed /\ ~valid' =>
         \E n \in sickFor' : n > Grace]_healthVars

\* The preflight never passes for a vehicle that has been armed for longer than
\* the State topic may be silent, although telemetry_.armed outlives its message.
ReadyOnlyDisarmed == preflight => armedFor <= Timeout["state"]
=============================================================================
