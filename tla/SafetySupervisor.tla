-------------------------- MODULE SafetySupervisor --------------------------
(***************************************************************************)
(* mission_core::SafetySupervisor: the pure decision taken at the start of *)
(* every mission tick from the observed world, the executor's capability   *)
(* table and the mission runtime.  Times are integers in one fixed unit.   *)
(***************************************************************************)
EXTENDS Integers

CONSTANTS
    Capability,      \* capability names used by the mission
    Fact,            \* names of the standardised facts in WorldState::facts
    NoAction,        \* the empty active_action_id
    NoLimit,         \* an unset max_mission_duration_s
    \* SafetyConfig, field by field
    MaxWorldAge,
    RequireConnection,
    RequireValidState,
    EmergencyWhenAirborne,
    PauseWhenGrounded,
    AbortWhenGroundedStateInvalid,
    MaxMissionDuration,
    PauseWhenFactFalse,
    PauseFactExempt

ASSUME SafetyConfigAssumption ==
    /\ MaxWorldAge \in Nat
    /\ MaxMissionDuration \in Nat \cup {NoLimit}
    /\ NoLimit \notin Nat
    /\ {RequireConnection, RequireValidState, EmergencyWhenAirborne,
        PauseWhenGrounded, AbortWhenGroundedStateInvalid} \subseteq BOOLEAN
    /\ PauseWhenFactFalse \subseteq Fact
    /\ PauseFactExempt \subseteq Capability

Availability == {"unsupported", "unavailable", "available", "busy"}

MissionStatus == {"idle", "running", "paused", "succeeded", "failed"}

SafetyAction == {"allow", "pause", "abort", "emergency"}

\* What the supervisor reads of a WorldState: `age` is now_s - observed_at_s,
\* and falseFacts holds the facts present with the value false (an absent fact
\* counts as true).
WorldState ==
    [connected : BOOLEAN, valid : BOOLEAN, age : Int,
     airborne : BOOLEAN, armed : BOOLEAN, falseFacts : SUBSET Fact]

Fresh(world) == world.valid /\ world.age >= 0 /\ world.age <= MaxWorldAge

Ended(status) == status \in {"succeeded", "failed"}

\* Fault: the time spent paused does not count.
OverrunMutant(now, runtime) ==
    /\ MaxMissionDuration # NoLimit /\ runtime.status = "running"
    /\ now - runtime.startedAt > MaxMissionDuration

\* The mission has run longer than the configured limit.  A clock that went
\* back behind the start never counts as an overrun.
Overrun(now, runtime) ==
    /\ MaxMissionDuration # NoLimit
    /\ now >= runtime.startedAt
    /\ now - runtime.startedAt > MaxMissionDuration

\* The platform is disconnected or its state is invalid or too old.
StateLost(world) ==
    \/ RequireConnection /\ ~world.connected
    \/ RequireValidState /\ ~Fresh(world)

\* A loss found while the vehicle may be in the air becomes an emergency.
Escalates(world, runtime) ==
    EmergencyWhenAirborne /\ (world.airborne \/ world.armed \/ runtime.airborne)

\* A fact the running action depends on is reported false.
FactLost(world, runtime) ==
    /\ runtime.activeCapability \notin PauseFactExempt
    /\ PauseWhenFactFalse \cap world.falseFacts # {}

\* SafetySupervisor::evaluate: the first matching rule decides.
Evaluate(world, now, caps, runtime) ==
    LET acting == runtime.activeActionId # NoAction
        capability == caps[runtime.activeCapability]
    IN  IF Ended(runtime.status) THEN "allow"
        ELSE IF Overrun(now, runtime)
          THEN IF Escalates(world, runtime) THEN "emergency" ELSE "abort"
        ELSE IF StateLost(world)
          THEN IF Escalates(world, runtime) THEN "emergency"
               ELSE IF AbortWhenGroundedStateInvalid /\ acting THEN "abort"
               ELSE "pause"
        ELSE IF ~acting THEN "allow"
        ELSE IF FactLost(world, runtime) THEN "pause"
        ELSE IF capability = "unsupported" THEN "abort"
        ELSE IF capability = "unavailable" /\ PauseWhenGrounded THEN "pause"
        ELSE "allow"
=============================================================================
