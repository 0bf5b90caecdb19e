-------------------------- MODULE Px4ActionExecutor --------------------------
(***************************************************************************)
(* execution::Px4ActionExecutor: mission actions turned into setpoints,    *)
(* mode and ARM requests.  Its state is one record and every method an     *)
(* operator on it; what it asks of Offboard is an Offboard command.        *)
(* Positions are abstracted to whether the target is within tolerance.     *)
(***************************************************************************)
EXTENDS Integers

CONSTANTS
    ActionId, NoAction, NoCapability,
    Mode, NoMode,
    InvalidAction,   \* actions whose parameters the validators refuse
    NeedsOrigin,     \* actions with frame="takeoff_flu"
    BadYaw,          \* actions whose yaw only parse_position refuses
    HoldSeconds,     \* [holding action -> its seconds, or NoLimit]
    NoLimit,
    Warmup           \* offboard_warmup_s_

Off == INSTANCE Offboard
  WITH ControlEnabled <- TRUE, RequestInterval <- 0, ServiceTimeout <- 0

Flying == {"navigate", "hold", "takeoff", "land"}

Working == {"accepted", "running", "paused"}
Over == {"succeeded", "failed", "cancelled"}

\* world_, as far as this class reads it.  near: the position is within
\* tolerance of the target of the active action.
World ==
    [connected : BOOLEAN, armed : BOOLEAN, mode : Mode \cup {NoMode},
     landed : BOOLEAN, airborne : BOOLEAN, pose : BOOLEAN, near : BOOLEAN,
     valid : BOOLEAN, preflightReady : BOOLEAN]

\* The latest snapshot of the vehicle; landed is landed_state.
Telemetry ==
    [connected : BOOLEAN, armed : BOOLEAN, mode : Mode \cup {NoMode},
     landed : {"undefined", "ground", "air"}, pose : BOOLEAN, near : BOOLEAN]

\* active_ (NoAction when empty), world_ and whether takeoff_origin_ is set.
State ==
    [active : ActionId \cup {NoAction}, capability : Flying \cup {NoCapability},
     status : {"idle"} \cup Working \cup Over, target : BOOLEAN,
     frozen : BOOLEAN, paused : BOOLEAN, safetyLand : BOOLEAN,
     startedAt : Int, pausedAt : Int, pausedFor : Int,
     origin : BOOLEAN, world : World]

Start ==
    [active |-> NoAction, capability |-> NoCapability, status |-> "idle",
     target |-> FALSE, frozen |-> FALSE, paused |-> FALSE,
     safetyLand |-> FALSE, startedAt |-> 0, pausedAt |-> 0, pausedFor |-> 0,
     origin |-> FALSE,
     world |-> [connected |-> FALSE, armed |-> FALSE, mode |-> NoMode,
                landed |-> TRUE, airborne |-> FALSE, pose |-> FALSE,
                near |-> FALSE, valid |-> FALSE, preflightReady |-> TRUE]]

\* Px4ActionExecutor::observe.  An unknown landed_state keeps an airborne
\* vehicle airborne.
Observe(px, tel) ==
    LET landed == tel.landed = "ground"
        airborne == \/ tel.armed
                    \/ tel.landed = "air"
                    \/ ~landed /\ px.world.airborne
    IN  [px EXCEPT !.world =
           [@ EXCEPT !.connected = tel.connected, !.armed = tel.armed,
                     !.mode = tel.mode, !.landed = landed,
                     !.airborne = airborne, !.pose = tel.pose,
                     !.near = tel.near, !.valid = tel.connected /\ tel.pose]]

\* Px4ActionExecutor::capabilities
Capabilities(px, world) ==
    LET ready == world.connected /\ world.valid /\ world.pose
        can == [navigate |-> ready, hold |-> ready,
                takeoff |-> ready /\ world.preflightReady /\ world.landed
                              /\ ~world.armed,
                land |-> ready /\ (world.airborne \/ world.armed)]
    IN  [c \in Flying \cup {NoCapability} |->
           IF c = NoCapability THEN "unsupported"
           ELSE IF px.active # NoAction /\ px.status \in Working
                     /\ c = px.capability THEN "busy"
           ELSE IF can[c] THEN "available" ELSE "unavailable"]

\* A finished action makes room for the next one, unless it was a safety landing.
Vacant(px) ==
    px.active = NoAction \/ (px.status \in Over /\ ~px.safetyLand)

\* Px4ActionExecutor::submit, the answer.
Accepts(px, a) ==
    /\ a \notin InvalidAction
    /\ \/ ~Vacant(px) /\ px.active = a
       \/ /\ Vacant(px)
          /\ px.world.connected /\ px.world.pose
          /\ a \notin BadYaw /\ (a \in NeedsOrigin => px.origin)

\* Px4ActionExecutor::submit, the effect when it accepts.
Submit(px, a, c, t) ==
    IF ~Vacant(px) THEN px
    ELSE [px EXCEPT !.active = a, !.capability = c, !.status = "accepted",
            !.target = c # "land", !.frozen = FALSE, !.paused = FALSE,
            !.safetyLand = FALSE, !.startedAt = t, !.pausedAt = 0,
            !.pausedFor = 0, !.origin = @ \/ c = "takeoff"]

\* A refused submission may still have dropped the finished action.
Refuse(px, a) ==
    IF a \notin InvalidAction /\ px.status \in Over /\ ~px.safetyLand
      THEN [Start EXCEPT !.origin = px.origin, !.world = px.world]
      ELSE px

\* Fault: a vehicle that is armed, but not known to be flying, is not landed.
CancelMutant(px, a, t) ==
    IF px.active = NoAction \/ px.active # a THEN px
    ELSE IF px.world.airborne /\ ~px.world.landed
      THEN [px EXCEPT !.capability = "land", !.status = "running",
                      !.safetyLand = TRUE, !.startedAt = t]
    ELSE [px EXCEPT !.status = "cancelled"]

\* Px4ActionExecutor::cancel: in flight the action turns into a safety landing.
Cancel(px, a, t) ==
    IF px.active = NoAction \/ px.active # a THEN px
    ELSE IF px.world.airborne \/ px.world.armed
      THEN [px EXCEPT !.capability = "land", !.status = "running",
                      !.safetyLand = TRUE, !.startedAt = t]
    ELSE [px EXCEPT !.status = "cancelled"]

\* Px4ActionExecutor::pause: the position to hold is frozen by the first call.
Pause(px, a, t) ==
    IF px.active = NoAction \/ px.active # a \/ px.safetyLand THEN px
    ELSE [px EXCEPT !.pausedAt = IF px.paused THEN @ ELSE t,
                    !.frozen = @ \/ (~px.paused /\ px.world.pose),
                    !.paused = TRUE, !.status = "paused"]

\* Fault: the paused flag is left set.
ResumeMutant(px, a, t) ==
    IF px.active = NoAction \/ px.active # a \/ ~px.paused THEN px
    ELSE [px EXCEPT !.pausedFor = @ + t - px.pausedAt, !.frozen = FALSE,
                    !.status = "running"]

\* Px4ActionExecutor::resume
Resume(px, a, t) ==
    IF px.active = NoAction \/ px.active # a \/ ~px.paused THEN px
    ELSE [px EXCEPT !.pausedFor = @ + (IF t > px.pausedAt THEN t - px.pausedAt
                                                           ELSE 0),
                    !.paused = FALSE, !.frozen = FALSE, !.status = "running"]

\* Unpaused time since the action started.
Worked(px, t) == t - px.startedAt - px.pausedFor

\* Fault: an armed vehicle on the ground counts as flying.
LandCommandMutant(w) ==
    IF ~w.airborne
      THEN [Off!NoCommand EXCEPT !.mode = "MANUAL", !.arm = {FALSE}]
      ELSE [Off!NoCommand EXCEPT !.mode = "AUTO.LAND"]

\* A landing: disarmed on the ground only.
LandCommand(w) ==
    IF w.landed
      THEN [Off!NoCommand EXCEPT !.mode = "MANUAL", !.arm = {FALSE}]
      ELSE [Off!NoCommand EXCEPT !.mode = "AUTO.LAND"]

\* Px4ActionExecutor::apply_active_command: what the active action asks for.
ActiveCommand(px, t) ==
    LET w == px.world
        awaitingArm == px.capability = "takeoff" /\ ~w.armed
    IN  IF px.active = NoAction THEN Off!NoCommand
        ELSE IF px.capability = "land" \/ px.safetyLand
          THEN LandCommand(w)
        ELSE IF px.paused
          THEN [Off!NoCommand EXCEPT
                  !.setpoint = IF w.armed /\ px.frozen THEN "frozen" ELSE "none"]
        ELSE IF px.capability = "takeoff" /\ Worked(px, t) < Warmup
          THEN [Off!NoCommand EXCEPT
                  !.setpoint = IF w.pose THEN "here" ELSE "none"]
        ELSE IF px.target
          THEN [setpoint |-> IF awaitingArm THEN "here" ELSE "target",
                mode |-> "OFFBOARD",
                arm |-> IF awaitingArm /\ w.mode = "OFFBOARD" THEN {TRUE} ELSE {}]
        ELSE Off!NoCommand

\* Fault: a pause is not looked at.
UpdateCommandMutant(px, t) ==
    IF px.status \in Over
      THEN Off!NoCommand ELSE ActiveCommand([px EXCEPT !.paused = FALSE], t)

\* Px4ActionExecutor::update, the command: a finished action is not commanded
\* any more, but a reached target is kept while the vehicle stays armed.
UpdateCommand(px, t) ==
    IF px.status \in Over
         /\ ~(px.status = "succeeded" /\ px.world.armed /\ px.target)
      THEN Off!NoCommand
      ELSE ActiveCommand(px, t)

\* Fault: a landing is over on touchdown, still armed.
AchievedMutant(px, t) ==
    LET w == px.world
        reached == px.target /\ w.pose /\ w.near
    IN  \/ px.capability = "takeoff" /\ reached /\ w.armed /\ ~w.landed
        \/ px.capability \in {"navigate", "hold"} /\ reached
        \/ px.capability = "land" /\ w.landed

\* The active action has done what it was for.
Achieved(px, t) ==
    LET w == px.world
        reached == px.target /\ w.pose /\ w.near
    IN  \/ px.capability = "navigate" /\ reached
        \/ /\ px.capability = "takeoff" /\ reached
           /\ w.armed /\ ~w.landed /\ w.mode = "OFFBOARD"
        \/ /\ px.capability = "hold" /\ HoldSeconds[px.active] # NoLimit
           /\ Worked(px, t) >= HoldSeconds[px.active]
        \/ px.capability = "land" /\ w.landed /\ ~w.armed

\* Px4ActionExecutor::update, the state, world_ being the current world.
Update(px, t) ==
    IF px.active = NoAction \/ px.status \in Over THEN px
    ELSE IF px.safetyLand
      THEN IF px.world.landed /\ ~px.world.armed
             THEN [px EXCEPT !.status = "cancelled"] ELSE px
    ELSE IF px.paused THEN px
    ELSE [px EXCEPT !.status = IF Achieved(px, t) THEN "succeeded" ELSE "running"]

\* Px4ActionExecutor::feedback
Feedback(px, a) ==
    IF px.active = NoAction \/ px.active # a THEN "idle" ELSE px.status
=============================================================================
