------------------------------- MODULE Offboard -------------------------------
(***************************************************************************)
(* offboard::Offboard, the thin MAVROS adapter: it turns a command into    *)
(* SetMode and CommandBool service calls, one open call per service, rate  *)
(* limited, and closes a call on its answer or after a timeout.  Its state *)
(* is one record and every method an operator on it.  RequestStatus, which *)
(* only reports, is left out.                                              *)
(***************************************************************************)
EXTENDS Integers

CONSTANTS
    Mode, NoMode,         \* flight modes; NoMode: none asked for, or unknown
    ControlEnabled,       \* AppOptions::control_enabled
    RequestInterval,      \* AppOptions::mode_request_interval
    ServiceTimeout        \* AppOptions::service_timeout

\* An open call: mode_future_ or arm_future_, with what it asks and since when.
ModeCall == [value : Mode, at : Int]
ArmCall == [value : BOOLEAN, at : Int]

\* OffboardCommand; setpoint names the position it holds.
Command ==
    [setpoint : {"none", "here", "frozen", "target"},
     mode : Mode \cup {NoMode}, arm : SUBSET BOOLEAN]

NoCommand == [setpoint |-> "none", mode |-> NoMode, arm |-> {}]

\* mode and armed are what the vehicle last reported.
State ==
    [mode : Mode \cup {NoMode}, armed : BOOLEAN,
     modeCall : SUBSET ModeCall, armCall : SUBSET ArmCall,
     lastModeAt : Int, lastArmAt : Int]

\* last_..._request_at_ start long before the first clock reading.
Start ==
    [mode |-> NoMode, armed |-> FALSE, modeCall |-> {}, armCall |-> {},
     lastModeAt |-> -RequestInterval, lastArmAt |-> -RequestInterval]

\* Offboard::observe_flight_state
Observe(off, armed, mode) == [off EXCEPT !.armed = armed, !.mode = mode]

\* Offboard::request_mode
RequestMode(off, mode, t, ready) ==
    IF ~ControlEnabled \/ off.modeCall # {} \/ t - off.lastModeAt < RequestInterval
      THEN off
    ELSE [off EXCEPT !.lastModeAt = t,
            !.modeCall = IF ready THEN {[value |-> mode, at |-> t]} ELSE {}]

\* Offboard::request_arm
RequestArm(off, value, t, ready) ==
    IF ~ControlEnabled \/ off.armCall # {} \/ t - off.lastArmAt < RequestInterval
      THEN off
    ELSE [off EXCEPT !.lastArmAt = t,
            !.armCall = IF ready THEN {[value |-> value, at |-> t]} ELSE {}]

\* Offboard::apply: only what differs from the reported state is requested.
Apply(off, command, t, ready) ==
    LET moded == IF command.mode \in {NoMode, off.mode} THEN off
                 ELSE RequestMode(off, command.mode, t, ready)
    IN  IF command.arm \subseteq {off.armed} THEN moded
        ELSE RequestArm(moded, ~off.armed, t, ready)

\* Fault: a call is closed by its answer only.
ClosedMutant(call, answered, t) == {c \in call : ~answered}

\* A call is closed by its answer, or once it is older than the timeout.
Closed(call, answered, t) ==
    {c \in call : ~answered /\ t - c.at <= ServiceTimeout}

\* Offboard::poll; answered holds the services whose open call has its answer.
Poll(off, answered, t) ==
    [off EXCEPT !.modeCall = Closed(@, "mode" \in answered, t),
                !.armCall = Closed(@, "arm" \in answered, t)]
=============================================================================
