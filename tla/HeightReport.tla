----------------------------- MODULE HeightReport -----------------------------
(***************************************************************************)
(* The height ApplicationNode reports to the ground station with each      *)
(* LcpDebug message: local Z and range, each relative to a baseline        *)
(* latched on the ground, cross-checked with each other.  The range sensor *)
(* may say anything; RangeGuard decides what of it is usable.  Local Z is  *)
(* the true altitude at the time of its message.                           *)
(*                                                                         *)
(* While there is no range fault, the latest range message is the latest   *)
(* accepted one: its value is the last of `latest', its time is lastAt.    *)
(***************************************************************************)
EXTENDS RangeGuard

CONSTANTS
    SourceTimeout,  \* z.source_timeout_s
    MaxDelta,       \* z.range_cross_check_max_delta_m
    PreferRange,    \* z.prefer_range
    Climb,          \* what the vehicle climbs or sinks at most in a unit of time
    Ceiling         \* bound on the altitude

ASSUME HeightAssumption ==
    /\ {SourceTimeout, MaxDelta, Climb, Ceiling} \subseteq Nat
    /\ PreferRange \in BOOLEAN

VARIABLES
    pose,      \* local_z_m with local_pose_at, {} or {[z, at]}; z may be {}
    base,      \* init_local_z_m_ and init_range_m_, each {} or {value}
    report,    \* position_z_m of the message just sent, {} if it is not valid
    altitude   \* external: of the vehicle

heightVars == <<rangeVars, pose, base, report, altitude>>

Altitude == 0..Ceiling

HeightTypeOK ==
    /\ RangeTypeOK
    /\ pose \in SUBSET [z : SUBSET Altitude, at : 0..MaxNow]
    /\ base \in [z : SUBSET Altitude, range : SUBSET Value]
    /\ report \subseteq Int /\ altitude \in Altitude

HeightInit ==
    /\ RangeInit
    /\ pose = {} /\ base = [z |-> {}, range |-> {}] /\ report = {}
    /\ altitude \in Altitude

\* The vehicle moves while time passes.
Moves ==
    \E d \in -Climb * (now' - now)..Climb * (now' - now) :
      altitude + d \in Altitude /\ altitude' = altitude + d

-----------------------------------------------------------------------------

\* update_range
ReceiveRange ==
    RangeNext /\ Moves /\ report' = {} /\ UNCHANGED <<pose, base>>

\* Time goes by without a message of the range sensor.
NoRange ==
    /\ now < MaxNow /\ now' = now + 1 /\ Moves /\ report' = {}
    /\ UNCHANGED <<lastAccepted, lastAt, fault, candidate, latest, pose, base>>

\* update_local_pose; the coordinates may be no numbers.
ReceivePose ==
    /\ \E z \in {{}, {altitude}} : pose' = {[z |-> z, at |-> now]}
    /\ report' = {} /\ UNCHANGED <<rangeVars, base, altitude>>

RangeReading ==
    IF fault \/ latest = <<>> THEN {} ELSE {latest[Len(latest)]}

\* latch_init_height: the baselines are latched together, or one of them never.
Latched ==
    IF base.z # {} \/ base.range # {} THEN base
    ELSE [z |-> UNION {p.z : p \in pose}, range |-> RangeReading]

\* A tick that latches: there is a pose, though perhaps an old one, and in_flight
\* is false, as it is in the first tick wherever the vehicle is.
Latch ==
    /\ pose # {}
    /\ base' = Latched /\ report' = {}
    /\ UNCHANGED <<rangeVars, pose, altitude>>

\* Fault: an old local Z confirms the range as well as a new one.
LocalZMutant == {z - b : z \in UNION {p.z : p \in pose}, b \in base.z}

LocalZ ==
    {z - b : z \in UNION {p.z : p \in {q \in pose : now - q.at <= SourceTimeout}},
             b \in base.z}

RangeZ ==
    {r - b : r \in IF now - lastAt <= SourceTimeout THEN RangeReading ELSE {},
             b \in base.range}

\* lcp_debug_callback: the preferred source, if both agree.
Report ==
    /\ report' = {IF PreferRange THEN pair[2] ELSE pair[1] :
                    pair \in {p \in LocalZ \X RangeZ :
                                p[1] - p[2] \in -MaxDelta..MaxDelta}}
    /\ UNCHANGED <<rangeVars, pose, base, altitude>>

HeightNext ==
    ReceiveRange \/ NoRange \/ ReceivePose \/ Latch \/ Report

\* The range sensor goes on publishing.
HeightSpec ==
    HeightInit /\ [][HeightNext]_heightVars /\ WF_heightVars(ReceiveRange)

-----------------------------------------------------------------------------
(* Properties.                                                              *)

\* A height reported as valid is true, whatever the range sensor says: it differs
\* from the height above the latched altitude by no more than the cross check
\* allows and the vehicle can move within source_timeout_s, although the vehicle
\* moves between the messages it is made of (application_node.cpp:238-256).
HeightIsTrue ==
    \A z \in report, b \in base.z :
      LET off == z - (altitude - b)
          limit == MaxDelta + Climb * SourceTimeout
      IN  -limit <= off /\ off <= limit
=============================================================================
