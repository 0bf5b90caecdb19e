------------------------------ MODULE VisionLoop ------------------------------
(***************************************************************************)
(* LCP, the vision bridge and the preflight closed to a loop.  The node    *)
(* asks LCP to start; LCP's odometry goes through class LcpVisionBridge to *)
(* the estimator of the flight controller (external), which has a local    *)
(* pose only while it gets vision; and the preflight needs that pose.  The *)
(* bridge has subscriptions of its own to the topics the node reads.       *)
(***************************************************************************)
EXTENDS LcpStart

CONSTANTS
    MaxStatusAge,  \* lcp_vision_max_status_age_s
    PoseTimeout    \* local_pose_timeout_s

ASSUME VisionAssumption == {MaxStatusAge, PoseTimeout} \subseteq Nat

VARIABLES
    bridge,             \* lcp_status_ and lcp_status_at_, -1 for never
    bridgeStatuses,     \* external: status messages under way to the bridge
    bridgeOdometries,   \* external: odometry under way, whether it is usable
    poseAt,             \* local_pose_at, {} or {time}
    preflight           \* facts["preflight_ready"]

bridgeQueues == <<bridgeStatuses, bridgeOdometries>>
visionVars == <<lcpVars, bridge, bridgeQueues, poseAt, preflight>>

VisionTypeOK ==
    /\ LcpTypeOK
    /\ bridge \in [status : 0..3, at : -1..MaxNow]
    /\ bridgeStatuses \in Seq(0..3) /\ bridgeOdometries \in Seq(BOOLEAN)
    /\ poseAt \in SUBSET (0..MaxNow) /\ preflight \in BOOLEAN

VisionInit ==
    /\ LcpInit
    /\ bridge = [status |-> 0, at |-> -1]
    /\ bridgeStatuses = <<>> /\ bridgeOdometries = <<>>
    /\ poseAt = {} /\ preflight = FALSE

-----------------------------------------------------------------------------
(* LcpVisionBridge.                                                         *)

\* Fault: the time is that of the latest change of status.
BridgedMutant(status) ==
    IF status = bridge.status THEN bridge ELSE [status |-> status, at |-> now]

\* status_callback
Bridged(status) == [status |-> status, at |-> now]

BridgeStatus ==
    /\ bridgeStatuses # <<>>
    /\ bridge' = Bridged(Head(bridgeStatuses))
    /\ bridgeStatuses' = Tail(bridgeStatuses)
    /\ UNCHANGED <<lcpVars, bridgeOdometries, poseAt, preflight>>

\* odometry_callback: vision is published for a usable odometry while the status
\* is a recent 2; frame and numbers decide what is usable.
Publishes(usable) ==
    usable /\ bridge.status = 2 /\ now - bridge.at <= MaxStatusAge

\* The estimator turns vision into a local pose, at once.
BridgeOdometry ==
    /\ bridgeOdometries # <<>>
    /\ poseAt' = IF Publishes(Head(bridgeOdometries)) THEN {now} ELSE poseAt
    /\ bridgeOdometries' = Tail(bridgeOdometries)
    /\ UNCHANGED <<lcpVars, bridge, bridgeStatuses, preflight>>

-----------------------------------------------------------------------------
(* The tick and the driver, as in LcpStart.                                 *)

\* Fault: the preconditions of the start include the flight sensors.
PrerequisitesMutant(time, grounded) ==
    grounded /\ Recent(poseAt, time, PoseTimeout)

\* Initialization::lcp_start_prerequisite_errors asks for the link and the ground
\* only, not for the sensors of the flight.
Prerequisites(time, grounded) == grounded

\* tick_generic: `others' are the preflight checks that need no LCP.  Once it is
\* calm, the clock waits for the driver's answer.
VisionTick ==
    LET time == IF now < MaxNow THEN now + 1 ELSE now
        any == IF time >= Calm THEN {TRUE} ELSE BOOLEAN
    IN  /\ time >= Calm /\ answer = "none"
             => \A since \in call : time - since <= ServiceTimeout
        /\ \E grounded, there, others \in any :
             /\ Tick(time, Prerequisites(time, grounded), there)
             /\ preflight' =
                  (others /\ Recent(poseAt, time, PoseTimeout) /\ ready')
        /\ UNCHANGED <<bridge, bridgeQueues, poseAt>>

\* A scan goes to both.  The bridge can use an odometry only if it is finite and
\* in the right frame, which it is once it is calm.
VisionScan(status, finite, usable) ==
    /\ Scan(status, finite)
    /\ usable \in IF now >= Calm \/ status # 2 THEN {TRUE} ELSE BOOLEAN
    /\ usable => finite
    /\ Len(bridgeStatuses) < Backlog
    /\ bridgeStatuses' = Append(bridgeStatuses, status)
    /\ IF status = 2
         THEN /\ Len(bridgeOdometries) < Backlog
              /\ bridgeOdometries' = Append(bridgeOdometries, usable)
         ELSE UNCHANGED bridgeOdometries
    /\ UNCHANGED <<bridge, poseAt, preflight>>

Alone(action) == action /\ UNCHANGED <<bridge, bridgeQueues, poseAt, preflight>>

VisionNext ==
    \/ Alone(ReceiveStatus) \/ Alone(ReceiveOdometry)
    \/ Alone(AcceptStart) \/ Alone(RejectStart)
    \/ VisionTick \/ BridgeStatus \/ BridgeOdometry
    \/ \E status \in 0..3, finite, usable \in BOOLEAN :
         VisionScan(status, finite, usable)

\* The node spins for ever and the driver scans for ever; a request is handled.
VisionSpec ==
    /\ VisionInit /\ [][VisionNext]_visionVars
    /\ WF_visionVars(Alone(ReceiveStatus)) /\ WF_visionVars(Alone(ReceiveOdometry))
    /\ WF_visionVars(BridgeStatus) /\ WF_visionVars(BridgeOdometry)
    /\ WF_visionVars(VisionTick)
    /\ WF_visionVars(Alone(AcceptStart) \/ Alone(RejectStart))
    /\ WF_visionVars(\E status \in 0..3 : VisionScan(status, TRUE, TRUE))
    /\ SF_visionVars(VisionScan(2, TRUE, TRUE))

-----------------------------------------------------------------------------
(* Properties.                                                              *)

\* The start-up has no circular wait: the preflight passes, or the start of LCP
\* has failed.  The preflight waits for the pose, the pose for the bridge, the
\* bridge for LCP, and LCP for prerequisites that do not ask for the pose
\* (initialization.cpp:316-331).
PreflightCompletes == <>(preflight \/ lcp.state = "failed")

\* However often LCP has lost its lock, once it keeps it the local pose comes
\* back for good.
VisionResumes ==
    <>[](driver.status = 2) => <>[]Recent(poseAt, now, PoseTimeout)
=============================================================================
