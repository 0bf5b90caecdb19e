------------------------------- MODULE LcpStart -------------------------------
(***************************************************************************)
(* How ApplicationNode has LCP initialised: the Trigger request of class   *)
(* Initialization with its answer, timeout and failure, and the health     *)
(* verdict drawn from the status and odometry topics.  The LCP driver is   *)
(* external: it clears its map when it accepts, and it may have a map from *)
(* an earlier start.  Its messages and its answer are delivered late, and  *)
(* independently of each other.                                            *)
(***************************************************************************)
EXTENDS Integers, Sequences

CONSTANTS
    ReadySamples,        \* lcp_ready_samples
    StatusTimeout, OdometryTimeout, ServiceTimeout,
    Backlog,             \* bound on the messages a topic holds
    MaxNow,              \* bound on the clock
    Calm                 \* from this time on the ground conditions hold, and
                         \* the driver accepts, answers in time and is healthy

VARIABLES
    lcp,        \* the lcp_... fields of Telemetry
    call,       \* lcp_start_future_ with its start time, {} or {time}
    ready,      \* lcp_ready in the latest health snapshot
    now,
    driver,     \* external: the starts it has accepted, and its status
    asked,      \* external: Trigger requests not handled yet
    answer,     \* external: the answer to the open call
    statuses,   \* external: status messages under way, each [value, start]
    odometries, \* external: odometry under way, each whether it is finite
    seen,       \* history: the latest ReadySamples statuses since the request
    requests    \* history: all the Trigger requests the node has made

nodeVars == <<lcp, call, ready, now>>
topicVars == <<statuses, odometries>>
driverVars == <<driver, asked, answer>>
historyVars == <<seen, requests>>
lcpVars == <<nodeVars, topicVars, driverVars, historyVars>>

ASSUME LcpAssumption ==
    /\ {ReadySamples, Backlog} \subseteq Nat \ {0}
    /\ {StatusTimeout, OdometryTimeout, ServiceTimeout, MaxNow, Calm} \subseteq Nat

RequestState ==
    {"not_requested", "waiting_service", "request_sent", "accepted", "failed"}

MaxStarts == 2  \* bound on the starts the driver accepts

Message == [value : 0..3, start : 0..MaxStarts]

LcpTypeOK ==
    /\ lcp \in [state : RequestState, status : SUBSET (0..3),
                statusAt : SUBSET Int, odometryAt : SUBSET Int,
                statusPast : BOOLEAN, odometryPast : BOOLEAN,
                healthy : 0..ReadySamples]
    /\ call \in SUBSET Int /\ ready \in BOOLEAN /\ now \in Int
    /\ driver \in [starts : 0..MaxStarts, status : 0..3]
    /\ asked \in Nat /\ answer \in {"none", "accepted", "rejected"}
    /\ statuses \in Seq(Message)
    /\ odometries \in Seq(BOOLEAN)
    /\ seen \in Seq(Message) /\ Len(seen) <= ReadySamples /\ requests \in Nat

LcpInit ==
    /\ lcp = [state |-> "not_requested", status |-> {}, statusAt |-> {},
              odometryAt |-> {}, statusPast |-> FALSE, odometryPast |-> FALSE,
              healthy |-> 0]
    /\ call = {} /\ ready = FALSE /\ now = 0
    /\ \E status \in {0, 2} : driver = [starts |-> 0, status |-> status]
    /\ asked = 0 /\ answer = "none"
    /\ statuses = <<>> /\ odometries = <<>> /\ seen = <<>> /\ requests = 0

-----------------------------------------------------------------------------
(* The callbacks.  statusPast and odometryPast: the sequence number is past *)
(* the baseline, which it is from the first message on.  healthy is counted *)
(* up to ReadySamples, the most that is asked of it.                        *)

\* Fault: an unhealthy status does not reset the count.
StatusReceivedMutant(value) ==
    [lcp EXCEPT !.status = {value}, !.statusAt = {now}, !.statusPast = TRUE,
                !.healthy = IF value = 2 /\ @ < ReadySamples THEN @ + 1 ELSE @]

\* Initialization::update_lcp_status
StatusReceived(value) ==
    [lcp EXCEPT !.status = {value}, !.statusAt = {now}, !.statusPast = TRUE,
                !.healthy = IF value # 2 THEN 0
                            ELSE IF @ < ReadySamples THEN @ + 1 ELSE @]

ReceiveStatus ==
    /\ statuses # <<>>
    /\ lcp' = StatusReceived(Head(statuses).value)
    /\ seen' = LET longer == Append(seen, Head(statuses))
               IN  IF Len(longer) > ReadySamples THEN Tail(longer) ELSE longer
    /\ statuses' = Tail(statuses)
    /\ UNCHANGED <<call, ready, now, odometries, driverVars, requests>>

\* Initialization::update_lcp_odometry.  Position and heading are stored as they
\* come; their time is kept only if they are finite, as Healthy asks for both.
OdometryReceived(finite) ==
    [lcp EXCEPT !.odometryAt = IF finite THEN {now} ELSE {}, !.odometryPast = TRUE]

ReceiveOdometry ==
    /\ odometries # <<>>
    /\ lcp' = OdometryReceived(Head(odometries))
    /\ odometries' = Tail(odometries)
    /\ UNCHANGED <<call, ready, now, statuses, driverVars, historyVars>>

-----------------------------------------------------------------------------
(* ApplicationNode::tick_generic, as far as LCP is concerned.               *)

\* Fault: a request that was turned down is made again.
PolledMutant(time) ==
    IF call # {} /\ answer # "none"
      THEN [lcp EXCEPT !.state = IF answer = "accepted" THEN "accepted"
                                                        ELSE "not_requested"]
    ELSE IF \E since \in call : time - since > ServiceTimeout
      THEN [lcp EXCEPT !.state = "failed"]
    ELSE lcp

\* Initialization::poll_lcp_start: an answer counts however late it is polled.
Polled(time) ==
    IF call # {} /\ answer # "none"
      THEN [lcp EXCEPT !.state = IF answer = "accepted" THEN "accepted"
                                                        ELSE "failed"]
    ELSE IF \E since \in call : time - since > ServiceTimeout
      THEN [lcp EXCEPT !.state = "failed"]
    ELSE lcp

StillOpen(time) ==
    {since \in call : answer = "none" /\ time - since <= ServiceTimeout}

\* Fault: a state no reader of it knows.
BegunMutant(l) ==
    [l EXCEPT !.state = "sent", !.healthy = 0,
              !.statusPast = FALSE, !.odometryPast = FALSE]

\* Initialization::begin_lcp_initialization: the baselines are latched.
Begun(l) ==
    [l EXCEPT !.state = "request_sent", !.healthy = 0,
              !.statusPast = FALSE, !.odometryPast = FALSE]

Recent(at, time, timeout) == \E t \in at : time - t <= timeout

\* Initialization::lcp_runtime_healthy; odometryAt holds the time of a finite one.
Healthy(l, time) ==
    /\ l.status = {2}
    /\ Recent(l.statusAt, time, StatusTimeout)
    /\ Recent(l.odometryAt, time, OdometryTimeout)

\* Initialization::lcp_ready
Ready(l, time) ==
    /\ l.state = "accepted" /\ Healthy(l, time)
    /\ l.healthy >= ReadySamples /\ l.statusPast /\ l.odometryPast

Wanted(l) == l.state \in {"not_requested", "waiting_service"}

\* The tick: the call is polled; if the ground conditions hold and nothing was
\* asked yet, LCP is asked to start, provided its service is there.
Tick(time, grounded, there) ==
    LET polled == Polled(time)
        wants == grounded /\ Wanted(polled) /\ StillOpen(time) = {}
    IN  /\ now' = time
        /\ \/ /\ wants /\ there
              /\ lcp' = Begun(polled) /\ call' = {time}
              /\ asked' = asked + 1 /\ requests' = requests + 1 /\ seen' = <<>>
           \/ /\ wants /\ ~there
              /\ lcp' = [polled EXCEPT !.state = "waiting_service"]
              /\ call' = {} /\ UNCHANGED <<asked, historyVars>>
           \/ /\ ~wants
              /\ lcp' = polled /\ call' = StillOpen(time)
              /\ UNCHANGED <<asked, historyVars>>
        /\ ready' = Ready(lcp', time)
        /\ answer' = IF StillOpen(time) = {} THEN "none" ELSE answer
        /\ UNCHANGED <<driver, topicVars>>

\* Once it is calm, the clock waits for the driver's answer.
Tock ==
    LET time == IF now < MaxNow THEN now + 1 ELSE now
    IN  /\ time >= Calm /\ answer = "none"
             => \A since \in call : time - since <= ServiceTimeout
        /\ \E grounded, there \in IF time >= Calm THEN {TRUE} ELSE BOOLEAN :
             Tick(time, grounded, there)

-----------------------------------------------------------------------------
(* The LCP driver (external).                                               *)

\* An answer reaches the node only while its call is open.
Answers(reply) == answer' = IF call = {} THEN "none" ELSE reply

AcceptStart ==
    /\ asked > 0 /\ driver.starts < MaxStarts
    /\ asked' = asked - 1 /\ Answers("accepted")
    /\ driver' = [starts |-> driver.starts + 1, status |-> 0]
    /\ UNCHANGED <<nodeVars, topicVars, historyVars>>

RejectStart ==
    /\ asked > 0 /\ now < Calm
    /\ asked' = asked - 1 /\ Answers("rejected")
    /\ UNCHANGED <<nodeVars, topicVars, driver, historyVars>>

\* What a scan may find; the first after a start is never healthy.
NextStatus ==
    IF driver.status = 0 THEN {IF driver.starts = 0 THEN 0 ELSE 1}
    ELSE IF now >= Calm THEN {2}
    ELSE IF driver.status = 1 THEN {1, 2} ELSE {2, 3}

\* One scan: a status message, and odometry if it is healthy; once it is calm,
\* the odometry is finite.
Scan(status, finite) ==
    /\ status \in NextStatus
    /\ finite \in IF now >= Calm \/ status # 2 THEN {TRUE} ELSE BOOLEAN
    /\ Len(statuses) < Backlog /\ (status = 2 => Len(odometries) < Backlog)
    /\ driver' = [driver EXCEPT !.status = status]
    /\ statuses' = Append(statuses, [value |-> status, start |-> driver.starts])
    /\ odometries' = IF status = 2 THEN Append(odometries, finite) ELSE odometries
    /\ UNCHANGED <<nodeVars, asked, answer, historyVars>>

-----------------------------------------------------------------------------

LcpNext ==
    \/ ReceiveStatus \/ ReceiveOdometry \/ Tock
    \/ AcceptStart \/ RejectStart
    \/ \E status \in 0..3, finite \in BOOLEAN : Scan(status, finite)

LcpSpec == LcpInit /\ [][LcpNext]_lcpVars

-----------------------------------------------------------------------------
(* Properties.                                                              *)

\* The node asks the driver to clear its map at most once in its life, although
\* answers time out, arrive late or say no: a request that was rejected, or given
\* up, is not made again (initialization.cpp:263).
AskedOnce == requests <= 1

\* LCP becomes ready only if the driver has accepted this node's request and the
\* latest ReadySamples statuses received since it was made were all healthy.
ReadyIsEarned ==
    [][ready' /\ ~ready =>
         /\ driver'.starts > 0
         /\ Len(seen') = ReadySamples
         /\ \A k \in DOMAIN seen' : seen'[k].value = 2]_lcpVars

\* Old healthy messages do not pass a new initialisation (the comment at
\* initialization.cpp:235): when LCP becomes ready, no status that was counted
\* was taken before the driver cleared its map.
ReadyIsFresh ==
    [][ready' /\ ~ready =>
         \A k \in DOMAIN seen' : seen'[k].start = driver'.starts]_lcpVars
=============================================================================
