--------------------------- MODULE VisionLoop_proofs ---------------------------
(***************************************************************************)
(* Machine-checked properties of the start of LCP, alone and in the loop   *)
(* with the vision bridge, for every timeout, sample count and backlog.    *)
(***************************************************************************)
EXTENDS VisionLoop, TLAPS

-----------------------------------------------------------------------------
(* Sequences: what taking the head off a queue, and a message into a window *)
(* of the latest ones, leaves.                                              *)

\* The rest of a queue.
LEMMA TailFacts ==
    ASSUME NEW S, NEW s \in Seq(S), s # <<>>
    PROVE  /\ Head(s) \in S /\ Tail(s) \in Seq(S) /\ Len(Tail(s)) = Len(s) - 1
           /\ Len(s) \in Nat \ {0}
           /\ \A k \in 1..Len(Tail(s)) : Tail(s)[k] = s[k + 1]
OBVIOUS

\* A queue with one more at its end.
LEMMA AppendFact ==
    ASSUME NEW S, NEW s \in Seq(S), NEW e \in S
    PROVE  Append(s, e) \in Seq(S)
OBVIOUS

\* The window of the latest `size' messages once one more has come.
Window(s, m, size) ==
    LET longer == Append(s, m) IN IF Len(longer) > size THEN Tail(longer) ELSE longer

LEMMA WindowFacts ==
    ASSUME NEW S, NEW s \in Seq(S), NEW m \in S, NEW size \in Nat \ {0}, Len(s) <= size
    PROVE  /\ Window(s, m, size) \in Seq(S)
           /\ Len(Window(s, m, size)) = IF Len(s) < size THEN Len(s) + 1 ELSE size
           /\ Window(s, m, size)[Len(Window(s, m, size))] = m
           /\ \A k \in 1..Len(Window(s, m, size)) - 1 :
                Window(s, m, size)[k] = IF Len(s) < size THEN s[k] ELSE s[k + 1]
<1> DEFINE longer == Append(s, m)
<1>1. /\ longer \in Seq(S) /\ Len(longer) = Len(s) + 1 /\ longer[Len(s) + 1] = m
      /\ Len(s) \in Nat /\ \A k \in 1..Len(s) : longer[k] = s[k]
  OBVIOUS
<1>2. Window(s, m, size) = IF Len(longer) > size THEN Tail(longer) ELSE longer
  BY DEF Window
<1> HIDE DEF longer
<1>3. CASE Len(s) < size
  BY <1>1, <1>2, <1>3
<1>4. CASE Len(s) = size
  <2>1. longer # <<>>
    BY <1>1
  <2>2. /\ Tail(longer) \in Seq(S) /\ Len(Tail(longer)) = Len(s)
        /\ \A k \in 1..Len(Tail(longer)) : Tail(longer)[k] = longer[k + 1]
    BY <1>1, <2>1, TailFacts
  <2>3. Window(s, m, size) = Tail(longer)
    BY <1>1, <1>2, <1>4
  <2> HIDE DEF Window
  <2> QED
    BY <1>1, <1>4, <2>2, <2>3
<1> QED
  BY <1>1, <1>3, <1>4

-----------------------------------------------------------------------------
(* Types.                                                                  *)

\* The constants, one by one.
LEMMA LcpConstants ==
    /\ ReadySamples \in Nat /\ ReadySamples > 0 /\ Backlog \in Nat /\ Backlog > 0
    /\ ServiceTimeout \in Nat /\ MaxNow \in Nat
BY LcpAssumption

\* The lcp_... fields of Telemetry.
LcpRecord == [state : RequestState, status : SUBSET (0..3),
              statusAt : SUBSET Int, odometryAt : SUBSET Int,
              statusPast : BOOLEAN, odometryPast : BOOLEAN,
              healthy : 0..ReadySamples]

\* What the node's operators make of them is of their type.
LEMMA RecordTypes ==
    ASSUME lcp \in LcpRecord, now \in Int, NEW time, NEW value \in 0..3,
           NEW finite
    PROVE  /\ StatusReceived(value) \in LcpRecord
           /\ OdometryReceived(finite) \in LcpRecord
           /\ Polled(time) \in LcpRecord
           /\ Begun(Polled(time)) \in LcpRecord
           /\ [Polled(time) EXCEPT !.state = "waiting_service"] \in LcpRecord
<1>1. StatusReceived(value) \in LcpRecord
  <2> DEFINE h == IF value # 2 THEN 0
                  ELSE IF lcp.healthy < ReadySamples THEN lcp.healthy + 1 ELSE lcp.healthy
  <2>1. h \in 0..ReadySamples
    BY LcpConstants DEF LcpRecord
  <2>2. {value} \in SUBSET (0..3) /\ {now} \in SUBSET Int
    OBVIOUS
  <2>3. StatusReceived(value) = [lcp EXCEPT !.status = {value}, !.statusAt = {now},
                                            !.statusPast = TRUE, !.healthy = h]
    BY DEF StatusReceived
  <2> HIDE DEF h
  <2> QED
    BY <2>1, <2>2, <2>3 DEF LcpRecord
<1>2. OdometryReceived(finite) \in LcpRecord
  BY DEF OdometryReceived, LcpRecord
<1>3. Polled(time) \in LcpRecord
  BY DEF Polled, LcpRecord, RequestState
<1>4. ASSUME NEW l \in LcpRecord
      PROVE  Begun(l) \in LcpRecord /\ [l EXCEPT !.state = "waiting_service"] \in LcpRecord
  <2>1. /\ "request_sent" \in RequestState /\ "waiting_service" \in RequestState
        /\ 0 \in 0..ReadySamples
    BY LcpConstants DEF RequestState
  <2> QED
    BY <2>1 DEF Begun, LcpRecord
<1> QED
  BY <1>1, <1>2, <1>3, <1>4

\* A tick of the node has a time and finds the prerequisites met or not.
LEMMA TockTicks ==
    ASSUME LcpTypeOK, Tock
    PROVE  \E time \in Int, grounded \in BOOLEAN, there \in BOOLEAN :
             Tick(time, grounded, there)
<1> DEFINE time == IF now < MaxNow THEN now + 1 ELSE now
<1>1. \E grounded, there \in IF time >= Calm THEN {TRUE} ELSE BOOLEAN :
        Tick(time, grounded, there)
  BY DEF Tock
<1>2. time \in Int
  BY LcpConstants DEF LcpTypeOK
<1> HIDE DEF time
<1>3. (IF time >= Calm THEN {TRUE} ELSE BOOLEAN) \subseteq BOOLEAN
  OBVIOUS
<1>4. PICK grounded, there \in BOOLEAN : Tick(time, grounded, there)
  BY <1>1, <1>3
<1> QED
  BY <1>2, <1>4

\* A tick keeps the types.
LEMMA TickType ==
    ASSUME LcpTypeOK, NEW time \in Int, NEW grounded, NEW there,
           Tick(time, grounded, there)
    PROVE  LcpTypeOK'
<1>1. lcp \in LcpRecord /\ now \in Int
  BY DEF LcpTypeOK, LcpRecord
<1>2. lcp' \in LcpRecord
  <2>1. 0 \in 0..3
    OBVIOUS
  <2> QED
    BY <1>1, <2>1, RecordTypes DEF Tick
<1>3. ready' \in BOOLEAN /\ now' \in Int /\ call' \in SUBSET Int
  BY DEF Tick, Ready, StillOpen, LcpTypeOK
<1>4. asked' \in Nat /\ requests' \in Nat /\ answer' \in {"none", "accepted", "rejected"}
  BY DEF Tick, historyVars, LcpTypeOK
<1>5. seen' \in Seq(Message) /\ Len(seen') <= ReadySamples
  <2>1. seen' = seen \/ seen' = <<>>
    BY DEF Tick, historyVars
  <2>2. <<>> \in Seq(Message) /\ Len(<<>>) <= ReadySamples
    BY LcpConstants
  <2> QED
    BY <2>1, <2>2 DEF LcpTypeOK
<1>6. UNCHANGED <<driver, statuses, odometries>>
  BY DEF Tick, topicVars
<1> QED
  BY <1>2, <1>3, <1>4, <1>5, <1>6 DEF LcpTypeOK, LcpRecord

\* Every variable of the node and of the driver always has its type.
THEOREM LcpTypeCorrect == LcpSpec => []LcpTypeOK
<1>1. LcpInit => LcpTypeOK
  <2> SUFFICES ASSUME LcpInit PROVE LcpTypeOK
    OBVIOUS
  <2>1. driver \in [starts : 0..MaxStarts, status : 0..3]
    BY DEF LcpInit, MaxStarts
  <2>2. lcp \in LcpRecord
    BY LcpConstants DEF LcpInit, LcpRecord, RequestState
  <2>3. statuses \in Seq(Message) /\ seen \in Seq(Message) /\ Len(seen) <= ReadySamples
    <3>1. statuses = <<>> /\ seen = <<>>
      BY DEF LcpInit
    <3> QED
      BY <3>1, LcpConstants
  <2>4. /\ call \in SUBSET Int /\ ready \in BOOLEAN /\ now \in Int
        /\ asked \in Nat /\ requests \in Nat /\ answer \in {"none", "accepted", "rejected"}
    <3>1. call = {} /\ now = 0 /\ asked = 0 /\ requests = 0 /\ answer = "none"
      BY Zenon DEF LcpInit
    <3>2. ready \in BOOLEAN
      BY Zenon DEF LcpInit
    <3> QED
      BY <3>1, <3>2
  <2>5. odometries \in Seq(BOOLEAN)
    <3>1. odometries = <<>>
      BY DEF LcpInit
    <3> QED
      BY <3>1
  <2> QED
    BY <2>1, <2>2, <2>3, <2>4, <2>5 DEF LcpTypeOK, LcpRecord
<1>2. LcpTypeOK /\ [LcpNext]_lcpVars => LcpTypeOK'
  <2> SUFFICES ASSUME LcpTypeOK, [LcpNext]_lcpVars PROVE LcpTypeOK'
    OBVIOUS
  <2>0. lcp \in LcpRecord /\ now \in Int
    BY DEF LcpTypeOK, LcpRecord
  <2>1. CASE ReceiveStatus
    <3>1. /\ Head(statuses) \in Message /\ statuses' \in Seq(Message)
      BY <2>1, TailFacts DEF ReceiveStatus, LcpTypeOK
    <3>2. lcp' \in LcpRecord
      <4>1. Head(statuses).value \in 0..3
        BY <3>1 DEF Message
      <4> QED
        BY <2>0, <2>1, <4>1, RecordTypes DEF ReceiveStatus
    <3>3. seen' = Window(seen, Head(statuses), ReadySamples)
      BY <2>1 DEF ReceiveStatus, Window
    <3>4. seen' \in Seq(Message) /\ Len(seen') <= ReadySamples
      <4>1. seen \in Seq(Message) /\ Len(seen) <= ReadySamples /\ Len(seen) \in Nat
        BY DEF LcpTypeOK
      <4> QED
        BY <3>1, <3>3, <4>1, WindowFacts, LcpConstants
    <3> QED
      BY <2>1, <3>1, <3>2, <3>4 DEF ReceiveStatus, driverVars, LcpTypeOK, LcpRecord
  <2>2. CASE ReceiveOdometry
    <3>1. lcp' \in LcpRecord
      <4>1. 0 \in 0..3
        OBVIOUS
      <4> QED
        BY <2>0, <2>2, <4>1, RecordTypes DEF ReceiveOdometry
    <3>2. odometries' \in Seq(BOOLEAN)
      <4>1. odometries \in Seq(BOOLEAN) /\ odometries # <<>> /\ odometries' = Tail(odometries)
        BY <2>2 DEF ReceiveOdometry, LcpTypeOK
      <4>2. Tail(odometries) \in Seq(BOOLEAN)
        BY <4>1, TailFacts, Zenon
      <4> QED
        BY <4>1, <4>2, Zenon
    <3> QED
      BY <2>2, <3>1, <3>2 DEF ReceiveOdometry, driverVars, historyVars, LcpTypeOK, LcpRecord
  <2>3. CASE Tock
    <3>1. PICK time \in Int, grounded \in BOOLEAN, there \in BOOLEAN : Tick(time, grounded, there)
      BY <2>3, TockTicks
    <3> QED
      BY <3>1, TickType
  <2>4. CASE AcceptStart
    BY <2>4 DEF AcceptStart, Answers, nodeVars, topicVars, historyVars, LcpTypeOK, MaxStarts
  <2>5. CASE RejectStart
    BY <2>5 DEF RejectStart, Answers, nodeVars, topicVars, historyVars, LcpTypeOK
  <2>6. ASSUME NEW status \in 0..3, NEW finite \in BOOLEAN, Scan(status, finite)
        PROVE  LcpTypeOK'
    <3>1. driver' \in [starts : 0..MaxStarts, status : 0..3]
      BY <2>6 DEF Scan, LcpTypeOK
    <3>2. statuses' \in Seq(Message)
      BY <2>6 DEF Scan, LcpTypeOK, Message
    <3>3. odometries' \in Seq(BOOLEAN)
      <4>1. odometries' = Append(odometries, finite) \/ odometries' = odometries
        BY <2>6, Zenon DEF Scan
      <4>2. odometries \in Seq(BOOLEAN)
        BY DEF LcpTypeOK
      <4> QED
        BY <4>1, <4>2, AppendFact, Zenon
    <3> QED
      BY <2>6, <3>1, <3>2, <3>3 DEF Scan, nodeVars, historyVars, LcpTypeOK
  <2>7. CASE UNCHANGED lcpVars
    BY <2>7 DEF lcpVars, nodeVars, topicVars, driverVars, historyVars, LcpTypeOK
  <2> QED
    BY <2>1, <2>2, <2>3, <2>4, <2>5, <2>6, <2>7 DEF LcpNext
<1> QED
  BY <1>1, <1>2, PTL DEF LcpSpec

-----------------------------------------------------------------------------
(* The driver is asked at most once.                                       *)

\* While LCP is still to be asked, it never was, and no call is open.
AskedInv ==
    /\ requests <= 1
    /\ Wanted(lcp) => requests = 0 /\ call = {}

\* A tick asks only when nothing was ever asked.
LEMMA TickAsks ==
    ASSUME LcpTypeOK, AskedInv, NEW time \in Int, NEW grounded, NEW there,
           Tick(time, grounded, there)
    PROVE  AskedInv'
<1>1. requests \in Nat /\ lcp \in LcpRecord /\ now \in Int
  BY DEF LcpTypeOK, LcpRecord
<1>2. Wanted(Polled(time)) => Wanted(lcp) /\ Polled(time) = lcp
  BY <1>1 DEF Wanted, Polled, LcpRecord
<1>3. CASE /\ Wanted(Polled(time)) /\ lcp' = Begun(Polled(time))
           /\ requests' = requests + 1
  <2>1. lcp'.state = "request_sent"
    BY <1>1, <1>2, <1>3 DEF Begun, LcpRecord
  <2>2. requests = 0
    BY <1>2, <1>3 DEF AskedInv
  <2> QED
    BY <1>3, <2>1, <2>2 DEF AskedInv, Wanted
<1>4. CASE Wanted(Polled(time)) /\ requests' = requests /\ call' = {}
  BY <1>2, <1>4 DEF AskedInv
<1>5. CASE lcp' = Polled(time) /\ requests' = requests /\ call' = StillOpen(time)
  <2>1. Wanted(lcp') => requests = 0 /\ call' = {}
    BY <1>2, <1>5 DEF AskedInv, StillOpen
  <2>2. Wanted(lcp)' <=> Wanted(lcp')
    BY DEF Wanted
  <2> QED
    BY <1>5, <2>1, <2>2 DEF AskedInv
<1> QED
  BY <1>3, <1>4, <1>5 DEF Tick, historyVars

\* What a callback makes of the telemetry leaves the state of the request alone.
LEMMA CallbacksKeepState ==
    ASSUME lcp \in LcpRecord, NEW value, NEW finite
    PROVE  /\ StatusReceived(value).state = lcp.state
           /\ OdometryReceived(finite).state = lcp.state
BY DEF StatusReceived, OdometryReceived, LcpRecord

\* At most one request is ever made, whatever answers, rejections, timeouts and
\* missing services the node meets, and whatever the timeouts are.
THEOREM AskedAtMostOnce == LcpSpec => []AskedOnce
<1>1. LcpInit => AskedInv
  <2> SUFFICES ASSUME LcpInit PROVE AskedInv
    OBVIOUS
  <2>1. requests = 0 /\ call = {}
    BY DEF LcpInit
  <2> QED
    BY <2>1 DEF AskedInv
<1>2. LcpTypeOK /\ AskedInv /\ [LcpNext]_lcpVars => AskedInv'
  <2> SUFFICES ASSUME LcpTypeOK, AskedInv, [LcpNext]_lcpVars PROVE AskedInv'
    OBVIOUS
  <2>0. lcp \in LcpRecord
    BY DEF LcpTypeOK, LcpRecord
  <2>1. CASE ReceiveStatus
    <3>1. lcp'.state = lcp.state
      BY <2>0, <2>1, CallbacksKeepState DEF ReceiveStatus
    <3> QED
      BY <2>1, <3>1 DEF ReceiveStatus, AskedInv, Wanted
  <2>2. CASE ReceiveOdometry
    <3>1. lcp'.state = lcp.state
      BY <2>0, <2>2, CallbacksKeepState DEF ReceiveOdometry
    <3> QED
      BY <2>2, <3>1 DEF ReceiveOdometry, historyVars, AskedInv, Wanted
  <2>3. CASE Tock
    <3>1. PICK time \in Int, grounded \in BOOLEAN, there \in BOOLEAN : Tick(time, grounded, there)
      BY <2>3, TockTicks
    <3> QED
      BY <3>1, TickAsks
  <2>4. CASE AcceptStart
    BY <2>4 DEF AcceptStart, nodeVars, historyVars, AskedInv, Wanted
  <2>5. CASE RejectStart
    BY <2>5 DEF RejectStart, nodeVars, historyVars, AskedInv, Wanted
  <2>6. ASSUME NEW status \in 0..3, NEW finite \in BOOLEAN, Scan(status, finite)
        PROVE  AskedInv'
    BY <2>6 DEF Scan, nodeVars, historyVars, AskedInv, Wanted
  <2>7. CASE UNCHANGED lcpVars
    BY <2>7 DEF lcpVars, nodeVars, historyVars, AskedInv, Wanted
  <2> QED
    BY <2>1, <2>2, <2>3, <2>4, <2>5, <2>6, <2>7 DEF LcpNext
<1>3. AskedInv => AskedOnce
  BY DEF AskedInv, AskedOnce
<1> QED
  BY <1>1, <1>2, <1>3, LcpTypeCorrect, PTL DEF LcpSpec

-----------------------------------------------------------------------------
(* LCP is ready only when it has earned it.                                *)

\* The state of the request and an answer on its way speak of the driver, and the
\* count of healthy statuses of the latest of them.
Counted(n, window) ==
    /\ n <= Len(window)
    /\ \A k \in 1..Len(window) : k > Len(window) - n => window[k].value = 2

EarnedInv ==
    /\ lcp.state = "accepted" \/ answer = "accepted" => driver.starts > 0
    /\ Counted(lcp.healthy, seen)

\* One more status keeps the count true.
LEMMA CountKept ==
    ASSUME NEW window \in Seq(Message), Len(window) <= ReadySamples,
           NEW m \in Message, NEW n \in 0..ReadySamples, Counted(n, window)
    PROVE  Counted(IF m.value # 2 THEN 0 ELSE IF n < ReadySamples THEN n + 1 ELSE n,
                   Window(window, m, ReadySamples))
<1> DEFINE longer == Window(window, m, ReadySamples)
           count == IF m.value # 2 THEN 0 ELSE IF n < ReadySamples THEN n + 1 ELSE n
<1> SUFFICES Counted(count, longer)
  OBVIOUS
<1>0. count = IF m.value # 2 THEN 0 ELSE IF n < ReadySamples THEN n + 1 ELSE n
  OBVIOUS
<1> HIDE DEF longer, count
<1>1. /\ longer \in Seq(Message)
      /\ Len(longer) = IF Len(window) < ReadySamples THEN Len(window) + 1 ELSE ReadySamples
      /\ longer[Len(longer)] = m
      /\ \A k \in 1..Len(longer) - 1 :
           longer[k] = IF Len(window) < ReadySamples THEN window[k] ELSE window[k + 1]
  <2>1. ReadySamples \in Nat \ {0}
    BY LcpConstants
  <2>2. /\ Window(window, m, ReadySamples) \in Seq(Message)
        /\ Len(Window(window, m, ReadySamples))
             = IF Len(window) < ReadySamples THEN Len(window) + 1 ELSE ReadySamples
        /\ Window(window, m, ReadySamples)[Len(Window(window, m, ReadySamples))] = m
        /\ \A k \in 1..Len(Window(window, m, ReadySamples)) - 1 :
             Window(window, m, ReadySamples)[k]
               = IF Len(window) < ReadySamples THEN window[k] ELSE window[k + 1]
    BY <2>1, WindowFacts, SMTT(60)
  <2> QED
    BY <2>2 DEF longer
<1>2. Len(window) \in Nat /\ ReadySamples \in Nat \ {0}
  BY LcpConstants
<1>3. /\ n <= Len(window)
      /\ \A k \in 1..Len(window) : k > Len(window) - n => window[k].value = 2
  BY DEF Counted
<1>4. count <= Len(longer) /\ count \in 0..ReadySamples
  BY <1>0, <1>1, <1>2, <1>3
<1>5. ASSUME NEW k \in 1..Len(longer), k > Len(longer) - count
      PROVE  longer[k].value = 2
  <2>0. m.value = 2 /\ count = IF n < ReadySamples THEN n + 1 ELSE n
    BY <1>0, <1>1, <1>5
  <2>1. CASE k = Len(longer)
    BY <1>1, <2>0, <2>1
  <2>2. CASE k # Len(longer) /\ Len(window) < ReadySamples
    <3>1. k \in 1..Len(window) /\ k > Len(window) - n /\ longer[k] = window[k]
      BY <1>1, <1>2, <1>3, <1>5, <2>0, <2>2
    <3> QED
      BY <1>3, <3>1
  <2>3. CASE k # Len(longer) /\ ~(Len(window) < ReadySamples)
    <3>1. /\ k + 1 \in 1..Len(window) /\ k + 1 > Len(window) - n
          /\ longer[k] = window[k + 1]
      BY <1>1, <1>2, <1>3, <1>5, <2>0, <2>3
    <3> QED
      BY <1>3, <3>1
  <2> QED
    BY <2>1, <2>2, <2>3
<1> QED
  BY <1>4, <1>5 DEF Counted

\* A tick keeps what the telemetry says, and makes LCP ready only on the strength
\* of it.
LEMMA TickEarns ==
    ASSUME LcpTypeOK, EarnedInv, NEW time \in Int, NEW grounded, NEW there,
           Tick(time, grounded, there)
    PROVE  /\ EarnedInv'
           /\ ready' => lcp'.state = "accepted" /\ lcp'.healthy >= ReadySamples
<1>0. lcp \in LcpRecord /\ driver' = driver /\ lcp.healthy \in 0..ReadySamples
      /\ answer \in {"none", "accepted", "rejected"}
  BY DEF LcpTypeOK, LcpRecord, Tick
<1>1. ready' => lcp'.state = "accepted" /\ lcp'.healthy >= ReadySamples
  BY DEF Tick, Ready
<1>2. /\ Polled(time).healthy = lcp.healthy
      /\ Polled(time).state = "accepted" => lcp.state = "accepted" \/ answer = "accepted"
  BY <1>0 DEF Polled, LcpRecord
<1>3. answer' = "accepted" => answer = "accepted"
  BY DEF Tick
<1>4. Polled(time) \in LcpRecord
  <2>1. 0 \in 0..3 /\ now \in Int
    BY DEF LcpTypeOK
  <2> QED
    BY <1>0, <2>1, RecordTypes
<1>5. CASE lcp' = Begun(Polled(time)) /\ seen' = <<>>
  <2>1. lcp'.state = "request_sent" /\ lcp'.healthy = 0
    BY <1>4, <1>5 DEF Begun, LcpRecord
  <2>2. Counted(0, <<>>)
    BY DEF Counted
  <2> QED
    BY <1>0, <1>1, <1>3, <1>5, <2>1, <2>2 DEF EarnedInv
<1>6. CASE lcp' = [Polled(time) EXCEPT !.state = "waiting_service"] /\ seen' = seen
  <2>1. lcp'.state = "waiting_service" /\ lcp'.healthy = lcp.healthy
    BY <1>2, <1>4, <1>6 DEF LcpRecord
  <2> QED
    BY <1>0, <1>1, <1>3, <1>6, <2>1 DEF EarnedInv
<1>7. CASE lcp' = Polled(time) /\ seen' = seen
  BY <1>0, <1>1, <1>2, <1>3, <1>7 DEF EarnedInv
<1> QED
  BY <1>5, <1>6, <1>7 DEF Tick, historyVars

\* What a step does to it.
LEMMA EarnedStep ==
    ASSUME LcpTypeOK, EarnedInv, [LcpNext]_lcpVars
    PROVE  /\ EarnedInv'
           /\ ready' /\ ~ready =>
                lcp'.state = "accepted" /\ lcp'.healthy >= ReadySamples
<1>0. /\ driver \in [starts : 0..MaxStarts, status : 0..3] /\ driver.starts \in Nat
      /\ lcp \in LcpRecord /\ lcp.healthy \in 0..ReadySamples
      /\ seen \in Seq(Message) /\ Len(seen) <= ReadySamples
  BY DEF LcpTypeOK, LcpRecord, MaxStarts
<1>1. CASE ReceiveStatus
  <2>1. Head(statuses) \in Message
    BY <1>1, TailFacts DEF ReceiveStatus, LcpTypeOK
  <2> DEFINE m == Head(statuses)
             count == IF m.value # 2 THEN 0
                      ELSE IF lcp.healthy < ReadySamples THEN lcp.healthy + 1
                      ELSE lcp.healthy
  <2>2. lcp'.state = lcp.state /\ lcp'.healthy = count
    BY <1>0, <1>1 DEF ReceiveStatus, StatusReceived, LcpRecord
  <2>3. seen' = Window(seen, m, ReadySamples)
    BY <1>1 DEF ReceiveStatus, Window
  <2>4. Counted(count, Window(seen, m, ReadySamples))
    BY <1>0, <2>1, CountKept DEF EarnedInv
  <2>5. Counted(lcp'.healthy, seen')
    BY <2>2, <2>3, <2>4
  <2> QED
    BY <1>1, <2>2, <2>5 DEF ReceiveStatus, driverVars, EarnedInv
<1>2. CASE ReceiveOdometry
  <2>1. lcp'.state = lcp.state /\ lcp'.healthy = lcp.healthy
    BY <1>0, <1>2 DEF ReceiveOdometry, OdometryReceived, LcpRecord
  <2> QED
    BY <1>2, <2>1 DEF ReceiveOdometry, driverVars, historyVars, EarnedInv
<1>3. CASE Tock
  <2>1. PICK time \in Int, grounded \in BOOLEAN, there \in BOOLEAN : Tick(time, grounded, there)
    BY <1>3, TockTicks
  <2> QED
    BY <2>1, TickEarns
<1>4. CASE AcceptStart
  <2>1. driver'.starts > 0
    BY <1>0, <1>4 DEF AcceptStart
  <2> QED
    BY <1>4, <2>1 DEF AcceptStart, nodeVars, historyVars, EarnedInv
<1>5. CASE RejectStart
  <2>1. answer' # "accepted" /\ driver' = driver /\ lcp' = lcp /\ seen' = seen /\ ready' = ready
    BY <1>5 DEF RejectStart, Answers, nodeVars, historyVars
  <2> QED
    BY <2>1 DEF EarnedInv
<1>6. ASSUME NEW status \in 0..3, NEW finite \in BOOLEAN, Scan(status, finite)
      PROVE  EarnedInv' /\ (ready' = ready)
  <2>1. driver'.starts = driver.starts
    BY <1>0, <1>6 DEF Scan
  <2> QED
    BY <1>6, <2>1 DEF Scan, nodeVars, historyVars, EarnedInv
<1>7. CASE UNCHANGED lcpVars
  BY <1>7 DEF lcpVars, nodeVars, driverVars, historyVars, EarnedInv
<1> QED
  BY <1>1, <1>2, <1>3, <1>4, <1>5, <1>6, <1>7 DEF LcpNext

\* The invariant in every state of the node and the driver.
LEMMA EarnedCorrect == LcpSpec => []EarnedInv
<1>1. LcpInit => EarnedInv
  <2> SUFFICES ASSUME LcpInit PROVE EarnedInv
    OBVIOUS
  <2>1. lcp.state = "not_requested" /\ lcp.healthy = 0
    BY DEF LcpInit
  <2>2. answer = "none" /\ seen = <<>>
    BY Zenon DEF LcpInit
  <2>3. Counted(0, <<>>)
    BY DEF Counted
  <2> QED
    BY <2>1, <2>2, <2>3 DEF EarnedInv
<1>2. LcpTypeOK /\ EarnedInv /\ [LcpNext]_lcpVars => EarnedInv'
  BY EarnedStep
<1> QED
  BY <1>1, <1>2, LcpTypeCorrect, PTL DEF LcpSpec

\* When LCP becomes ready, the driver has accepted this node's request, and the
\* latest ReadySamples statuses received since were healthy, for every number of
\* samples asked for and every delay of the topics (LcpStart, ReadyIsEarned).
THEOREM ReadyEarned == LcpSpec => ReadyIsEarned
<1>1. LcpTypeOK /\ LcpTypeOK' /\ EarnedInv /\ [LcpNext]_lcpVars =>
        [ready' /\ ~ready =>
           /\ driver'.starts > 0
           /\ Len(seen') = ReadySamples
           /\ \A k \in DOMAIN seen' : seen'[k].value = 2]_lcpVars
  <2> SUFFICES ASSUME LcpTypeOK, LcpTypeOK', EarnedInv, [LcpNext]_lcpVars,
                      ready', ~ready
               PROVE  /\ driver'.starts > 0
                      /\ Len(seen') = ReadySamples
                      /\ \A k \in DOMAIN seen' : seen'[k].value = 2
    OBVIOUS
  <2>1. EarnedInv' /\ lcp'.state = "accepted" /\ lcp'.healthy >= ReadySamples
    BY EarnedStep
  <2>2. /\ seen' \in Seq(Message) /\ Len(seen') <= ReadySamples
        /\ lcp'.healthy \in 0..ReadySamples
    BY DEF LcpTypeOK
  <2>3. ReadySamples \in Nat /\ Len(seen') \in Nat /\ DOMAIN seen' = 1..Len(seen')
    BY <2>2, LcpConstants
  <2>4. /\ driver'.starts > 0 /\ lcp'.healthy <= Len(seen')
        /\ \A k \in 1..Len(seen') : k > Len(seen') - lcp'.healthy => seen'[k].value = 2
    BY <2>1 DEF EarnedInv, Counted
  <2>5. Len(seen') = ReadySamples /\ lcp'.healthy = Len(seen')
    <3> DEFINE n == lcp'.healthy  l == Len(seen')
    <3>1. n \in Nat /\ l \in Nat /\ n >= ReadySamples /\ n <= l /\ l <= ReadySamples
      BY <2>1, <2>2, <2>3, <2>4
    <3> HIDE DEF n, l
    <3>2. l = ReadySamples /\ n = l
      BY <3>1, <2>3
    <3> QED
      BY <3>2 DEF n, l
  <2>6. \A k \in DOMAIN seen' : seen'[k].value = 2
    BY <2>3, <2>4, <2>5
  <2> QED
    BY <2>4, <2>5, <2>6
<1> QED
  BY <1>1, LcpTypeCorrect, EarnedCorrect, PTL DEF LcpSpec, ReadyIsEarned

-----------------------------------------------------------------------------
(* The loop with the vision bridge.                                        *)

\* A step of the loop is one of the start of LCP, or leaves it alone: the bridge
\* listens to the driver and the preflight to the node, but neither acts on them.
LEMMA VisionStepIsLcpStep == [VisionNext]_visionVars => [LcpNext]_lcpVars
<1> SUFFICES ASSUME [VisionNext]_visionVars PROVE [LcpNext]_lcpVars
  OBVIOUS
<1>1. CASE Alone(ReceiveStatus) \/ Alone(ReceiveOdometry) \/ Alone(AcceptStart)
           \/ Alone(RejectStart)
  BY <1>1 DEF Alone, LcpNext
<1>2. CASE VisionTick
  <2> DEFINE time == IF now < MaxNow THEN now + 1 ELSE now
  <2>1. /\ time >= Calm /\ answer = "none"
             => \A since \in call : time - since <= ServiceTimeout
        /\ \E grounded, there \in IF time >= Calm THEN {TRUE} ELSE BOOLEAN :
             Tick(time, grounded, there)
    BY <1>2 DEF VisionTick, Prerequisites
  <2>2. Tock
    BY <2>1 DEF Tock
  <2> QED
    BY <2>2 DEF LcpNext
<1>3. ASSUME NEW status \in 0..3, NEW finite \in BOOLEAN, NEW usable \in BOOLEAN,
             VisionScan(status, finite, usable)
      PROVE  LcpNext
  BY <1>3 DEF VisionScan, LcpNext
<1>4. CASE BridgeStatus
  BY <1>4 DEF BridgeStatus
<1>5. CASE BridgeOdometry
  BY <1>5 DEF BridgeOdometry
<1>6. CASE UNCHANGED visionVars
  BY <1>6 DEF visionVars
<1> QED
  BY <1>1, <1>2, <1>3, <1>4, <1>5, <1>6 DEF VisionNext

\* The loop is a start of LCP: what LcpSpec promises holds in the loop as well.
THEOREM VisionIsLcpStart == VisionSpec => LcpSpec
<1>1. VisionInit => LcpInit
  BY DEF VisionInit
<1> QED
  BY <1>1, VisionStepIsLcpStep, PTL DEF VisionSpec, LcpSpec

\* In the loop, too, the driver is asked once.
THEOREM VisionAsksOnce == VisionSpec => []AskedOnce
BY VisionIsLcpStart, AskedAtMostOnce, PTL

\* In the loop, too, LCP is ready only when it has earned it.
THEOREM VisionReadyEarned == VisionSpec => ReadyIsEarned
BY VisionIsLcpStart, ReadyEarned, PTL

\* The times the bridge and the estimator keep are times the clock has shown.
VisionInv == LcpTypeOK /\ now \in 0..MaxNow /\ VisionTypeOK

\* A step keeps the clock within its bound.
LEMMA ClockKept ==
    ASSUME LcpTypeOK, now \in 0..MaxNow, [LcpNext]_lcpVars
    PROVE  now' \in 0..MaxNow
<1>1. CASE Tock
  <2>1. now' = IF now < MaxNow THEN now + 1 ELSE now
    BY <1>1 DEF Tock, Tick
  <2> QED
    BY <2>1, LcpConstants
<1>2. CASE ~Tock
  BY <1>2 DEF LcpNext, ReceiveStatus, ReceiveOdometry, AcceptStart, RejectStart, Scan,
              nodeVars, lcpVars
<1> QED
  BY <1>1, <1>2

\* What the bridge, the estimator and the preflight keep has its type.
THEOREM VisionTypeCorrect == VisionSpec => []VisionTypeOK
<1>1. VisionInit /\ LcpTypeOK => VisionInv
  <2> SUFFICES ASSUME VisionInit, LcpTypeOK PROVE VisionInv
    OBVIOUS
  <2>1. now = 0
    BY Zenon DEF VisionInit, LcpInit
  <2>2. /\ bridge = [status |-> 0, at |-> -1] /\ poseAt = {} /\ preflight = FALSE
        /\ bridgeStatuses = <<>> /\ bridgeOdometries = <<>>
    BY Zenon DEF VisionInit
  <2>3. bridge \in [status : 0..3, at : -1..MaxNow]
    BY <2>2, LcpConstants
  <2>4. bridgeStatuses \in Seq(0..3) /\ bridgeOdometries \in Seq(BOOLEAN)
    BY <2>2
  <2>5. poseAt \in SUBSET (0..MaxNow) /\ now \in 0..MaxNow
    BY <2>1, <2>2, LcpConstants
  <2>6. preflight \in BOOLEAN
    BY <2>2, Zenon
  <2> QED
    BY <2>3, <2>4, <2>5, <2>6 DEF VisionInv, VisionTypeOK
<1>2. VisionInv /\ LcpTypeOK' /\ [VisionNext]_visionVars => VisionInv'
  <2> SUFFICES ASSUME VisionInv, LcpTypeOK', [VisionNext]_visionVars PROVE VisionInv'
    OBVIOUS
  <2>0. now' \in 0..MaxNow
    BY ClockKept, VisionStepIsLcpStep DEF VisionInv
  <2> SUFFICES VisionTypeOK'
    BY <2>0 DEF VisionInv
  <2> USE DEF VisionInv, VisionTypeOK
  <2>1. CASE Alone(ReceiveStatus) \/ Alone(ReceiveOdometry) \/ Alone(AcceptStart)
             \/ Alone(RejectStart)
    BY <2>1 DEF Alone, bridgeQueues
  <2>2. CASE VisionTick
    <3>1. preflight' \in BOOLEAN
      BY <2>2 DEF VisionTick
    <3> QED
      BY <2>2, <3>1 DEF VisionTick, bridgeQueues
  <2>3. CASE BridgeStatus
    <3>1. Head(bridgeStatuses) \in 0..3 /\ bridgeStatuses' \in Seq(0..3)
      BY <2>3, TailFacts DEF BridgeStatus
    <3>2. bridge' \in [status : 0..3, at : -1..MaxNow]
      BY <2>3, <3>1, LcpConstants DEF BridgeStatus, Bridged
    <3> QED
      BY <2>3, <3>1, <3>2 DEF BridgeStatus
  <2>4. CASE BridgeOdometry
    <3>1. bridgeOdometries' \in Seq(BOOLEAN)
      <4>1. /\ bridgeOdometries \in Seq(BOOLEAN) /\ bridgeOdometries # <<>>
            /\ bridgeOdometries' = Tail(bridgeOdometries)
        BY <2>4 DEF BridgeOdometry
      <4>2. Tail(bridgeOdometries) \in Seq(BOOLEAN)
        BY <4>1, TailFacts, Zenon
      <4> QED
        BY <4>1, <4>2, Zenon
    <3>2. poseAt' \in SUBSET (0..MaxNow)
      BY <2>4 DEF BridgeOdometry
    <3> QED
      BY <2>4, <3>1, <3>2 DEF BridgeOdometry
  <2>5. ASSUME NEW status \in 0..3, NEW finite \in BOOLEAN, NEW usable \in BOOLEAN,
               VisionScan(status, finite, usable)
        PROVE  VisionTypeOK'
    <3>1. bridgeStatuses' \in Seq(0..3)
      BY <2>5 DEF VisionScan
    <3>2. bridgeOdometries' \in Seq(BOOLEAN)
      <4>1. \/ bridgeOdometries' = Append(bridgeOdometries, usable)
            \/ bridgeOdometries' = bridgeOdometries
        BY <2>5, Zenon DEF VisionScan
      <4>2. bridgeOdometries \in Seq(BOOLEAN)
        OBVIOUS
      <4> QED
        BY <4>1, <4>2, AppendFact, Zenon
    <3> QED
      BY <2>5, <3>1, <3>2 DEF VisionScan
  <2>6. CASE UNCHANGED visionVars
    BY <2>6 DEF visionVars, bridgeQueues
  <2> QED
    BY <2>1, <2>2, <2>3, <2>4, <2>5, <2>6 DEF VisionNext
<1>3. VisionInv => VisionTypeOK
  BY DEF VisionInv
<1> QED
  BY <1>1, <1>2, <1>3, VisionIsLcpStart, LcpTypeCorrect, PTL DEF VisionSpec
=============================================================================
