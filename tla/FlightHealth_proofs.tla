------------------------- MODULE FlightHealth_proofs -------------------------
(***************************************************************************)
(* Machine-checked properties of the health verdicts, for every set of     *)
(* sensors, every timeout and every grace time.                            *)
(***************************************************************************)
EXTENDS FlightHealth, TLAPS

-----------------------------------------------------------------------------
(* Types.                                                                  *)

\* The constants, one by one.
LEMMA HealthConstants ==
    /\ Grace \in Nat /\ Long \in Nat /\ Long = Grace + 2
    /\ "state" \in Topic /\ "landed" \in Topic /\ "pose" \in Topic
    /\ \A t \in Topic : Timeout[t] \in Nat /\ Old(t) \in Nat
                        /\ Old(t) = Timeout[t] + Grace + 2
BY HealthAssumption DEF Long, Old, Topic

\* A capped counter goes on by one, or stays at its cap.
LEMMA CappedFacts ==
    ASSUME NEW limit \in Nat, NEW n \in 0..limit
    PROVE  /\ Capped(n, limit) \in 0..limit
           /\ Capped(n, limit) = IF n < limit THEN n + 1 ELSE limit
BY DEF Capped

\* The type invariant with the domain of `age', and the shape of the two times.
HealthTyped ==
    /\ age \in [Topic -> Nat] /\ HealthTypeOK
    /\ \A m, n \in faultFor : m = n
    /\ \A m, n \in sickFor : m = n

\* The ages after a tick.
LEMMA AgedFacts ==
    ASSUME HealthTyped
    PROVE  /\ Aged \in [Topic -> Nat]
           /\ \A t \in Topic : /\ age[t] \in 0..Old(t) /\ Aged[t] \in 0..Old(t)
                               /\ Aged[t] = IF age[t] < Old(t) THEN age[t] + 1 ELSE Old(t)
<1>1. ASSUME NEW t \in Topic
      PROVE  /\ age[t] \in 0..Old(t) /\ Capped(age[t], Old(t)) \in 0..Old(t)
             /\ Capped(age[t], Old(t)) = IF age[t] < Old(t) THEN age[t] + 1 ELSE Old(t)
  BY HealthConstants, CappedFacts DEF HealthTyped, HealthTypeOK
<1> QED
  BY <1>1 DEF Aged

\* What a callback does to the ages and grades.
LEMMA ReceivedFacts ==
    ASSUME HealthTyped, NEW t \in Topic, NEW g \in Grade, Received(t, g)
    PROVE  /\ age' \in [Topic -> Nat] /\ grade' \in [Topic -> Grade]
           /\ age'[t] = 0 /\ grade'[t] = g
           /\ \A u \in Topic \ {t} : age'[u] = age[u] /\ grade'[u] = grade[u]
           /\ UNCHANGED <<airborne, faultFor, preflight, valid, vehicle, armedFor,
                          flownFor, sickFor>>
BY DEF Received, HealthTyped, HealthTypeOK

\* Every callback is one of these; only that of State sets `armed'.
LEMMA CallbackCases ==
    ASSUME HealthTyped,
           ReceiveState \/ ReceiveLanded \/ \E t \in Sensor : ReceiveSensor(t)
    PROVE  \E t \in Topic, g \in Grade :
             /\ Received(t, g)
             /\ \/ t # "state" /\ armed' = armed
                \/ t = "state" /\ g = "fit" /\ armed' = vehicle.armed
                \/ t = "state" /\ g = "unfit" /\ armed' = FALSE
<1>1. CASE ReceiveState
  BY <1>1, HealthConstants DEF ReceiveState, Grade
<1>2. CASE ReceiveLanded
  BY <1>2, HealthConstants DEF ReceiveLanded, Grade
<1>3. ASSUME NEW t \in Sensor, ReceiveSensor(t)
      PROVE  \E g \in Grade : Received(t, g) /\ armed' = armed
  BY <1>3, HealthAssumption DEF ReceiveSensor
<1>4. \A t \in Sensor : t \in Topic /\ t # "state"
  BY HealthAssumption DEF Topic
<1> QED
  BY <1>1, <1>2, <1>3, <1>4

\* The times a fault and a run of flight errors have lasted after a tick.
LEMMA FaultFacts ==
    ASSUME HealthTyped
    PROVE  /\ FaultFor(Aged) \in SUBSET (0..Long)
           /\ \A m, n \in FaultFor(Aged) : m = n
<1>1. \A n \in faultFor : Capped(n, Long) \in 0..Long
  BY HealthConstants, CappedFacts DEF HealthTyped, HealthTypeOK
<1>2. 0 \in 0..Long
  BY HealthConstants
<1> QED
  BY <1>1, <1>2 DEF FaultFor, HealthTyped

LEMMA SickFacts ==
    ASSUME HealthTyped, HealthTick
    PROVE  /\ sickFor' \in SUBSET (0..Long)
           /\ \A m, n \in sickFor' : m = n
<1>1. \A n \in sickFor : Capped(n, Long) \in 0..Long
  BY HealthConstants, CappedFacts DEF HealthTyped, HealthTypeOK
<1>2. 0 \in 0..Long
  BY HealthConstants
<1>3. sickFor' = {} \/ sickFor' = {0} \/ sickFor' = {Capped(n, Long) : n \in sickFor}
  BY DEF HealthTick
<1> QED
  BY <1>1, <1>2, <1>3 DEF HealthTyped

\* A step keeps the types.
LEMMA HealthTypedStep ==
    ASSUME HealthTyped, [HealthNext]_healthVars
    PROVE  HealthTyped'
<1>0. /\ age \in [Topic -> Nat] /\ \A t \in Topic : age[t] \in 0..Old(t)
      /\ grade \in [Topic -> Grade]
      /\ armed \in BOOLEAN /\ airborne \in BOOLEAN /\ preflight \in BOOLEAN
      /\ valid \in BOOLEAN
      /\ faultFor \in SUBSET (0..Long) /\ sickFor \in SUBSET (0..Long)
      /\ vehicle \in [armed : BOOLEAN, landed : BOOLEAN]
      /\ armedFor \in 0..Timeout["state"] + 1 /\ flownFor \in 0..Long
      /\ \A m, n \in faultFor : m = n
      /\ \A m, n \in sickFor : m = n
  BY DEF HealthTyped, HealthTypeOK
<1>1. CASE HealthTick
  <2>1. age' \in [Topic -> Nat] /\ \A t \in Topic : age'[t] \in 0..Old(t)
    BY <1>1, AgedFacts DEF HealthTick
  <2>2. airborne' \in BOOLEAN /\ preflight' \in BOOLEAN /\ valid' \in BOOLEAN
    <3>1. Airborne \in BOOLEAN /\ (~PreflightErrors(Aged)) \in BOOLEAN
          /\ (Observed /\ FlightHealthy(Aged)) \in BOOLEAN
      BY Zenon DEF Airborne
    <3> QED
      BY <1>1, <3>1, Zenon DEF HealthTick
  <2>3. armedFor' \in 0..Timeout["state"] + 1 /\ flownFor' \in 0..Long
    <3>1. Capped(armedFor, Timeout["state"] + 1) \in 0..Timeout["state"] + 1
      BY <1>0, HealthConstants, CappedFacts
    <3>2. Capped(flownFor, Long) \in 0..Long
      BY <1>0, HealthConstants, CappedFacts
    <3> QED
      BY <1>1, <3>1, <3>2, HealthConstants DEF HealthTick
  <2>4. faultFor' \in SUBSET (0..Long) /\ \A m, n \in faultFor' : m = n
    BY <1>1, FaultFacts DEF HealthTick
  <2>5. sickFor' \in SUBSET (0..Long) /\ \A m, n \in sickFor' : m = n
    BY <1>1, SickFacts
  <2>6. grade' = grade /\ armed' = armed /\ vehicle' = vehicle
    BY <1>1 DEF HealthTick
  <2> QED
    BY <1>0, <2>1, <2>2, <2>3, <2>4, <2>5, <2>6 DEF HealthTyped, HealthTypeOK
<1>2. CASE ReceiveState \/ ReceiveLanded \/ \E t \in Sensor : ReceiveSensor(t)
  <2>1. PICK t \in Topic, g \in Grade :
          /\ Received(t, g)
          /\ armed' = armed \/ armed' = vehicle.armed \/ armed' = FALSE
    BY <1>2, CallbackCases
  <2>2. /\ age' \in [Topic -> Nat] /\ grade' \in [Topic -> Grade]
        /\ \A u \in Topic : age'[u] = 0 \/ age'[u] = age[u]
        /\ UNCHANGED <<airborne, faultFor, preflight, valid, vehicle, armedFor,
                       flownFor, sickFor>>
    BY <2>1, ReceivedFacts
  <2>3. \A u \in Topic : age'[u] \in 0..Old(u)
    BY <1>0, <2>2, HealthConstants
  <2>4. armed' \in BOOLEAN
    <3>1. vehicle.armed \in BOOLEAN
      BY <1>0
    <3> QED
      BY <1>0, <2>1, <3>1, Zenon
  <2> QED
    BY <1>0, <2>2, <2>3, <2>4 DEF HealthTyped, HealthTypeOK
<1>3. CASE Vehicle
  <2>1. vehicle' \in [armed : BOOLEAN, landed : BOOLEAN]
    BY <1>0, <1>3 DEF Vehicle
  <2>2. armedFor' \in 0..Timeout["state"] + 1
    BY <1>0, <1>3, HealthConstants DEF Vehicle
  <2> QED
    BY <1>0, <1>3, <2>1, <2>2 DEF Vehicle, nodeVars, HealthTyped, HealthTypeOK
<1>4. CASE Restart
  <2>1. /\ age' = [t \in Topic |-> Old(t)] /\ grade' = [t \in Topic |-> "unfit"]
        /\ faultFor' = {} /\ sickFor' = {} /\ flownFor' = 0
        /\ UNCHANGED <<vehicle, armedFor>>
    BY <1>4 DEF Restart, Started
  <2>2. armed' \in BOOLEAN /\ airborne' \in BOOLEAN /\ preflight' \in BOOLEAN
        /\ valid' \in BOOLEAN
    BY <1>4, Zenon DEF Restart, Started
  <2>3. age' \in [Topic -> Nat] /\ \A t \in Topic : age'[t] \in 0..Old(t)
    BY <2>1, HealthConstants
  <2>4. grade' \in [Topic -> Grade]
    BY <2>1 DEF Grade
  <2>5. flownFor' \in 0..Long
    BY <2>1, HealthConstants
  <2> QED
    BY <1>0, <2>1, <2>2, <2>3, <2>4, <2>5 DEF HealthTyped, HealthTypeOK
<1>5. CASE UNCHANGED healthVars
  BY <1>0, <1>5 DEF healthVars, nodeVars, HealthTyped, HealthTypeOK
<1> QED
  BY <1>1, <1>2, <1>3, <1>4, <1>5 DEF HealthNext

\* The types in every state.
LEMMA HealthTypedCorrect == HealthSpec => []HealthTyped
<1>1. HealthInit => HealthTyped
  <2> SUFFICES ASSUME HealthInit PROVE HealthTyped
    OBVIOUS
  <2>1. /\ age = [t \in Topic |-> Old(t)] /\ grade = [t \in Topic |-> "unfit"]
        /\ faultFor = {} /\ sickFor = {} /\ flownFor = 0 /\ armedFor = 0
        /\ vehicle = [armed |-> FALSE, landed |-> TRUE]
    BY DEF HealthInit
  <2>2. armed \in BOOLEAN /\ airborne \in BOOLEAN /\ preflight \in BOOLEAN
        /\ valid \in BOOLEAN
    BY Zenon DEF HealthInit
  <2>3. age \in [Topic -> Nat] /\ \A t \in Topic : age[t] \in 0..Old(t)
    BY <2>1, HealthConstants
  <2>4. grade \in [Topic -> Grade]
    BY <2>1 DEF Grade
  <2>5. flownFor \in 0..Long /\ armedFor \in 0..Timeout["state"] + 1
    BY <2>1, HealthConstants
  <2>6. vehicle \in [armed : BOOLEAN, landed : BOOLEAN]
    BY <2>1
  <2> QED
    BY <2>1, <2>2, <2>3, <2>4, <2>5, <2>6 DEF HealthTyped, HealthTypeOK
<1>2. HealthTyped /\ [HealthNext]_healthVars => HealthTyped'
  BY HealthTypedStep
<1> QED
  BY <1>1, <1>2, PTL DEF HealthSpec

\* Every variable of the watchdog always has its type; no age, and no time a fault
\* has lasted, leaves its range.
THEOREM HealthTypeCorrect == HealthSpec => []HealthTypeOK
<1>1. HealthTyped => HealthTypeOK
  BY DEF HealthTyped
<1> QED
  BY <1>1, HealthTypedCorrect, PTL

-----------------------------------------------------------------------------
(* A loss is noticed.                                                      *)

\* A topic that has been silent for longer than its timeout, in a vehicle known to
\* fly, has a fault on the clock: one that is no younger than the silence, or than
\* the flight.
LossInv ==
    \A t \in Topic \ {"landed"} :
      age[t] > Timeout[t] /\ flownFor > 0 =>
        \E n \in faultFor : n >= age[t] - Timeout[t] - 1 \/ n >= flownFor - 1

\* A silent topic is an error of the flight.
LEMMA SilenceIsFault ==
    ASSUME HealthTyped, NEW t \in Topic \ {"landed"}, Aged[t] > Timeout[t], airborne
    PROVE  Faulty(Aged)
<1>1. ~Fresh(t, Aged)
  BY HealthConstants, AgedFacts DEF Fresh
<1> QED
  BY <1>1 DEF Faulty, FlightErrors, SensorErrors

\* A tick keeps the bound on the age of the fault.
LEMMA TickKeepsLoss ==
    ASSUME HealthTyped, LossInv, HealthTick
    PROVE  LossInv'
<1> SUFFICES ASSUME NEW t \in Topic \ {"landed"}, age'[t] > Timeout[t], flownFor' > 0
             PROVE  \E n \in faultFor' : n >= age'[t] - Timeout[t] - 1 \/ n >= flownFor' - 1
  BY DEF LossInv
<1>0. /\ age[t] \in 0..Old(t) /\ flownFor \in 0..Long
      /\ Timeout[t] \in Nat /\ Grace \in Nat /\ Long = Grace + 2
      /\ Old(t) = Timeout[t] + Grace + 2
  BY HealthConstants DEF HealthTyped, HealthTypeOK
<1>1. age' = Aged /\ age'[t] = IF age[t] < Old(t) THEN age[t] + 1 ELSE Old(t)
  BY AgedFacts DEF HealthTick
<1>2. airborne /\ flownFor' = IF flownFor < Long THEN flownFor + 1 ELSE Long
  BY <1>0, CappedFacts, HealthConstants DEF HealthTick
<1>3. faultFor' = IF faultFor = {} THEN {0} ELSE {Capped(n, Long) : n \in faultFor}
  <2>1. Faulty(Aged)
    BY <1>1, <1>2, SilenceIsFault
  <2> QED
    BY <1>2, <2>1 DEF HealthTick, FaultFor
<1>4. \A n \in faultFor : /\ n \in 0..Long
                          /\ Capped(n, Long) = IF n < Long THEN n + 1 ELSE Long
  BY CappedFacts, HealthConstants DEF HealthTyped, HealthTypeOK
<1>5. CASE age[t] > Timeout[t] /\ flownFor > 0
  <2>1. PICK n \in faultFor : n >= age[t] - Timeout[t] - 1 \/ n >= flownFor - 1
    BY <1>5 DEF LossInv
  <2>2. Capped(n, Long) \in faultFor'
    BY <1>3, <2>1
  <2>3. n \in 0..Long /\ Capped(n, Long) = IF n < Long THEN n + 1 ELSE Long
    BY <1>4, <2>1
  <2>4. \/ Capped(n, Long) >= age'[t] - Timeout[t] - 1
        \/ Capped(n, Long) >= flownFor' - 1
    <3> DEFINE m == Capped(n, Long)  a == age[t]  b == age'[t]  f == flownFor
               g == flownFor'  o == Old(t)  d == Timeout[t]
    <3>1. /\ n \in 0..Long /\ m = (IF n < Long THEN n + 1 ELSE Long)
          /\ a \in 0..o /\ b = (IF a < o THEN a + 1 ELSE o) /\ o = d + Grace + 2
          /\ f \in 0..Long /\ g = (IF f < Long THEN f + 1 ELSE Long) /\ Long = Grace + 2
          /\ d \in Nat /\ Grace \in Nat /\ (n >= a - d - 1 \/ n >= f - 1)
      BY <1>0, <1>1, <1>2, <2>1, <2>3
    <3> HIDE DEF m, a, b, f, g, o, d
    <3>2. m >= b - d - 1 \/ m >= g - 1
      BY <3>1
    <3> QED
      BY <3>2 DEF m, b, g, d
  <2> QED
    BY <2>2, <2>4
<1>6. CASE ~(age[t] > Timeout[t] /\ flownFor > 0)
  <2>1. age'[t] - Timeout[t] - 1 <= 0 \/ flownFor' - 1 <= 0
    BY <1>0, <1>1, <1>2, <1>6
  <2>2. \E n \in faultFor' : n >= 0
    <3>1. CASE faultFor = {}
      BY <1>3, <3>1
    <3>2. CASE faultFor # {}
      <4>1. PICK n \in faultFor : TRUE
        BY <3>2
      <4>2. Capped(n, Long) \in faultFor' /\ Capped(n, Long) >= 0
        BY <1>0, <1>3, <1>4, <3>2, <4>1
      <4> QED
        BY <4>2
    <3> QED
      BY <3>1, <3>2
  <2>3. \A n \in faultFor' : n \in Int
    BY <1>0, <1>3, <1>4
  <2>4. age'[t] \in Int /\ flownFor' \in Int
    BY <1>0, <1>1, <1>2
  <2>5. PICK n \in faultFor' : n >= 0
    BY <2>2
  <2>6. n >= age'[t] - Timeout[t] - 1 \/ n >= flownFor' - 1
    <3> DEFINE b == age'[t]  g == flownFor'  d == Timeout[t]
    <3>1. b - d - 1 <= 0 \/ g - 1 <= 0
      BY <2>1
    <3>2. n \in Int /\ n >= 0
      BY <2>3, <2>5
    <3>3. b \in Int /\ g \in Int /\ d \in Int
      BY <1>0, <2>4
    <3> HIDE DEF b, g, d
    <3>4. n >= b - d - 1 \/ n >= g - 1
      BY <3>1, <3>2, <3>3
    <3> QED
      BY <3>4 DEF b, g, d
  <2> QED
    BY <2>5, <2>6
<1> QED
  BY <1>5, <1>6

\* Between two ticks a silence only ends, and the clock of the fault stands still.
LEMMA LossStep ==
    ASSUME HealthTyped, LossInv, LossIsNoticed, [HealthNext]_healthVars
    PROVE  LossInv' /\ LossIsNoticed'
<1>1. CASE HealthTick
  <2>1. LossInv'
    BY <1>1, TickKeepsLoss
  <2>2. ASSUME NEW t \in Topic \ {"landed"}, age'[t] = Old(t), flownFor' = Long, valid'
        PROVE  FALSE
    <3>1. Timeout[t] \in Nat /\ Grace \in Nat /\ Long = Grace + 2
          /\ Old(t) = Timeout[t] + Grace + 2
      BY HealthConstants
    <3>2. PICK n \in faultFor' : n >= age'[t] - Timeout[t] - 1 \/ n >= flownFor' - 1
      BY <2>1, <2>2, <3>1 DEF LossInv
    <3>3. n \in Int
      BY <1>1, <3>2, FaultFacts DEF HealthTick
    <3>4. n > Grace
      BY <2>2, <3>1, <3>2, <3>3
    <3>5. airborne
      BY <1>1, <2>2, <3>1 DEF HealthTick
    <3>6. Aged[t] > Timeout[t]
      BY <1>1, <2>2, <3>1 DEF HealthTick
    <3>7. Faulty(Aged)
      BY <3>5, <3>6, SilenceIsFault
    <3>8. FlightHealthy(Aged) /\ faultFor' = FaultFor(Aged)
      BY <1>1, <2>2 DEF HealthTick
    <3> QED
      BY <3>1, <3>2, <3>3, <3>4, <3>7, <3>8 DEF FlightHealthy
  <2> QED
    BY <2>1, <2>2 DEF LossIsNoticed
<1>2. CASE ReceiveState \/ ReceiveLanded \/ \E t \in Sensor : ReceiveSensor(t)
  <2>1. PICK t \in Topic, g \in Grade : Received(t, g)
    BY <1>2, CallbackCases
  <2>2. /\ \A u \in Topic : age'[u] = 0 \/ age'[u] = age[u]
        /\ UNCHANGED <<faultFor, valid, flownFor>>
    BY <2>1, ReceivedFacts
  <2>3. \A u \in Topic : age'[u] > Timeout[u] \/ age'[u] = Old(u) => age'[u] = age[u]
    BY <2>2, HealthConstants
  <2> QED
    BY <2>2, <2>3, HealthConstants DEF LossInv, LossIsNoticed
<1>3. CASE Vehicle
  BY <1>3 DEF Vehicle, nodeVars, LossInv, LossIsNoticed
<1>4. CASE Restart
  <2>1. flownFor' = 0 /\ flownFor' # Long
    BY <1>4, HealthConstants DEF Restart, Started
  <2> QED
    BY <2>1 DEF LossInv, LossIsNoticed
<1>5. CASE UNCHANGED healthVars
  BY <1>5 DEF healthVars, nodeVars, LossInv, LossIsNoticed
<1> QED
  BY <1>1, <1>2, <1>3, <1>4, <1>5 DEF HealthNext

\* No topic can fall silent in flight unnoticed: when it has been silent for its
\* timeout and the grace time, the world is invalid, whatever the other topics do,
\* for every set of sensors, timeout and grace time (application_node.cpp:301-307).
THEOREM LossNoticed == HealthSpec => []LossIsNoticed
<1>1. HealthInit => LossInv /\ LossIsNoticed
  <2> SUFFICES ASSUME HealthInit PROVE LossInv /\ LossIsNoticed
    OBVIOUS
  <2>1. flownFor = 0 /\ flownFor # Long
    BY HealthConstants DEF HealthInit
  <2> QED
    BY <2>1 DEF LossInv, LossIsNoticed
<1>2. HealthTyped /\ LossInv /\ LossIsNoticed /\ [HealthNext]_healthVars
        => LossInv' /\ LossIsNoticed'
  BY LossStep
<1> QED
  BY <1>1, <1>2, HealthTypedCorrect, PTL DEF HealthSpec

-----------------------------------------------------------------------------
(* The preflight passes only for a vehicle that is disarmed.               *)

\* The State message that says `disarmed' was true when it came: since then the
\* vehicle can have been armed for no longer than the message is old.
ArmedInv ==
    /\ ~vehicle.armed => armedFor = 0
    /\ grade["state"] = "fit" /\ ~armed => armedFor <= age["state"]

\* What a step does to it, and to the verdict.
LEMMA ArmedStep ==
    ASSUME HealthTyped, ArmedInv, ReadyOnlyDisarmed, [HealthNext]_healthVars
    PROVE  ArmedInv' /\ ReadyOnlyDisarmed'
<1>0. /\ armedFor \in 0..Timeout["state"] + 1 /\ age["state"] \in 0..Old("state")
      /\ "state" \in Topic \ {"landed"} /\ Timeout["state"] \in Nat /\ Grace \in Nat
      /\ Old("state") = Timeout["state"] + Grace + 2
      /\ vehicle \in [armed : BOOLEAN, landed : BOOLEAN]
  BY HealthConstants DEF HealthTyped, HealthTypeOK
<1>1. CASE HealthTick
  <2>1. /\ age' = Aged /\ grade' = grade /\ armed' = armed /\ vehicle' = vehicle
        /\ preflight' = ~PreflightErrors(Aged)
    BY <1>1 DEF HealthTick
  <2>2. age'["state"] = IF age["state"] < Old("state") THEN age["state"] + 1
                        ELSE Old("state")
    BY <1>0, <2>1, AgedFacts
  <2>3. armedFor' = IF vehicle.armed
                      THEN IF armedFor < Timeout["state"] + 1 THEN armedFor + 1
                           ELSE Timeout["state"] + 1
                      ELSE 0
    BY <1>1 DEF HealthTick, Capped
  <2>4. armedFor <= age["state"] => armedFor' <= age'["state"]
    <3> DEFINE a == armedFor  b == armedFor'  c == age["state"]  d == age'["state"]
               o == Old("state")  l == Timeout["state"]
    <3>1. /\ a \in 0..l + 1 /\ c \in 0..o /\ l \in Nat /\ Grace \in Nat /\ o = l + Grace + 2
          /\ d = (IF c < o THEN c + 1 ELSE o)
          /\ b = 0 \/ b = (IF a < l + 1 THEN a + 1 ELSE l + 1)
      BY <1>0, <2>2, <2>3
    <3> HIDE DEF a, b, c, d, o, l
    <3>2. a <= c => b <= d
      BY <3>1
    <3> QED
      BY <3>2 DEF a, b, c, d
  <2>5. ArmedInv'
    BY <2>1, <2>3, <2>4 DEF ArmedInv
  <2>6. ASSUME preflight' PROVE armedFor' <= Timeout["state"]
    <3>1. Fresh("state", Aged) /\ grade["state"] = "fit" /\ ~armed
      BY <1>0, <2>1, <2>6 DEF PreflightErrors, SensorErrors
    <3>2. age'["state"] <= Timeout["state"] /\ armedFor' <= age'["state"]
      BY <2>1, <2>5, <3>1 DEF Fresh, ArmedInv
    <3>3. age'["state"] \in Int /\ armedFor' \in Int
      BY <1>0, <2>2, <2>3
    <3> QED
      BY <1>0, <3>2, <3>3
  <2> QED
    BY <2>5, <2>6 DEF ReadyOnlyDisarmed
<1>2. CASE ReceiveState \/ ReceiveLanded \/ \E t \in Sensor : ReceiveSensor(t)
  <2>1. PICK t \in Topic, g \in Grade :
          /\ Received(t, g)
          /\ \/ t # "state" /\ armed' = armed
             \/ t = "state" /\ g = "fit" /\ armed' = vehicle.armed
             \/ t = "state" /\ g = "unfit" /\ armed' = FALSE
    BY <1>2, CallbackCases
  <2>2. /\ age'[t] = 0 /\ grade'[t] = g
        /\ \A u \in Topic \ {t} : age'[u] = age[u] /\ grade'[u] = grade[u]
        /\ UNCHANGED <<preflight, vehicle, armedFor>>
    BY <2>1, ReceivedFacts
  <2>3. CASE t # "state"
    BY <1>0, <2>1, <2>2, <2>3 DEF ArmedInv, ReadyOnlyDisarmed
  <2>4. CASE t = "state" /\ g = "fit" /\ armed' = vehicle.armed
    BY <1>0, <2>2, <2>4 DEF ArmedInv, ReadyOnlyDisarmed
  <2>5. CASE t = "state" /\ g = "unfit"
    BY <2>2, <2>5 DEF ArmedInv, ReadyOnlyDisarmed
  <2> QED
    BY <2>1, <2>3, <2>4, <2>5
<1>3. CASE Vehicle
  <2>1. /\ UNCHANGED <<age, grade, armed, preflight>>
        /\ armedFor' = IF vehicle'.armed THEN armedFor ELSE 0
    BY <1>3 DEF Vehicle, nodeVars
  <2>2. armedFor' = armedFor \/ armedFor' = 0
    BY <2>1
  <2> QED
    BY <1>0, <2>1, <2>2 DEF ArmedInv, ReadyOnlyDisarmed
<1>4. CASE Restart
  <2>1. grade'["state"] = "unfit" /\ preflight' = FALSE /\ UNCHANGED <<vehicle, armedFor>>
    BY <1>0, <1>4 DEF Restart, Started
  <2> QED
    BY <2>1 DEF ArmedInv, ReadyOnlyDisarmed
<1>5. CASE UNCHANGED healthVars
  BY <1>5 DEF healthVars, nodeVars, ArmedInv, ReadyOnlyDisarmed
<1> QED
  BY <1>1, <1>2, <1>3, <1>4, <1>5 DEF HealthNext

\* The preflight never passes for a vehicle that has been armed for longer than the
\* State topic may be silent, for every set of sensors and timeouts, although the
\* node may be started again at any moment (preflight_errors).
THEOREM ReadyDisarmed == HealthSpec => []ReadyOnlyDisarmed
<1>1. HealthInit => ArmedInv /\ ReadyOnlyDisarmed
  <2> SUFFICES ASSUME HealthInit PROVE ArmedInv /\ ReadyOnlyDisarmed
    OBVIOUS
  <2>1. armedFor = 0 /\ age["state"] = Old("state") /\ grade["state"] = "unfit"
    BY HealthConstants DEF HealthInit
  <2>2. ~preflight
    BY DEF HealthInit
  <2> QED
    BY <2>1, <2>2 DEF ArmedInv, ReadyOnlyDisarmed
<1>2. HealthTyped /\ ArmedInv /\ ReadyOnlyDisarmed /\ [HealthNext]_healthVars
        => ArmedInv' /\ ReadyOnlyDisarmed'
  BY ArmedStep
<1> QED
  BY <1>1, <1>2, HealthTypedCorrect, PTL DEF HealthSpec

-----------------------------------------------------------------------------
(* The grace time is given.                                                *)

\* The clock of a fault is never ahead of the run of ticks with flight errors.
GraceInv == \A n \in faultFor : \E m \in sickFor : m >= n

\* A tick starts both clocks, or moves both on.
LEMMA TickKeepsGrace ==
    ASSUME HealthTyped, GraceInv, HealthTick
    PROVE  GraceInv'
<1> SUFFICES ASSUME NEW n \in faultFor' PROVE \E m \in sickFor' : m >= n
  BY DEF GraceInv
<1>1. /\ Faulty(Aged)
      /\ faultFor' = IF faultFor = {} THEN {0} ELSE {Capped(k, Long) : k \in faultFor}
  BY DEF HealthTick, FaultFor
<1>2. sickFor' = IF sickFor = {} THEN {0} ELSE {Capped(k, Long) : k \in sickFor}
  BY <1>1 DEF HealthTick
<1>3. \A k \in faultFor \cup sickFor :
        k \in 0..Long /\ Capped(k, Long) = IF k < Long THEN k + 1 ELSE Long
  BY HealthConstants, CappedFacts DEF HealthTyped, HealthTypeOK
<1>4. CASE faultFor = {}
  <2>1. n = 0
    BY <1>1, <1>4
  <2>2. \A m \in sickFor' : m >= 0
    BY <1>2, <1>3, HealthConstants
  <2>3. sickFor' # {}
    BY <1>2
  <2> QED
    BY <2>1, <2>2, <2>3
<1>5. CASE faultFor # {}
  <2>1. PICK k \in faultFor : n = Capped(k, Long)
    BY <1>1, <1>5
  <2>2. PICK m \in sickFor : m >= k
    BY <2>1 DEF GraceInv
  <2>3. Capped(m, Long) \in sickFor'
    BY <1>2, <2>2
  <2>4. Capped(m, Long) >= n
    BY <1>3, <2>1, <2>2, HealthConstants
  <2> QED
    BY <2>3, <2>4
<1> QED
  BY <1>4, <1>5

\* The invariant in every state.
LEMMA GraceCorrect == HealthSpec => []GraceInv
<1>1. HealthInit => GraceInv
  BY DEF HealthInit, GraceInv
<1>2. HealthTyped /\ GraceInv /\ [HealthNext]_healthVars => GraceInv'
  <2> SUFFICES ASSUME HealthTyped, GraceInv, [HealthNext]_healthVars PROVE GraceInv'
    OBVIOUS
  <2>1. CASE HealthTick
    BY <2>1, TickKeepsGrace
  <2>2. CASE ReceiveState \/ ReceiveLanded \/ \E t \in Sensor : ReceiveSensor(t)
    <3>1. PICK t \in Topic, g \in Grade : Received(t, g)
      BY <2>2, CallbackCases
    <3> QED
      BY <3>1 DEF Received, GraceInv
  <2>3. CASE Vehicle
    BY <2>3 DEF Vehicle, nodeVars, GraceInv
  <2>4. CASE Restart
    BY <2>4 DEF Restart, Started, GraceInv
  <2>5. CASE UNCHANGED healthVars
    BY <2>5 DEF healthVars, nodeVars, GraceInv
  <2> QED
    BY <2>1, <2>2, <2>3, <2>4, <2>5 DEF HealthNext
<1> QED
  BY <1>1, <1>2, HealthTypedCorrect, PTL DEF HealthSpec

\* In flight, only a fault that outlasted the grace time without one healthy tick
\* makes the world invalid, for every grace time (application_node.cpp:301-307).
THEOREM GraceGiven == HealthSpec => GraceIsGiven
<1>1. HealthTyped /\ GraceInv /\ [HealthNext]_healthVars =>
        [HealthTick /\ airborne /\ Observed /\ ~valid' =>
           \E n \in sickFor' : n > Grace]_healthVars
  <2> SUFFICES ASSUME HealthTyped, GraceInv, HealthTick, airborne, Observed, ~valid'
               PROVE  \E n \in sickFor' : n > Grace
    OBVIOUS
  <2>1. ~FlightHealthy(Aged) /\ faultFor' = FaultFor(Aged)
    BY DEF HealthTick
  <2>2. PICK n \in faultFor' : ~(n <= Grace)
    BY <2>1 DEF FlightHealthy
  <2>3. GraceInv'
    BY TickKeepsGrace
  <2>4. PICK m \in sickFor' : m >= n
    BY <2>2, <2>3 DEF GraceInv
  <2>5. n \in Int /\ m \in Int /\ Grace \in Int
    BY <2>1, <2>2, <2>4, FaultFacts, SickFacts, HealthConstants
  <2>6. m > Grace
    BY <2>2, <2>4, <2>5
  <2> QED
    BY <2>4, <2>6
<1> QED
  BY <1>1, HealthTypedCorrect, GraceCorrect, PTL DEF HealthSpec, GraceIsGiven
=============================================================================
