------------------------- MODULE FlightMission_proofs -------------------------
(***************************************************************************)
(* Machine-checked properties of a mission on the real vehicle, for every  *)
(* tree, safety configuration, weather, flight controller and timing: what *)
(* the tree names is what the executor flies, ARM is requested for a       *)
(* takeoff alone, a failure in flight leaves a landing in progress, and a  *)
(* mission that ends with a landing succeeds only on the ground.           *)
(***************************************************************************)
EXTENDS FlightMission, MissionEnd_proofs

-----------------------------------------------------------------------------
(* Px4ActionExecutor.                                                      *)

\* The executor apart from its world keeps what it is doing.
SameAction(p, q) ==
    /\ q.active = p.active /\ q.capability = p.capability
    /\ q.status = p.status /\ q.target = p.target
    /\ q.paused = p.paused /\ q.safetyLand = p.safetyLand

\* The fields of the executor's record.
LEMMA PxParts ==
    ASSUME NEW p \in Px4!State
    PROVE  /\ p.active \in ActionId \cup {NoAction}
           /\ p.capability \in Px4!Flying \cup {NoCapability}
           /\ p.status \in {"idle"} \cup Px4!Working \cup Px4!Over
           /\ p.target \in BOOLEAN /\ p.frozen \in BOOLEAN
           /\ p.paused \in BOOLEAN /\ p.safetyLand \in BOOLEAN
           /\ p.startedAt \in Int /\ p.pausedAt \in Int /\ p.pausedFor \in Int
           /\ p.origin \in BOOLEAN /\ p.world \in Px4!World
BY DEF Px4!State

\* observe() touches the world alone, and the world says what was received.
LEMMA ObserveFacts ==
    ASSUME NEW p \in Px4!State, NEW tel \in Px4!Telemetry
    PROVE  LET q == Px4!Observe(p, tel)
           IN  /\ q \in Px4!State /\ SameAction(p, q)
               /\ q.world.armed = tel.armed /\ q.world.mode = tel.mode
<1> DEFINE landed == tel.landed = "ground"
           airborne == tel.armed \/ tel.landed = "air" \/ (~landed /\ p.world.airborne)
           valid == tel.connected /\ tel.pose
           w == [p.world EXCEPT !.connected = tel.connected, !.armed = tel.armed,
                   !.mode = tel.mode, !.landed = landed, !.airborne = airborne,
                   !.pose = tel.pose, !.near = tel.near, !.valid = valid]
<1>1. /\ p.world \in Px4!World /\ landed \in BOOLEAN /\ airborne \in BOOLEAN
      /\ valid \in BOOLEAN
  BY PxParts
<1>2. Px4!Observe(p, tel) = [p EXCEPT !.world = w]
  BY DEF Px4!Observe
<1> HIDE DEF landed, airborne, valid
<1>3. /\ tel.connected \in BOOLEAN /\ tel.armed \in BOOLEAN /\ tel.pose \in BOOLEAN
      /\ tel.near \in BOOLEAN /\ tel.mode \in Mode \cup {NoMode}
  BY DEF Px4!Telemetry
<1>4. /\ w \in Px4!World
      /\ w.armed = tel.armed /\ w.mode = tel.mode
  <2>1. w.armed = tel.armed /\ w.mode = tel.mode
    BY <1>1 DEF Px4!World
  <2>2. w \in Px4!World
    BY <1>1, <1>3 DEF Px4!World
  <2> QED
    BY <2>1, <2>2
<1> HIDE DEF w
<1> QED
  BY <1>2, <1>4 DEF Px4!State, SameAction

\* A new world leaves the action alone.
LEMMA WorldFacts ==
    ASSUME NEW p \in Px4!State, NEW w \in Px4!World
    PROVE  LET q == [p EXCEPT !.world = w]
           IN  q \in Px4!State /\ SameAction(p, q) /\ q.world = w
BY DEF Px4!State, SameAction

\* pause() pauses the named action, unless it is a safety landing.
LEMMA PauseFacts ==
    ASSUME NEW p \in Px4!State, NEW a, NEW t \in Int
    PROVE  LET q == Px4!Pause(p, a, t)
           IN  /\ q \in Px4!State /\ q.active = p.active /\ q.world = p.world
               /\ q.safetyLand = p.safetyLand /\ q.capability = p.capability
               /\ p.active = NoAction \/ p.active # a \/ p.safetyLand => q = p
               /\ ~(p.active = NoAction \/ p.active # a \/ p.safetyLand) =>
                    q.status = "paused" /\ q.paused
<1> DEFINE q == Px4!Pause(p, a, t)
           at == IF p.paused THEN p.pausedAt ELSE t
           frozen == p.frozen \/ (~p.paused /\ p.world.pose)
           r == [p EXCEPT !.pausedAt = at, !.frozen = frozen,
                          !.paused = TRUE, !.status = "paused"]
<1>1. /\ p.frozen \in BOOLEAN /\ p.pausedAt \in Int /\ at \in Int
      /\ frozen \in BOOLEAN
  BY PxParts
<1>2. q = IF p.active = NoAction \/ p.active # a \/ p.safetyLand THEN p ELSE r
  BY DEF Px4!Pause
<1> HIDE DEF q, at, frozen
<1>3. r \in Px4!State
  BY <1>1 DEF Px4!State, Px4!Working
<1>4. /\ r.active = p.active /\ r.world = p.world /\ r.safetyLand = p.safetyLand
      /\ r.capability = p.capability
      /\ r.status = "paused" /\ r.paused
  BY <1>1 DEF Px4!State
<1> HIDE DEF r
<1>5. /\ q \in Px4!State /\ q.active = p.active /\ q.world = p.world
      /\ q.safetyLand = p.safetyLand /\ q.capability = p.capability
      /\ p.active = NoAction \/ p.active # a \/ p.safetyLand => q = p
      /\ ~(p.active = NoAction \/ p.active # a \/ p.safetyLand) =>
           q.status = "paused" /\ q.paused
  BY <1>2, <1>3, <1>4
<1> QED
  BY <1>5 DEF q

\* resume() lets the named action go on, if it was paused.
LEMMA ResumeFacts ==
    ASSUME NEW p \in Px4!State, NEW a, NEW t \in Int
    PROVE  LET q == Px4!Resume(p, a, t)
           IN  /\ q \in Px4!State /\ q.active = p.active /\ q.world = p.world
               /\ q.safetyLand = p.safetyLand /\ q.capability = p.capability
               /\ p.active = NoAction \/ p.active # a \/ ~p.paused => q = p
               /\ ~(p.active = NoAction \/ p.active # a \/ ~p.paused) =>
                    q.status = "running" /\ ~q.paused
<1> DEFINE q == Px4!Resume(p, a, t)
           for == p.pausedFor + (IF t > p.pausedAt THEN t - p.pausedAt ELSE 0)
           r == [p EXCEPT !.pausedFor = for, !.paused = FALSE, !.frozen = FALSE,
                          !.status = "running"]
<1>1. for \in Int
  BY PxParts
<1>2. q = IF p.active = NoAction \/ p.active # a \/ ~p.paused THEN p ELSE r
  BY DEF Px4!Resume
<1> HIDE DEF q, for
<1>3. r \in Px4!State
  BY <1>1 DEF Px4!State, Px4!Working
<1>4. /\ r.active = p.active /\ r.world = p.world /\ r.safetyLand = p.safetyLand
      /\ r.capability = p.capability
      /\ r.status = "running" /\ r.paused = FALSE
  BY <1>1 DEF Px4!State
<1> HIDE DEF r
<1>5. /\ q \in Px4!State /\ q.active = p.active /\ q.world = p.world
      /\ q.safetyLand = p.safetyLand /\ q.capability = p.capability
      /\ p.active = NoAction \/ p.active # a \/ ~p.paused => q = p
      /\ ~(p.active = NoAction \/ p.active # a \/ ~p.paused) =>
           q.status = "running" /\ ~q.paused
  BY <1>2, <1>3, <1>4
<1> QED
  BY <1>5 DEF q

\* cancel() leaves the named action cancelled, or a safety landing in its place.
LEMMA CancelFacts ==
    ASSUME NEW p \in Px4!State, NEW a, NEW t \in Int
    PROVE  LET q == Px4!Cancel(p, a, t)
           IN  /\ q \in Px4!State /\ q.active = p.active /\ q.world = p.world
               /\ p.active = NoAction \/ p.active # a => q = p
               /\ ~(p.active = NoAction \/ p.active # a) =>
                    q.safetyLand \/ q.status = "cancelled"
<1> DEFINE q == Px4!Cancel(p, a, t)
           down == [p EXCEPT !.capability = "land", !.status = "running",
                             !.safetyLand = TRUE, !.startedAt = t]
           off_ == [p EXCEPT !.status = "cancelled"]
<1>1. q \in {p, down, off_}
  BY DEF Px4!Cancel
<1>2. /\ p.active = NoAction \/ p.active # a => q = p
      /\ ~(p.active = NoAction \/ p.active # a) => q \in {down, off_}
  BY DEF Px4!Cancel
<1>3. down \in Px4!State
  BY DEF Px4!State, Px4!Flying, Px4!Working
<1>4. /\ down.active = p.active /\ down.world = p.world /\ down.safetyLand
  BY DEF Px4!State
<1>5. off_ \in Px4!State
  BY DEF Px4!State, Px4!Over
<1>6. off_.active = p.active /\ off_.world = p.world /\ off_.status = "cancelled"
  BY DEF Px4!State
<1> HIDE DEF q, down, off_
<1>7. /\ q \in Px4!State /\ q.active = p.active /\ q.world = p.world
      /\ p.active = NoAction \/ p.active # a => q = p
      /\ ~(p.active = NoAction \/ p.active # a) =>
           q.safetyLand \/ q.status = "cancelled"
  BY <1>1, <1>2, <1>3, <1>4, <1>5, <1>6
<1> QED
  BY <1>7 DEF q

\* update() ends what is done, and a safety landing on the ground.
LEMMA UpdateFacts ==
    ASSUME NEW p \in Px4!State, NEW t \in Int
    PROVE  LET u == Px4!Update(p, t)
           IN  /\ u \in Px4!State /\ u.active = p.active /\ u.world = p.world
               /\ u.capability = p.capability
               /\ u.safetyLand = p.safetyLand /\ u.paused = p.paused
               /\ p.active = NoAction \/ p.status \in Px4!Over => u = p
               /\ p.active # NoAction /\ p.status \notin Px4!Over /\ ~p.safetyLand =>
                    IF p.paused THEN u = p
                    ELSE u.status = IF Px4!Achieved(p, t) THEN "succeeded"
                                                         ELSE "running"
<1> DEFINE u == Px4!Update(p, t)
           put(status) == [p EXCEPT !.status = status]
           done == IF Px4!Achieved(p, t) THEN "succeeded" ELSE "running"
<1>1. ASSUME NEW status \in {"succeeded", "running", "cancelled"}
      PROVE  put(status) \in Px4!State
  BY <1>1 DEF Px4!State, Px4!Over, Px4!Working
<1>2. ASSUME NEW status \in {"succeeded", "running", "cancelled"}
      PROVE  /\ put(status).active = p.active /\ put(status).world = p.world
             /\ put(status).capability = p.capability
             /\ put(status).safetyLand = p.safetyLand
             /\ put(status).paused = p.paused /\ put(status).status = status
  BY <1>2 DEF Px4!State
<1>3. done \in {"succeeded", "running", "cancelled"}
  OBVIOUS
<1>4. u = IF p.active = NoAction \/ p.status \in Px4!Over THEN p
          ELSE IF p.safetyLand
            THEN IF p.world.landed /\ ~p.world.armed THEN put("cancelled") ELSE p
          ELSE IF p.paused THEN p
          ELSE put(done)
  BY DEF Px4!Update
<1> HIDE DEF u, put, done
<1>5. /\ u \in Px4!State /\ u.active = p.active /\ u.world = p.world
      /\ u.capability = p.capability
      /\ u.safetyLand = p.safetyLand /\ u.paused = p.paused
  BY <1>1, <1>2, <1>3, <1>4
<1>6. /\ p.active = NoAction \/ p.status \in Px4!Over => u = p
      /\ p.active # NoAction /\ p.status \notin Px4!Over /\ ~p.safetyLand =>
           IF p.paused THEN u = p ELSE u.status = done
  BY <1>2, <1>3, <1>4
<1> QED
  BY <1>5, <1>6 DEF u, done

\* The executor's initial record has its type.
LEMMA StartTyped == Px4!Start \in Px4!State
<1> DEFINE w == [connected |-> FALSE, armed |-> FALSE, mode |-> NoMode,
                 landed |-> TRUE, airborne |-> FALSE, pose |-> FALSE,
                 near |-> FALSE, valid |-> FALSE, preflightReady |-> TRUE]
<1>1. w \in Px4!World
  BY DEF Px4!World
<1>2. Px4!Start = [active |-> NoAction, capability |-> NoCapability,
                   status |-> "idle", target |-> FALSE, frozen |-> FALSE,
                   paused |-> FALSE, safetyLand |-> FALSE, startedAt |-> 0,
                   pausedAt |-> 0, pausedFor |-> 0, origin |-> FALSE, world |-> w]
  BY DEF Px4!Start
<1> HIDE DEF w
<1> QED
  BY <1>1, <1>2 DEF Px4!State

\* submit() of an executor that is free takes the action on.
LEMMA SubmitFacts ==
    ASSUME NEW p \in Px4!State, NEW a \in ActionId, NEW c \in Px4!Flying,
           NEW t \in Int
    PROVE  LET q == Px4!Submit(p, a, c, t)
           IN  /\ q \in Px4!State /\ q.world = p.world
               /\ ~Px4!Vacant(p) => q = p
               /\ Px4!Vacant(p) => /\ q.active = a /\ q.status = "accepted"
                                   /\ ~q.paused /\ ~q.safetyLand
                                   /\ q.capability = c
<1> DEFINE q == Px4!Submit(p, a, c, t)
           target == c # "land"
           origin == p.origin \/ c = "takeoff"
           busy == [p EXCEPT !.active = a, !.capability = c, !.status = "accepted",
                      !.target = target, !.frozen = FALSE, !.paused = FALSE]
           r == [busy EXCEPT !.safetyLand = FALSE, !.startedAt = t, !.pausedAt = 0,
                             !.pausedFor = 0, !.origin = origin]
<1>1. target \in BOOLEAN /\ origin \in BOOLEAN
  BY PxParts
<1>2. q = IF ~Px4!Vacant(p) THEN p ELSE r
  BY DEF Px4!Submit
<1> HIDE DEF q, target, origin
<1>3. busy \in Px4!State
  BY <1>1 DEF Px4!State, Px4!Working
<1>4. /\ busy.active = a /\ busy.status = "accepted" /\ busy.paused = FALSE
      /\ busy.capability = c /\ busy.world = p.world
  BY <1>3 DEF Px4!State
<1> HIDE DEF busy
<1>5. origin \in BOOLEAN /\ 0 \in Int
  BY <1>1
<1>6. r \in Px4!State
  BY <1>3, <1>5 DEF Px4!State
<1>7. /\ r.active = a /\ r.status = "accepted" /\ r.paused = FALSE
      /\ r.safetyLand = FALSE /\ r.capability = c /\ r.world = p.world
  BY <1>3, <1>4 DEF Px4!State
<1> HIDE DEF r
<1>8. /\ q \in Px4!State /\ q.world = p.world
      /\ ~Px4!Vacant(p) => q = p
      /\ Px4!Vacant(p) => /\ q.active = a /\ q.status = "accepted"
                          /\ ~q.paused /\ ~q.safetyLand /\ q.capability = c
  BY <1>2, <1>6, <1>7
<1> QED
  BY <1>8 DEF q

\* A refused submission changes nothing, or drops a finished action.
LEMMA RefuseFacts ==
    ASSUME NEW p \in Px4!State, NEW a
    PROVE  LET q == Px4!Refuse(p, a)
           IN  /\ q \in Px4!State /\ q.world = p.world
               /\ q = p \/ (q.active = NoAction /\ ~q.safetyLand)
<1> DEFINE q == Px4!Refuse(p, a)
           r == [Px4!Start EXCEPT !.origin = p.origin, !.world = p.world]
<1>1. q = p \/ q = r
  BY DEF Px4!Refuse
<1>2. p.origin \in BOOLEAN /\ p.world \in Px4!World
  BY PxParts
<1>3. r \in Px4!State
  BY <1>2, StartTyped DEF Px4!State
<1>4. r.active = NoAction /\ r.safetyLand = FALSE /\ r.world = p.world
  BY DEF Px4!Start
<1> HIDE DEF q, r
<1>5. /\ q \in Px4!State /\ q.world = p.world
      /\ q = p \/ (q.active = NoAction /\ ~q.safetyLand)
  BY <1>1, <1>3, <1>4
<1> QED
  BY <1>5 DEF q

\* ARM is part of a command only for a takeoff at work, in OFFBOARD, unarmed.
LEMMA CommandFacts ==
    ASSUME NEW p \in Px4!State, NEW t \in Int
    PROVE  LET c == Px4!UpdateCommand(p, t)
           IN  /\ c.mode \in Mode \cup {NoMode} /\ c.arm \in SUBSET BOOLEAN
               /\ TRUE \in c.arm =>
                    /\ p.active # NoAction /\ p.status \notin Px4!Over
                    /\ ~p.safetyLand /\ ~p.paused /\ p.capability = "takeoff"
                    /\ ~p.world.armed /\ p.world.mode = "OFFBOARD"
<1>1. {"OFFBOARD", "MANUAL", "AUTO.LAND"} \subseteq Mode
  BY FlightAssumption
<1>2. /\ Px4!Off!NoCommand.mode \in Mode \cup {NoMode}
      /\ Px4!Off!NoCommand.arm = {}
  BY DEF Px4!Off!NoCommand
<1>3. LET c == Px4!LandCommand(p.world)
      IN  c.mode \in Mode \cup {NoMode} /\ c.arm \in SUBSET BOOLEAN /\ TRUE \notin c.arm
  BY <1>1, <1>2 DEF Px4!LandCommand, Px4!Off!NoCommand
<1>4. LET c == Px4!ActiveCommand(p, t)
      IN  /\ c.mode \in Mode \cup {NoMode} /\ c.arm \in SUBSET BOOLEAN
          /\ TRUE \in c.arm =>
               /\ p.active # NoAction
               /\ ~p.safetyLand /\ ~p.paused /\ p.capability = "takeoff"
               /\ ~p.world.armed /\ p.world.mode = "OFFBOARD"
  BY <1>1, <1>2, <1>3 DEF Px4!ActiveCommand, Px4!Off!NoCommand
<1> QED
  BY <1>2, <1>4 DEF Px4!UpdateCommand

-----------------------------------------------------------------------------
(* Offboard.                                                               *)

\* The fields of the adapter's record.
LEMMA OffParts ==
    ASSUME NEW o \in Off!State
    PROVE  /\ o.mode \in Mode \cup {NoMode} /\ o.armed \in BOOLEAN
           /\ o.modeCall \in SUBSET Off!ModeCall /\ o.armCall \in SUBSET Off!ArmCall
           /\ o.lastModeAt \in Int /\ o.lastArmAt \in Int
BY DEF Off!State

\* At most one ARM call is open.
OneCall(o) == \A c, d \in o.armCall : c = d

\* What poll() and observe_flight_state() leave: no call that was not open.
LEMMA PolledFacts ==
    ASSUME NEW o \in Off!State, NEW answers, NEW t \in Int,
           NEW armed \in BOOLEAN, NEW mode \in Mode \cup {NoMode}
    PROVE  LET polled == Off!Observe(Off!Poll(o, answers, t), armed, mode)
           IN  /\ polled \in Off!State /\ polled.armed = armed /\ polled.mode = mode
               /\ polled.armCall \subseteq o.armCall
<1> DEFINE modes == Off!Closed(o.modeCall, "mode" \in answers, t)
           arms == Off!Closed(o.armCall, "arm" \in answers, t)
           p == [o EXCEPT !.modeCall = modes, !.armCall = arms]
           q == [p EXCEPT !.armed = armed, !.mode = mode]
<1>1. modes \subseteq o.modeCall /\ arms \subseteq o.armCall
  BY DEF Off!Closed
<1>2. Off!Observe(Off!Poll(o, answers, t), armed, mode) = q
  BY DEF Off!Observe, Off!Poll
<1> HIDE DEF modes, arms
<1>3. modes \in SUBSET Off!ModeCall /\ arms \in SUBSET Off!ArmCall
  BY <1>1, OffParts
<1>4. p \in Off!State
  BY <1>3 DEF Off!State
<1>5. p.armCall = arms
  BY DEF Off!State
<1> HIDE DEF p
<1>6. q \in Off!State
  BY <1>4 DEF Off!State
<1>7. q.armed = armed /\ q.mode = mode /\ q.armCall = arms
  BY <1>4, <1>5 DEF Off!State
<1> HIDE DEF q
<1> QED
  BY <1>1, <1>2, <1>6, <1>7

\* request_mode() touches the mode call alone.
LEMMA RequestModeFacts ==
    ASSUME NEW o \in Off!State, NEW mode \in Mode, NEW t \in Int, NEW ready
    PROVE  LET q == Off!RequestMode(o, mode, t, ready)
           IN  /\ q \in Off!State /\ q.armCall = o.armCall /\ q.armed = o.armed
<1> DEFINE call == IF ready THEN {[value |-> mode, at |-> t]} ELSE {}
           r == [o EXCEPT !.lastModeAt = t, !.modeCall = call]
           q == Off!RequestMode(o, mode, t, ready)
<1>1. call \in SUBSET Off!ModeCall
  BY DEF Off!ModeCall
<1>2. q = o \/ q = r
  BY DEF Off!RequestMode
<1> HIDE DEF call, q
<1>3. r \in Off!State
  BY <1>1 DEF Off!State
<1>4. r.armCall = o.armCall /\ r.armed = o.armed
  BY DEF Off!State
<1> HIDE DEF r
<1>5. q \in Off!State /\ q.armCall = o.armCall /\ q.armed = o.armed
  BY <1>2, <1>3, <1>4
<1> QED
  BY <1>5 DEF q

\* request_arm() opens at most one call, which asks for the value given.
LEMMA RequestArmFacts ==
    ASSUME NEW o \in Off!State, NEW value \in BOOLEAN, NEW t \in Int, NEW ready
    PROVE  LET q == Off!RequestArm(o, value, t, ready)
           IN  /\ q \in Off!State
               /\ q.armCall \in {o.armCall, {}, {[value |-> value, at |-> t]}}
<1> DEFINE call == IF ready THEN {[value |-> value, at |-> t]} ELSE {}
           r == [o EXCEPT !.lastArmAt = t, !.armCall = call]
           q == Off!RequestArm(o, value, t, ready)
<1>1. call \in SUBSET Off!ArmCall /\ call \in {{}, {[value |-> value, at |-> t]}}
  BY DEF Off!ArmCall
<1>2. q = o \/ q = r
  BY DEF Off!RequestArm
<1> HIDE DEF call, q
<1>3. r \in Off!State
  BY <1>1 DEF Off!State
<1>4. r.armCall = call
  BY DEF Off!State
<1> HIDE DEF r
<1>5. q \in Off!State /\ q.armCall \in {o.armCall, {}, {[value |-> value, at |-> t]}}
  BY <1>1, <1>2, <1>3, <1>4
<1> QED
  BY <1>5 DEF q

\* apply() asks for ARM or DISARM only when the command does and the vehicle
\* reported the opposite.
LEMMA ApplyFacts ==
    ASSUME NEW o \in Off!State, NEW c, c.mode \in Mode \cup {NoMode},
           NEW t \in Int, NEW ready
    PROVE  LET q == Off!Apply(o, c, t, ready)
           IN  /\ q \in Off!State
               /\ \/ q.armCall \in {o.armCall, {}}
                  \/ /\ q.armCall = {[value |-> ~o.armed, at |-> t]}
                     /\ ~(c.arm \subseteq {o.armed})
<1> DEFINE moded == IF c.mode \in {NoMode, o.mode} THEN o
                    ELSE Off!RequestMode(o, c.mode, t, ready)
           q == Off!Apply(o, c, t, ready)
<1>1. q = IF c.arm \subseteq {o.armed} THEN moded
          ELSE Off!RequestArm(moded, ~o.armed, t, ready)
  BY DEF Off!Apply
<1>2. moded \in Off!State /\ moded.armCall = o.armCall
  <2>1. CASE c.mode \in {NoMode, o.mode}
    BY <2>1
  <2>2. CASE c.mode \notin {NoMode, o.mode}
    <3>1. c.mode \in Mode
      BY <2>2
    <3> QED
      BY <2>2, <3>1, RequestModeFacts
  <2> QED
    BY <2>1, <2>2
<1> HIDE DEF moded, q
<1>3. (~o.armed) \in BOOLEAN
  OBVIOUS
<1>4. LET r == Off!RequestArm(moded, ~o.armed, t, ready)
      IN  /\ r \in Off!State
          /\ r.armCall \in {moded.armCall, {}, {[value |-> ~o.armed, at |-> t]}}
  BY <1>2, <1>3, RequestArmFacts
<1>5. /\ q \in Off!State
      /\ \/ q.armCall \in {o.armCall, {}}
         \/ /\ q.armCall = {[value |-> ~o.armed, at |-> t]}
            /\ ~(c.arm \subseteq {o.armed})
  BY <1>1, <1>2, <1>4
<1> QED
  BY <1>5 DEF q

-----------------------------------------------------------------------------
(* Types, and what one tick makes of the executor and the adapter.         *)

\* The part of FlightTypeOK that is about the vehicle.
FlightTyped ==
    /\ px \in Px4!State /\ off \in Off!State /\ telemetry \in Px4!Telemetry
    /\ faultSince \in SUBSET Int /\ wire \in SUBSET Request
    /\ fcu \in Vehicle /\ answered \subseteq Service

\* What a tick receives is telemetry.
LEMMA ReceivedType ==
    ASSUME FlightTyped, NEW sample \in Samples
    PROVE  Received(sample) \in Px4!Telemetry
<1> DEFINE news == [telemetry EXCEPT !.connected = TRUE,
                              !.armed = fcu.armed, !.mode = fcu.mode]
           lost == [telemetry EXCEPT !.connected = FALSE,
                              !.armed = FALSE, !.mode = NoMode]
           state == CASE sample.state = "none" -> telemetry
                      [] sample.state = "news" -> news
                      [] sample.state = "lost" -> lost
           landed == CASE sample.landed = "none" -> state.landed
                       [] sample.landed = "news" -> fcu.landed
                       [] sample.landed = "undefined" -> "undefined"
           tel == [state EXCEPT !.pose = sample.pose, !.near = sample.near,
                                !.landed = landed]
<1>1. /\ telemetry \in Px4!Telemetry /\ fcu.armed \in BOOLEAN
      /\ fcu.mode \in Mode \cup {NoMode} /\ fcu.landed \in {"ground", "air"}
  BY DEF FlightTyped, Vehicle
<1>2. /\ sample.state \in {"none", "news", "lost"}
      /\ sample.landed \in {"none", "news", "undefined"}
      /\ sample.pose \in BOOLEAN /\ sample.near \in BOOLEAN
  BY DEF Samples
<1>3. news \in Px4!Telemetry /\ lost \in Px4!Telemetry
  BY <1>1 DEF Px4!Telemetry
<1>4. Received(sample) = tel
  BY DEF Received
<1> HIDE DEF news, lost
<1>5. state \in Px4!Telemetry
  BY <1>1, <1>2, <1>3
<1> HIDE DEF state
<1>6. state.landed \in {"undefined", "ground", "air"}
  BY <1>5 DEF Px4!Telemetry
<1>7. landed \in {"undefined", "ground", "air"}
  BY <1>1, <1>2, <1>6
<1> HIDE DEF landed
<1>8. tel \in Px4!Telemetry
  BY <1>2, <1>5, <1>7 DEF Px4!Telemetry
<1> QED
  BY <1>4, <1>8

\* observe() and the world of the tick, typed.
LEMMA NoticedFacts ==
    ASSUME FlightTyped, NEW sample \in Samples, NEW time \in Int
    PROVE  /\ Noticed(sample) \in Px4!State /\ SameAction(px, Noticed(sample))
           /\ Received(sample).armed \in BOOLEAN
           /\ Received(sample).mode \in Mode \cup {NoMode}
           /\ Seen(sample, time) \in Px4!World
           /\ Seen(sample, time).armed = Received(sample).armed
<1> DEFINE tel == Received(sample)
           world == Noticed(sample).world
           valid == world.valid /\ FlightHealthy(sample, time)
           ready == ControlEnabled /\ ~sample.preflightErrors
           seen == [world EXCEPT !.valid = valid, !.preflightReady = ready]
<1>1. tel \in Px4!Telemetry
  BY ReceivedType
<1>2. Noticed(sample) = Px4!Observe(px, tel) /\ px \in Px4!State
  BY DEF Noticed, FlightTyped
<1>3. Seen(sample, time) = seen
  BY DEF Seen
<1> HIDE DEF tel, seen
<1>4. /\ Noticed(sample) \in Px4!State /\ SameAction(px, Noticed(sample))
      /\ Noticed(sample).world.armed = tel.armed
  BY <1>1, <1>2, ObserveFacts
<1>5. world \in Px4!World /\ world.armed = tel.armed
  BY <1>4, PxParts
<1> HIDE DEF world
<1>6. valid \in BOOLEAN
  <2>1. world.valid \in BOOLEAN
    BY <1>5 DEF Px4!World
  <2> QED
    BY <2>1
<1>7. ready \in BOOLEAN
  BY FlightAssumption DEF Samples
<1> HIDE DEF valid, ready
<1>8. seen \in Px4!World
  BY <1>5, <1>6, <1>7 DEF seen, Px4!World
<1>9. seen.armed = world.armed
  BY <1>5 DEF seen, Px4!World
<1>10. tel.armed \in BOOLEAN /\ tel.mode \in Mode \cup {NoMode}
  BY <1>1 DEF Px4!Telemetry
<1> QED
  BY <1>3, <1>4, <1>5, <1>8, <1>9, <1>10 DEF tel

\* The executor when update() is called: `called', with the world of the tick.
Updating(sample, time, called) == [called EXCEPT !.world = Seen(sample, time)]

\* The executor may ask for ARM.
MayArm(p) ==
    /\ p.active # NoAction /\ p.status \notin Px4!Over
    /\ ~p.safetyLand /\ ~p.paused /\ p.capability = "takeoff"
    /\ ~p.world.armed /\ p.world.mode = "OFFBOARD"

\* The vehicle is seen on the ground and disarmed.
Grounded(w) == w.landed /\ ~w.armed

\* ARM is requested in this step.
Arming ==
    /\ off'.armCall # off.armCall /\ off'.armCall # {}
    /\ \E c \in off'.armCall : c.value

\* One tick keeps the types; update() has had the world of the tick; a call that
\* is opened for ARM is opened for an executor that may ask for it.
LEMMA FlownFacts ==
    ASSUME FlightTyped, NEW sample \in Samples, NEW time \in Int,
           NEW called \in Px4!State, Flown(sample, time, called)
    PROVE  LET p == Updating(sample, time, called)
           IN  /\ FlightTyped'
               /\ p \in Px4!State /\ SameAction(called, p)
               /\ px' = Px4!Update(p, time)
               /\ OneCall(off) => OneCall(off')
               /\ OneCall(off) /\ Arming => MayArm(p)
<1> DEFINE p == Updating(sample, time, called)
           tel == Received(sample)
           command == Px4!UpdateCommand(p, time)
           polled == Off!Observe(Off!Poll(off, answered, time), tel.armed, tel.mode)
<1>1. /\ px' = Px4!Update(p, time)
      /\ off' = Off!Apply(polled, command, time, sample.ready)
      /\ telemetry' = tel /\ faultSince' = FaultSince(sample, time)
      /\ answered' = {} /\ fcu' = fcu
      /\ wire' = wire
           \cup {[service |-> "mode", value |-> c.value, at |-> c.at] :
                   c \in off'.modeCall \ polled.modeCall}
           \cup {[service |-> "arm", value |-> c.value, at |-> c.at] :
                   c \in off'.armCall \ polled.armCall}
  BY DEF Flown, Updating
<1>2. p \in Px4!State /\ SameAction(called, p) /\ p.world = Seen(sample, time)
  BY NoticedFacts, WorldFacts DEF Updating
<1>3. tel \in Px4!Telemetry /\ tel.armed \in BOOLEAN /\ tel.mode \in Mode \cup {NoMode}
  BY ReceivedType, NoticedFacts
<1> HIDE DEF p, tel
<1>4. px' \in Px4!State
  BY <1>1, <1>2, UpdateFacts
<1>5. /\ polled \in Off!State /\ polled.armed = tel.armed
      /\ polled.armCall \subseteq off.armCall
  BY <1>3, PolledFacts DEF FlightTyped
<1>6. /\ command.mode \in Mode \cup {NoMode} /\ command.arm \in SUBSET BOOLEAN
      /\ TRUE \in command.arm => MayArm(p)
  BY <1>2, CommandFacts DEF MayArm
<1> HIDE DEF command, polled
<1>7. /\ off' \in Off!State
      /\ \/ off'.armCall \in {polled.armCall, {}}
         \/ /\ off'.armCall = {[value |-> ~polled.armed, at |-> time]}
            /\ ~(command.arm \subseteq {polled.armed})
  BY <1>1, <1>5, <1>6, ApplyFacts
<1>8. faultSince' \in SUBSET Int
  BY <1>1 DEF FaultSince, FlightTyped
<1>9. wire' \in SUBSET Request
  <2>1. \A c \in off'.modeCall : c.value \in Mode /\ c.at \in Int
    BY <1>7, OffParts DEF Off!ModeCall
  <2>2. \A c \in off'.armCall : c.value \in BOOLEAN /\ c.at \in Int
    BY <1>7, OffParts DEF Off!ArmCall
  <2>3. \A c \in off'.modeCall :
          [service |-> "mode", value |-> c.value, at |-> c.at] \in Request
    BY <2>1 DEF Request
  <2>4. \A c \in off'.armCall :
          [service |-> "arm", value |-> c.value, at |-> c.at] \in Request
    BY <2>2 DEF Request
  <2> QED
    BY <1>1, <2>3, <2>4 DEF FlightTyped
<1>10. FlightTyped'
  BY <1>1, <1>3, <1>4, <1>7, <1>8, <1>9 DEF FlightTyped
<1>11. OneCall(off) => OneCall(off')
  BY <1>5, <1>7 DEF OneCall
<1>12. OneCall(off) /\ Arming => MayArm(p)
  <2> SUFFICES ASSUME OneCall(off), Arming PROVE MayArm(p)
    OBVIOUS
  <2>1. CASE off'.armCall = polled.armCall
    BY <1>5, <2>1 DEF OneCall, Arming
  <2>2. CASE /\ off'.armCall = {[value |-> ~polled.armed, at |-> time]}
             /\ ~(command.arm \subseteq {polled.armed})
    <3>1. polled.armed = FALSE
      <4> DEFINE v == ~polled.armed
      <4>1. \E c \in {[value |-> v, at |-> time]} : c.value
        BY <2>2 DEF Arming
      <4>2. polled.armed \in {TRUE, FALSE}
        BY <1>3, <1>5
      <4> HIDE DEF v
      <4>3. \A c \in {[value |-> v, at |-> time]} : c.value = v
        OBVIOUS
      <4>4. v
        BY Zenon, <4>1, <4>3
      <4> QED
        BY Zenon, <4>2, <4>4 DEF v
    <3>2. PICK x \in command.arm : x # FALSE
      BY Zenon, <2>2, <3>1
    <3>3. x \in {TRUE, FALSE}
      BY Zenon, <1>6
    <3>4. TRUE \in command.arm
      BY Zenon, <3>2, <3>3
    <3> QED
      BY <1>6, <3>4
  <2> QED
    BY <1>7, <2>1, <2>2 DEF Arming
<1> QED
  BY <1>1, <1>2, <1>10, <1>11, <1>12 DEF p

-----------------------------------------------------------------------------
(* A flight is a run of MissionTree.                                        *)

\* What a tick hands to the tree is a world and a table the tree is ready for.
LEMMA TickFits ==
    ASSUME FlightTyped, NEW sample \in Samples, NEW time \in Int
    PROVE  /\ Judged(sample, time) \in Sense
           /\ Tabled(sample, time) \in CapabilityTable
<1> DEFINE world == Seen(sample, time)
           false == IF sample.lcpHealthy THEN {} ELSE {"lcp_healthy"}
<1>1. Seen(sample, time) \in Px4!World
  BY NoticedFacts
<1>2. Judged(sample, time) =
        [connected |-> world.connected, valid |-> world.valid, age |-> 0,
         airborne |-> world.airborne, armed |-> world.armed, falseFacts |-> false]
  BY DEF Judged
<1>3. world \in Px4!World
  BY <1>1
<1> HIDE DEF world
<1>4. /\ world.connected \in BOOLEAN /\ world.valid \in BOOLEAN
      /\ world.airborne \in BOOLEAN /\ world.armed \in BOOLEAN
  BY <1>3 DEF Px4!World
<1>5. false \in SUBSET {"lcp_healthy"}
  OBVIOUS
<1> HIDE DEF false
<1>6. Judged(sample, time) \in Sense
  BY <1>2, <1>4, <1>5, FlightAssumption
<1>7. Tabled(sample, time) \in [Capability \cup {NoCapability} -> Availability]
  BY FlightAssumption DEF Tabled, Px4!Capabilities, Availability
<1> QED
  BY <1>6, <1>7, FlightAssumption

\* A tick begins at a time and with a sample of the environment.
LEMMA FlightBegins ==
    ASSUME FlightBegin
    PROVE  \E sample \in Samples, time \in Int :
             /\ \/ FlightTickTerminal(sample, time)
                \/ FlightTickPaused(sample, time)
                \/ FlightTickAborted(sample, time)
                \/ \E seen \in SUBSET Event : FlightTickAllowed(sample, time, seen)
             /\ time \in Times
<1>1. PICK time \in Times :
        \E sample \in IF time < Calm THEN Sample ELSE CalmSample :
           \/ FlightTickTerminal(sample, time)
           \/ FlightTickPaused(sample, time)
           \/ FlightTickAborted(sample, time)
           \/ \E seen \in SUBSET Event : FlightTickAllowed(sample, time, seen)
  BY DEF FlightBegin
<1>2. time \in Int
  BY <1>1, EnvironmentAssumption DEF Times
<1> QED
  BY <1>1, <1>2, FlightAssumption

\* What feedback() answers is a feedback status.
LEMMA FeedbackTyped ==
    ASSUME NEW p \in Px4!State, NEW a
    PROVE  Px4!Feedback(p, a) \in FeedbackStatus
BY PxParts DEF Px4!Feedback, FeedbackStatus, Px4!Working, Px4!Over

\* The actions of the tree carry ids and capabilities the executor knows.
LEMMA FlightActionFacts ==
    ASSUME NEW n \in Action
    PROVE  n \in Node /\ ActionOf[n] \in ActionId /\ CapabilityOf[n] \in Px4!Flying
BY AttributeAssumption, FlightAssumption DEF Action

\* The executor `called' by a tick, whatever the tree decided, is well formed.
LEMMA CalledTyped ==
    ASSUME FlightTyped, NEW sample \in Samples, NEW time \in Int, NEW a
    PROVE  /\ Noticed(sample) \in Px4!State
           /\ Px4!Pause(Noticed(sample), a, time) \in Px4!State
           /\ Px4!Cancel(Noticed(sample), a, time) \in Px4!State
           /\ Px4!Resume(Noticed(sample), a, time) \in Px4!State
BY NoticedFacts, PauseFacts, CancelFacts, ResumeFacts

\* The vehicle, the wire and the executor keep their types, and every step of a
\* flight is one of the mission, or leaves the mission alone.
LEMMA FlightTypedStep ==
    ASSUME TypeOK, FlightTyped, [FlightNext]_allVars
    PROVE  FlightTyped' /\ [Next]_vars
<1>1. CASE FlightBegin
  <2>1. PICK sample \in Samples, time \in Int :
          /\ \/ FlightTickTerminal(sample, time)
             \/ FlightTickPaused(sample, time)
             \/ FlightTickAborted(sample, time)
             \/ \E seen \in SUBSET Event : FlightTickAllowed(sample, time, seen)
          /\ time \in Times
    BY <1>1, FlightBegins
  <2>2. \E called \in Px4!State : Flown(sample, time, called)
    <3>1. /\ Noticed(sample) \in Px4!State
          /\ Px4!Pause(Noticed(sample), runtime.activeActionId, time) \in Px4!State
          /\ Px4!Cancel(Noticed(sample), runtime.activeActionId, time) \in Px4!State
          /\ Px4!Resume(Noticed(sample), runtime.activeActionId, time) \in Px4!State
      BY CalledTyped
    <3> QED
      BY <2>1, <3>1 DEF FlightTickTerminal, FlightTickPaused, FlightTickAborted,
                        FlightTickAllowed
  <2>3. FlightTyped'
    BY <2>2, FlownFacts
  <2>4. Judged(sample, time) \in Sense /\ Tabled(sample, time) \in CapabilityTable
    BY TickFits
  <2>5. BeginTick
    BY <2>1, <2>4 DEF FlightTickTerminal, FlightTickPaused, FlightTickAborted,
                      FlightTickAllowed, BeginTick
  <2> QED
    BY <2>3, <2>5 DEF Next
<1>2. ASSUME NEW n \in Node, FlightOther(n) PROVE FlightTyped' /\ [Next]_vars
  <2>1. Walk
    BY <1>2 DEF FlightOther, Walk
  <2> QED
    BY <1>2, <2>1 DEF FlightOther, FlightTyped, flightVars, fcuVars, Next
<1>3. ASSUME NEW n \in Action, FlightRefuse(n) PROVE FlightTyped' /\ [Next]_vars
  <2>1. Walk
    BY <1>3, FlightActionFacts DEF FlightRefuse, Walk
  <2>2. px' \in Px4!State
    BY <1>3, RefuseFacts DEF FlightRefuse, FlightTyped
  <2> QED
    BY <1>3, <2>1, <2>2 DEF FlightRefuse, FlightTyped, fcuVars, Next
<1>4. ASSUME NEW n \in Action, FlightFollow(n) PROVE FlightTyped' /\ [Next]_vars
  <2>1. now \in Int /\ px \in Px4!State
    BY DEF TypeOK, FlightTyped
  <2>2. Px4!Submit(px, ActionOf[n], CapabilityOf[n], now) \in Px4!State
    BY <2>1, FlightActionFacts, SubmitFacts
  <2>3. px' \in Px4!State
    BY <1>4, <2>1, <2>2 DEF FlightFollow
  <2>4. Walk
    BY <1>4, <2>3, FeedbackTyped, FlightActionFacts DEF FlightFollow, Walk
  <2> QED
    BY <1>4, <2>3, <2>4 DEF FlightFollow, FlightTyped, fcuVars, Next
<1>5. CASE FlightFinish
  BY <1>5 DEF FlightFinish, FlightTyped, flightVars, fcuVars, Next, Walk
<1>6. CASE FlightController
  <2>1. UNCHANGED <<vars, flightVars>>
    BY <1>6 DEF FlightController, Obey, TurnDown, Lose, LiftOff, TouchDown
  <2>2. answered' \subseteq Service /\ wire' \in SUBSET Request
    BY <1>6 DEF FlightController, Obey, TurnDown, Lose, LiftOff, TouchDown,
                Answering, FlightTyped, Request, Service
  <2>3. fcu' \in Vehicle
    BY <1>6 DEF FlightController, Obey, TurnDown, Lose, LiftOff, TouchDown,
                FlightTyped, Request, Vehicle
  <2> QED
    BY <2>1, <2>2, <2>3 DEF FlightTyped, flightVars
<1>7. CASE UNCHANGED allVars
  BY <1>7 DEF allVars, flightVars, fcuVars, FlightTyped
<1> QED
  BY <1>1, <1>2, <1>3, <1>4, <1>5, <1>6, <1>7 DEF FlightNext, FlightWalk

\* The types hold when the node comes up.
LEMMA FlightInitTyped == FlightInit => FlightTyped
<1> SUFFICES ASSUME FlightInit PROVE FlightTyped
  OBVIOUS
<1>1. /\ px = Px4!Start /\ off = Off!Start /\ faultSince = {}
      /\ wire = {} /\ answered = {}
      /\ telemetry = [connected |-> FALSE, armed |-> FALSE, mode |-> NoMode,
                      landed |-> "undefined", pose |-> FALSE, near |-> FALSE]
      /\ fcu = [armed |-> FALSE, mode |-> "MANUAL", landed |-> "ground"]
  BY Zenon DEF FlightInit
<1>2. Off!Start \in Off!State
  <2>1. -RequestInterval \in Int
    BY FlightAssumption
  <2> QED
    BY <2>1 DEF Off!Start, Off!State
<1>3. telemetry \in Px4!Telemetry
  BY <1>1 DEF Px4!Telemetry
<1>4. fcu \in Vehicle
  BY <1>1, FlightAssumption DEF Vehicle
<1> QED
  BY <1>1, <1>2, <1>3, <1>4, StartTyped DEF FlightTyped

\* Every flight is a run of MissionTree, and the executor, the adapter, the
\* telemetry and the requests under way keep their types.
LEMMA FlightCorrect == FlightSpec => Spec /\ [](TypeOK /\ FlightTyped)
<1>1. FlightInit => Init /\ TypeOK /\ FlightTyped
  BY InitTyped, FlightInitTyped DEF FlightInit
<1>2. TypeOK /\ FlightTyped /\ [FlightNext]_allVars
        => [Next]_vars /\ (TypeOK /\ FlightTyped)'
  BY FlightTypedStep, TypeStep
<1> QED
  BY <1>1, <1>2, PTL DEF FlightSpec, Spec

\* In every flight the executor, the adapter, the mission and the vehicle keep
\* their types: whatever the sensors report, the requests lost and the answers
\* that come late.
THEOREM FlightTypeCorrect == FlightSpec => []FlightTypeOK
<1>1. TypeOK /\ FlightTyped => FlightTypeOK
  BY DEF FlightTypeOK, FlightTyped
<1> QED
  BY <1>1, FlightCorrect, PTL

\* Every flight is a run of MissionTree: what is proved of the tree for any
\* executor holds with this one.
THEOREM FlightRefines == FlightSpec => Spec
BY FlightCorrect, PTL

-----------------------------------------------------------------------------
(* What the tree names is what the executor flies.                          *)

\* The executor has nothing to do.
Rests(p) == p.active = NoAction \/ p.status \in Px4!Over

\* Action a is flown or paused with the mission, or update() has just finished
\* it and the walk of this tick has yet to ask for it.
Serves(a) ==
    /\ px.active = a
    /\ \/ /\ px.status \in Px4!Working
          /\ px.paused <=> runtime.status = "paused"
          /\ px.paused <=> px.status = "paused"
       \/ phase = "enter" /\ px.status = "succeeded" /\ ~px.paused

\* Some node awaits the action.
Awaits(a) == \E n \in Action : ActionOf[n] = a /\ n \in RunningLeaf

\* The inductive invariant: the executor serves the action that the runtime
\* names and a node awaits, and rests when there is none; a mission that is over
\* leaves a resting executor or a landing in progress.
FollowInv ==
    /\ ~terminal => ~px.safetyLand
    /\ ~terminal /\ runtime.activeActionId = NoAction => Rests(px)
    /\ ~terminal /\ runtime.activeActionId # NoAction =>
         Awaits(runtime.activeActionId) /\ Serves(runtime.activeActionId)
    /\ terminal => Rests(px) \/ px.safetyLand
    /\ OneCall(off)

\* What is known of the walk of a mission without reactive nodes.
WalkInv == StackInv /\ BranchInv /\ ActionInv /\ StatusInv

\* update() leaves a resting executor, and a safety landing, as they are.
LEMMA UpdateRests ==
    ASSUME NEW p \in Px4!State, NEW t \in Int
    PROVE  /\ Rests(p) => Px4!Update(p, t) = p
           /\ Rests(p) \/ p.safetyLand =>
                Rests(Px4!Update(p, t)) \/ Px4!Update(p, t).safetyLand
BY UpdateFacts DEF Rests

\* A tick that does not walk the tree keeps the names of the active action and
\* the results of the nodes.
LEMMA PrologueFacts ==
    ASSUME TypeOK, NEW world \in WorldState, NEW time \in Int, NEW table, NEW seen,
           \/ TickTerminal(world, time)
           \/ TickPaused(world, time, table)
           \/ TickAborted(world, time, table)
           \/ TickAllowed(world, time, table, seen)
    PROVE  /\ runtime'.activeActionId = runtime.activeActionId
           /\ last' = last /\ phase = "out"
           /\ \A a : Awaits(a)' <=> Awaits(a)
<1>1. /\ Observed(world, time) \in MissionRuntime
      /\ Observed(world, time).activeActionId = runtime.activeActionId
  BY ObservedType
<1>2. last' = last /\ phase = "out"
  BY DEF TickTerminal, TickPaused, TickAborted, TickAllowed, nodeVars
<1>3. runtime'.activeActionId = runtime.activeActionId
  BY <1>1 DEF TickTerminal, TickPaused, TickAborted, TickAllowed, TypeOK, MissionRuntime
<1> QED
  BY <1>2, <1>3 DEF Awaits, RunningLeaf

\* A tick of a mission that is over: the executor rests or lands, and asks for no ARM.
LEMMA TerminalTick ==
    ASSUME TypeOK, FlightTyped, WalkInv, FollowInv,
           NEW sample \in Samples, NEW time \in Int,
           FlightTickTerminal(sample, time)
    PROVE  FollowInv' /\ ~Arming
<1> DEFINE called == Noticed(sample)
           p == Updating(sample, time, called)
<1>1. /\ called \in Px4!State /\ SameAction(px, called)
      /\ Flown(sample, time, called) /\ terminal /\ terminal'
  BY NoticedFacts DEF FlightTickTerminal, TickTerminal
<1>2. /\ p \in Px4!State /\ SameAction(called, p) /\ px' = Px4!Update(p, time)
      /\ OneCall(off) => OneCall(off')
      /\ OneCall(off) /\ Arming => MayArm(p)
  BY <1>1, FlownFacts
<1> HIDE DEF called, p
<1>3. Rests(p) \/ p.safetyLand
  BY <1>1, <1>2 DEF FollowInv, Rests, SameAction
<1>4. Rests(px') \/ px'.safetyLand
  BY <1>2, <1>3, UpdateRests
<1>5. ~MayArm(p)
  BY <1>3 DEF MayArm, Rests
<1> QED
  BY <1>1, <1>2, <1>4, <1>5 DEF FollowInv

\* A tick that pauses the mission pauses the action, and asks for no ARM.
LEMMA PausedTick ==
    ASSUME TypeOK, FlightTyped, WalkInv, FollowInv,
           NEW sample \in Samples, NEW time \in Int,
           FlightTickPaused(sample, time)
    PROVE  /\ FollowInv' /\ ~Arming
           /\ px'.capability = px.capability
           /\ runtime.activeActionId # NoAction => px'.status # "succeeded"
<1> DEFINE a == runtime.activeActionId
           called == Px4!Pause(Noticed(sample), a, time)
           p == Updating(sample, time, called)
<1>1. /\ Noticed(sample) \in Px4!State /\ SameAction(px, Noticed(sample))
      /\ Judged(sample, time) \in WorldState
  BY NoticedFacts, TickFits, EnvironmentAssumption
<1>2. /\ TickPaused(Judged(sample, time), time, Tabled(sample, time))
      /\ Flown(sample, time, called)
  BY DEF FlightTickPaused
<1>3. /\ called \in Px4!State /\ called.active = px.active
      /\ called.safetyLand = px.safetyLand /\ called.capability = px.capability
      /\ a = NoAction /\ Rests(px) => Rests(called)
      /\ a # NoAction /\ px.active = a /\ ~px.safetyLand =>
           called.status = "paused" /\ called.paused
  <2>1. /\ called \in Px4!State /\ called.active = Noticed(sample).active
        /\ called.safetyLand = Noticed(sample).safetyLand
        /\ called.capability = Noticed(sample).capability
        /\ Noticed(sample).active = NoAction \/ Noticed(sample).active # a
             \/ Noticed(sample).safetyLand => called = Noticed(sample)
        /\ ~(Noticed(sample).active = NoAction \/ Noticed(sample).active # a
               \/ Noticed(sample).safetyLand) =>
             called.status = "paused" /\ called.paused
    BY <1>1, PauseFacts
  <2> HIDE DEF called
  <2> QED
    BY <1>1, <2>1 DEF SameAction, Rests
<1>4. /\ p \in Px4!State /\ SameAction(called, p) /\ px' = Px4!Update(p, time)
      /\ OneCall(off) => OneCall(off')
      /\ OneCall(off) /\ Arming => MayArm(p)
  BY <1>2, <1>3, FlownFacts
<1>5. /\ ~terminal /\ ~terminal' /\ phase = "out" /\ phase' = "out"
      /\ runtime'.activeActionId = a
      /\ \A b : Awaits(b)' <=> Awaits(b)
  BY <1>1, <1>2, PrologueFacts DEF TickPaused, walkVars
<1>6. runtime'.status = "paused"
  <2>1. Observed(Judged(sample, time), time) \in MissionRuntime
    BY <1>1, ObservedType
  <2> QED
    BY <1>2, <2>1 DEF TickPaused, MissionRuntime
<1> HIDE DEF called, p
<1>7. px'.capability = px.capability
  BY <1>3, <1>4, UpdateFacts DEF SameAction
<1>8. CASE a = NoAction
  <2>1. Rests(p) /\ ~p.safetyLand
    BY <1>3, <1>4, <1>5, <1>8 DEF FollowInv, SameAction, Rests
  <2>2. px' = p
    BY <1>4, <2>1, UpdateRests
  <2>3. ~MayArm(p)
    BY <2>1 DEF MayArm, Rests
  <2> QED
    BY <1>4, <1>5, <1>7, <1>8, <2>1, <2>2, <2>3 DEF FollowInv
<1>9. CASE a # NoAction
  <2>1. Awaits(a) /\ px.active = a /\ ~px.safetyLand
    BY <1>5, <1>9 DEF FollowInv, Serves
  <2>2. /\ p.active = a /\ p.status = "paused" /\ p.paused /\ ~p.safetyLand
    BY <1>3, <1>4, <1>9, <2>1 DEF SameAction
  <2>3. px' = p
    BY <1>4, <1>9, <2>2, UpdateFacts DEF Px4!Over
  <2>4. Serves(a)'
    BY <1>5, <1>6, <2>2, <2>3 DEF Serves, Px4!Working
  <2>5. ~MayArm(p)
    BY <2>2 DEF MayArm
  <2>6. Serves(runtime.activeActionId)' /\ Awaits(runtime.activeActionId)'
    BY <1>5, <2>1, <2>4 DEF Serves, Awaits
  <2> QED
    BY <1>4, <1>5, <1>7, <1>9, <2>2, <2>3, <2>5, <2>6 DEF FollowInv
<1> QED
  BY <1>8, <1>9

\* A tick that aborts the mission turns the action into a landing or cancels it.
LEMMA AbortedTick ==
    ASSUME TypeOK, FlightTyped, WalkInv, FollowInv,
           NEW sample \in Samples, NEW time \in Int,
           FlightTickAborted(sample, time)
    PROVE  FollowInv' /\ ~Arming
<1> DEFINE a == runtime.activeActionId
           called == Px4!Cancel(Noticed(sample), a, time)
           p == Updating(sample, time, called)
<1>1. Noticed(sample) \in Px4!State /\ SameAction(px, Noticed(sample))
  BY NoticedFacts
<1>2. ~terminal /\ terminal' /\ Flown(sample, time, called)
  BY DEF FlightTickAborted, TickAborted
<1>3. /\ called \in Px4!State
      /\ Noticed(sample).active = NoAction \/ Noticed(sample).active # a
           => called = Noticed(sample)
      /\ ~(Noticed(sample).active = NoAction \/ Noticed(sample).active # a) =>
           called.safetyLand \/ called.status = "cancelled"
  BY <1>1, CancelFacts
<1>4. /\ p \in Px4!State /\ SameAction(called, p) /\ px' = Px4!Update(p, time)
      /\ OneCall(off) => OneCall(off')
      /\ OneCall(off) /\ Arming => MayArm(p)
  BY <1>2, <1>3, FlownFacts
<1>5. IF a = NoAction THEN Rests(px) ELSE px.active = a
  BY <1>2 DEF FollowInv, Serves
<1> HIDE DEF called, p
<1>6. Rests(p) \/ p.safetyLand
  <2>1. CASE a = NoAction
    BY <1>1, <1>3, <1>4, <1>5, <2>1 DEF Rests, SameAction
  <2>2. CASE a # NoAction
    BY <1>1, <1>3, <1>4, <1>5, <2>2 DEF Rests, SameAction, Px4!Over
  <2> QED
    BY <2>1, <2>2
<1>7. Rests(px') \/ px'.safetyLand
  BY <1>4, <1>6, UpdateRests
<1>8. ~MayArm(p)
  BY <1>6 DEF MayArm, Rests
<1> QED
  BY <1>2, <1>4, <1>7, <1>8 DEF FollowInv

\* A tick that lets the mission go on resumes the action; ARM is asked for only
\* if the action is a takeoff that goes on, and a landing is finished only on the
\* ground.
LEMMA AllowedTick ==
    ASSUME TypeOK, FlightTyped, WalkInv, FollowInv,
           NEW sample \in Samples, NEW time \in Int, NEW seen,
           FlightTickAllowed(sample, time, seen)
    PROVE  /\ FollowInv'
           /\ px'.capability = px.capability
           /\ runtime.activeActionId # NoAction /\ px'.status = "succeeded"
                /\ px.capability = "land" => Grounded(px'.world)
           /\ Arming => /\ runtime'.status = "running" /\ ~terminal'
                        /\ px'.capability = "takeoff" /\ px'.status = "running"
                        /\ ~px'.world.armed /\ px'.world.mode = "OFFBOARD"
<1> DEFINE a == runtime.activeActionId
           resumed == Px4!Resume(Noticed(sample), a, time)
           called == IF runtime.status = "paused" THEN resumed ELSE Noticed(sample)
           p == Updating(sample, time, called)
<1>1. /\ Noticed(sample) \in Px4!State /\ SameAction(px, Noticed(sample))
      /\ Judged(sample, time) \in WorldState
  BY NoticedFacts, TickFits, EnvironmentAssumption
<1>2. /\ TickAllowed(Judged(sample, time), time, Tabled(sample, time), seen)
      /\ Flown(sample, time, called)
  BY DEF FlightTickAllowed
<1>3. /\ resumed \in Px4!State /\ resumed.active = Noticed(sample).active
      /\ resumed.safetyLand = Noticed(sample).safetyLand
      /\ resumed.capability = Noticed(sample).capability
      /\ Noticed(sample).active = NoAction \/ Noticed(sample).active # a
           \/ ~Noticed(sample).paused => resumed = Noticed(sample)
      /\ ~(Noticed(sample).active = NoAction \/ Noticed(sample).active # a
             \/ ~Noticed(sample).paused) =>
           resumed.status = "running" /\ ~resumed.paused
  BY <1>1, ResumeFacts
<1> HIDE DEF resumed
<1>4. /\ called \in Px4!State /\ called.active = px.active
      /\ called.safetyLand = px.safetyLand /\ called.capability = px.capability
      /\ a = NoAction /\ Rests(px) => Rests(called)
  BY <1>1, <1>3 DEF SameAction, Rests
<1>5. a # NoAction /\ Serves(a) =>
        ~called.paused /\ called.status \in {"accepted", "running"}
  <2> SUFFICES ASSUME a # NoAction, Serves(a)
               PROVE  ~called.paused /\ called.status \in {"accepted", "running"}
    OBVIOUS
  <2>1. /\ px.active = a /\ px.status \in Px4!Working
        /\ px.paused <=> runtime.status = "paused"
        /\ px.paused <=> px.status = "paused"
    BY <1>2 DEF Serves, TickAllowed
  <2>2. CASE runtime.status = "paused"
    BY <1>1, <1>3, <2>1, <2>2 DEF SameAction
  <2>3. CASE runtime.status # "paused"
    BY <1>1, <2>1, <2>3 DEF SameAction, Px4!Working
  <2> QED
    BY <2>2, <2>3
<1>6. /\ p \in Px4!State /\ SameAction(called, p) /\ px' = Px4!Update(p, time)
      /\ OneCall(off) => OneCall(off')
      /\ OneCall(off) /\ Arming => MayArm(p)
  BY <1>2, <1>4, FlownFacts
<1>7. /\ ~terminal /\ ~terminal' /\ phase = "out" /\ phase' = "enter"
      /\ runtime'.activeActionId = a
      /\ \A b : Awaits(b)' <=> Awaits(b)
  BY <1>1, <1>2, PrologueFacts DEF TickAllowed
<1>8. runtime'.status = "running"
  <2>1. Observed(Judged(sample, time), time) \in MissionRuntime
    BY <1>1, ObservedType
  <2> QED
    BY <1>2, <2>1 DEF TickAllowed, MissionRuntime
<1> HIDE DEF called, p
<1>9. px'.capability = p.capability /\ p.capability = px.capability
  BY <1>4, <1>6, UpdateFacts DEF SameAction
<1>10. CASE a = NoAction
  <2>1. Rests(p) /\ ~p.safetyLand
    BY <1>4, <1>6, <1>7, <1>10 DEF FollowInv, SameAction, Rests
  <2>2. px' = p
    BY <1>6, <2>1, UpdateRests
  <2>3. ~MayArm(p)
    BY <2>1 DEF MayArm, Rests
  <2> QED
    BY <1>6, <1>7, <1>9, <1>10, <2>1, <2>2, <2>3 DEF FollowInv
<1>11. CASE a # NoAction
  <2>1. Awaits(a) /\ Serves(a) /\ px.active = a /\ ~px.safetyLand
    BY <1>7, <1>11 DEF FollowInv, Serves
  <2>2. /\ p.active = a /\ ~p.paused /\ ~p.safetyLand
        /\ p.status \in {"accepted", "running"}
    BY <1>4, <1>5, <1>6, <1>11, <2>1 DEF SameAction
  <2>3. /\ px'.active = a /\ ~px'.paused /\ ~px'.safetyLand
        /\ px'.world = p.world
        /\ px'.status = IF Px4!Achieved(p, time) THEN "succeeded" ELSE "running"
    BY <1>6, <1>11, <2>2, UpdateFacts DEF Px4!Over
  <2>4. Serves(a)'
    BY <1>7, <1>8, <2>3 DEF Serves, Px4!Working
  <2>5. Serves(runtime.activeActionId)' /\ Awaits(runtime.activeActionId)'
    BY <1>7, <2>1, <2>4 DEF Serves, Awaits
  <2>6. /\ MayArm(p) => ~Px4!Achieved(p, time)
        /\ p.capability = "land" /\ Px4!Achieved(p, time) => Grounded(p.world)
    BY DEF MayArm, Px4!Achieved, Grounded
  <2>7. FollowInv'
    BY <1>6, <1>7, <1>11, <2>3, <2>5 DEF FollowInv
  <2> QED
    BY <1>6, <1>7, <1>8, <1>9, <2>3, <2>6, <2>7 DEF MayArm, FollowInv
<1> QED
  BY <1>10, <1>11

\* A step of the walk that touches no action changes neither the result of one
\* nor the name of the active one nor the mission's status; it leaves the call
\* phase only while no action is awaited.
LEMMA OtherFacts ==
    ASSUME TypeOK, WalkInv, Reactive = {}, NEW n \in Node, FlightOther(n)
    PROVE  /\ runtime'.activeActionId = runtime.activeActionId
           /\ runtime'.status = runtime.status /\ terminal' = terminal
           /\ \A m \in Action : last'[m] = last[m]
           /\ \A a : Awaits(a)' <=> Awaits(a)
           /\ phase = "enter" /\ phase' # "enter" => \A a : ~Awaits(a)
<1>1. /\ runtime'.activeActionId = runtime.activeActionId
      /\ runtime'.status = runtime.status /\ terminal' = terminal
  <2>1. runtime' = runtime \/ runtime' = SetNode(n) \/ runtime' = Reject(n)
    BY DEF FlightOther, EnterComposite, StopAtChild, AdvanceChild, TickWait,
           TickRequireCapability, TickWaitEvent, TickEmitEvent
  <2>2. /\ runtime'.activeActionId = runtime.activeActionId
        /\ runtime'.status = runtime.status
    BY <2>1 DEF SetNode, Reject, TypeOK, MissionRuntime
  <2>3. terminal' = terminal
    BY DEF FlightOther, EnterComposite, StopAtChild, AdvanceChild, TickWait,
           TickRequireCapability, TickWaitEvent, TickEmitEvent
  <2> QED
    BY <2>2, <2>3
<1>2. Action \subseteq Leaf
  BY LeafFacts DEF Action
<1>3. \A m \in Action : last'[m] = last[m]
  <2>1. CASE EnterComposite(n) \/ StopAtChild(n) \/ AdvanceChild(n)
    <3>1. n \in Composite /\ (last' = last \/ \E status : Return(n, status))
      BY <2>1, ParentFacts DEF EnterComposite, StopAtChild, AdvanceChild, Loop, TypeOK
    <3> QED
      BY <1>2, <3>1, CompositeKeepsLeaves
  <2>2. CASE \/ TickWait(n) \/ TickRequireCapability(n)
             \/ TickWaitEvent(n) \/ TickEmitEvent(n)
    <3>1. Kind[n] # "ExecuteAction" /\ \E status : Return(n, status)
      BY <2>2 DEF TickWait, TickRequireCapability, TickWaitEvent, TickEmitEvent, Ticking
    <3> QED
      BY <3>1 DEF Return, Action, TypeOK
  <2> QED
    BY <2>1, <2>2 DEF FlightOther
<1>4. \A a : Awaits(a)' <=> Awaits(a)
  BY <1>2, <1>3 DEF Awaits, RunningLeaf
<1>5. phase = "enter" /\ phase' # "enter" => \A a : ~Awaits(a)
  <2>1. CASE EnterComposite(n)
    BY <2>1, EnterCalls DEF WalkInv
  <2>2. CASE StopAtChild(n) \/ AdvanceChild(n)
    BY <2>2 DEF StopAtChild, AdvanceChild
  <2>3. CASE \/ TickWait(n) \/ TickRequireCapability(n)
             \/ TickWaitEvent(n) \/ TickEmitEvent(n)
    <3>1. LeafStep(n) /\ Kind[n] # "ExecuteAction"
      BY <2>3, LeafActions
         DEF TickWait, TickRequireCapability, TickWaitEvent, TickEmitEvent, Ticking
    <3>2. RunningLeaf \subseteq {n}
      BY <3>1, LeafRuns DEF WalkInv, BranchInv
    <3> QED
      BY <3>1, <3>2 DEF Action, Awaits
  <2> QED
    BY <2>1, <2>2, <2>3 DEF FlightOther
<1> QED
  BY <1>1, <1>3, <1>4, <1>5

\* A step of the walk that touches no action keeps FollowInv.
LEMMA OtherFollows ==
    ASSUME TypeOK, WalkInv, FollowInv, Reactive = {}, NEW n \in Node, FlightOther(n)
    PROVE  FollowInv'
<1>1. px' = px /\ off' = off
  BY DEF FlightOther, flightVars
<1>2. /\ runtime'.activeActionId = runtime.activeActionId
      /\ runtime'.status = runtime.status /\ terminal' = terminal
      /\ \A a : Awaits(a)' <=> Awaits(a)
      /\ phase = "enter" /\ phase' # "enter" => \A a : ~Awaits(a)
  BY OtherFacts
<1>3. \A a : Awaits(a) /\ Serves(a) => Serves(a)'
  BY <1>1, <1>2 DEF Serves
<1> QED
  BY <1>1, <1>2, <1>3 DEF FollowInv, Awaits, Serves

\* A refused submission finds no action awaited and leaves the executor at rest.
LEMMA RefuseFollows ==
    ASSUME TypeOK, FlightTyped, WalkInv, FollowInv, NEW n \in Action, FlightRefuse(n)
    PROVE  FollowInv'
<1>1. n \in Node /\ RefuseAction(n) /\ off' = off
  BY FlightActionFacts DEF FlightRefuse
<1>2. /\ LeafStep(n) /\ n \notin submitted
      /\ terminal' = terminal /\ runtime' = Reject(n)
  BY <1>1, LeafActions DEF RefuseAction
<1>3. RunningLeaf \subseteq {n}
  BY <1>1, <1>2, LeafRuns DEF WalkInv, BranchInv
<1>4. n \notin RunningLeaf
  BY <1>2 DEF WalkInv, ActionInv, Outstanding, RunningLeaf
<1>5. \A a : ~Awaits(a)
  BY <1>3, <1>4 DEF Awaits
<1>6. ~terminal
  BY <1>2 DEF LeafStep, WalkInv, StatusInv, Ended
<1>7. runtime.activeActionId = NoAction /\ Rests(px) /\ ~px.safetyLand
  BY <1>5, <1>6 DEF FollowInv
<1>8. runtime'.activeActionId = NoAction
  BY <1>2, <1>7 DEF Reject, SetNode, TypeOK, MissionRuntime
<1>9. px' = px \/ (px'.active = NoAction /\ ~px'.safetyLand)
  BY RefuseFacts DEF FlightRefuse, FlightTyped
<1>10. Rests(px') /\ ~px'.safetyLand
  BY <1>7, <1>9 DEF Rests
<1> QED
  BY <1>1, <1>2, <1>6, <1>8, <1>10 DEF FollowInv

\* An action submitted before is followed: it is flown, or update() has just
\* finished it and the runtime forgets it.
LEMMA FollowOld ==
    ASSUME TypeOK, FlightTyped, WalkInv, FollowInv,
           NEW n \in Action, n \in submitted, FlightFollow(n)
    PROVE  FollowInv'
<1> DEFINE a == ActionOf[n]
<1>1. /\ n \in Node /\ a \in ActionId /\ a # NoAction /\ px' = px /\ off' = off
      /\ px \in Px4!State /\ FollowAction(n, Px4!Feedback(px, a))
  BY FlightActionFacts, AttributeAssumption DEF FlightFollow, FlightTyped
<1>2. Px4!Feedback(px, a) \in FeedbackStatus
  BY <1>1, FeedbackTyped
<1>3. LeafStep(n) /\ terminal' = terminal
  BY <1>1, <1>2, LeafActions DEF FollowAction
<1>4. last[n] = "running" /\ runtime.activeActionId = a
  <2>1. last[n] = "running"
    BY <1>1, <1>3, LeafRuns DEF WalkInv, BranchInv, ActionInv
  <2> QED
    BY <2>1 DEF WalkInv, ActionInv, Outstanding
<1>5. ~terminal /\ runtime.status = "running"
  BY <1>3 DEF LeafStep, WalkInv, StatusInv, Ended
<1>6. px.active = a /\ Serves(a) /\ ~px.safetyLand
  BY <1>1, <1>4, <1>5 DEF FollowInv, Serves
<1>7. Px4!Feedback(px, a) = px.status
  BY <1>1, <1>6 DEF Px4!Feedback
<1>8. /\ SetNode(n) \in MissionRuntime /\ SetNode(n).activeActionId = a
      /\ SetNode(n).status = "running"
  BY <1>1, <1>4, <1>5 DEF SetNode, TypeOK, MissionRuntime, MissionStatus
<1>9. n \in Leaf
  BY <1>3 DEF LeafStep
<1> HIDE DEF a
<1>10. CASE px.status \in Px4!Working
  <2>1. runtime' = SetNode(n) /\ Return(n, "running")
    BY <1>1, <1>7, <1>10 DEF FollowAction, Px4!Working
  <2>2. last'[n] = "running"
    BY <1>1, <2>1 DEF Return, TypeOK
  <2>3. Awaits(a)'
    BY <1>9, <2>2 DEF Awaits, RunningLeaf, a
  <2>4. Serves(a)'
    BY <1>1, <1>5, <1>6, <1>8, <1>10, <2>1 DEF Serves, Px4!Working
  <2>5. Awaits(runtime.activeActionId)' /\ Serves(runtime.activeActionId)'
    BY <1>8, <2>1, <2>3, <2>4 DEF Awaits, Serves
  <2> QED
    BY <1>1, <1>3, <1>5, <1>6, <1>8, <2>1, <2>5 DEF FollowInv
<1>11. CASE px.status = "succeeded"
  <2>1. runtime' = Deactivated(n, SetNode(n))
    BY <1>1, <1>7, <1>11 DEF FollowAction
  <2>2. runtime'.activeActionId = NoAction
    BY <1>8, <2>1 DEF Deactivated, MissionRuntime, a
  <2> QED
    BY <1>1, <1>3, <1>5, <1>6, <1>11, <2>2 DEF FollowInv, Rests, Px4!Over
<1> QED
  BY <1>6, <1>10, <1>11 DEF Serves

\* An action that is submitted finds the executor at rest, and is flown from now on.
LEMMA FollowNew ==
    ASSUME TypeOK, FlightTyped, WalkInv, FollowInv,
           NEW n \in Action, n \notin submitted, FlightFollow(n)
    PROVE  FollowInv'
<1> DEFINE a == ActionOf[n]
           q == Px4!Submit(px, a, CapabilityOf[n], now)
<1>1. /\ n \in Node /\ a \in ActionId /\ a # NoAction /\ off' = off
      /\ CapabilityOf[n] \in Px4!Flying /\ now \in Int /\ px \in Px4!State
  BY FlightActionFacts, AttributeAssumption DEF FlightFollow, FlightTyped, TypeOK
<1>2. px' = q /\ FollowAction(n, Px4!Feedback(px', a))
  BY DEF FlightFollow
<1>3. /\ q \in Px4!State
      /\ Px4!Vacant(px) => q.active = a /\ q.status = "accepted" /\ ~q.paused
                             /\ ~q.safetyLand
  BY <1>1, SubmitFacts
<1> HIDE DEF q
<1>4. Px4!Feedback(px', a) \in FeedbackStatus
  BY <1>2, <1>3, FeedbackTyped
<1>5. LeafStep(n) /\ terminal' = terminal
  BY <1>1, <1>2, <1>4, LeafActions DEF FollowAction
<1>6. n \notin RunningLeaf
  BY DEF WalkInv, ActionInv, Outstanding, RunningLeaf
<1>7. RunningLeaf = {}
  BY <1>1, <1>5, <1>6, LeafRuns DEF WalkInv, BranchInv
<1>8. ~terminal /\ runtime.status = "running"
  BY <1>5 DEF LeafStep, WalkInv, StatusInv, Ended
<1>9. Rests(px) /\ ~px.safetyLand
  BY <1>7, <1>8 DEF FollowInv, Awaits
<1>10. px'.active = a /\ px'.status = "accepted" /\ ~px'.paused /\ ~px'.safetyLand
  BY <1>2, <1>3, <1>9 DEF Rests, Px4!Vacant
<1>11. Px4!Feedback(px', a) = "accepted"
  BY <1>1, <1>10 DEF Px4!Feedback
<1>12. runtime' = Activated(n) /\ Return(n, "running")
  BY <1>2, <1>11 DEF FollowAction
<1>13. /\ runtime'.activeActionId = a /\ runtime'.status = "running"
       /\ last'[n] = "running"
  BY <1>1, <1>8, <1>12 DEF Activated, SetNode, Return, TypeOK, MissionRuntime
<1>14. n \in Leaf
  BY <1>5 DEF LeafStep
<1>15. Awaits(runtime.activeActionId)'
  BY <1>13, <1>14 DEF Awaits, RunningLeaf
<1> HIDE DEF a
<1>16. Serves(runtime.activeActionId)'
  BY <1>10, <1>13 DEF Serves, Px4!Working
<1> QED
  BY <1>1, <1>5, <1>8, <1>10, <1>13, <1>15, <1>16 DEF FollowInv

\* A walk that ends the mission has no action left to await.
LEMMA FinishFollows ==
    ASSUME TypeOK, WalkInv, FollowInv, FlightFinish
    PROVE  FollowInv'
<1>1. /\ px' = px /\ off' = off /\ last' = last
      /\ phase = "back" /\ cursor = Root /\ phase' = "out"
  BY DEF FlightFinish, FinishTick, flightVars, nodeVars
<1>2. runtime'.activeActionId = runtime.activeActionId
  BY DEF FlightFinish, FinishTick, TypeOK, MissionRuntime
<1>3. ~terminal
  BY <1>1 DEF WalkInv, StatusInv, Ended
<1>4. \A a : Awaits(a)' <=> Awaits(a)
  BY <1>1 DEF Awaits, RunningLeaf
<1>5. CASE last[Root] = "running"
  <2>1. runtime' = runtime /\ terminal' = terminal
    BY <1>5 DEF FlightFinish, FinishTick
  <2>2. \A a : Serves(a) => Serves(a)'
    BY <1>1, <2>1 DEF Serves
  <2> QED
    BY <1>1, <1>3, <1>4, <2>1, <2>2 DEF FollowInv, Awaits, Serves
<1>6. CASE last[Root] # "running"
  <2>1. RunningLeaf = {}
    BY <1>1, <1>6 DEF WalkInv, BranchInv, OneRunning
  <2>2. terminal'
    BY <1>6 DEF FlightFinish, FinishTick
  <2>3. Rests(px)
    BY <1>3, <2>1 DEF FollowInv, Awaits
  <2> QED
    BY <1>1, <2>2, <2>3 DEF FollowInv
<1> QED
  BY <1>5, <1>6

\* Every step keeps FollowInv, and asks for ARM only for a takeoff that goes on.
LEMMA FollowStep ==
    ASSUME TypeOK, FlightTyped, WalkInv, FollowInv, Reactive = {},
           [FlightNext]_allVars
    PROVE  /\ FollowInv'
           /\ Arming => /\ runtime'.status = "running" /\ ~terminal'
                        /\ px'.capability = "takeoff" /\ px'.status = "running"
                        /\ ~px'.world.armed /\ px'.world.mode = "OFFBOARD"
<1>1. CASE FlightBegin
  <2>1. PICK sample \in Samples, time \in Int :
          \/ FlightTickTerminal(sample, time)
          \/ FlightTickPaused(sample, time)
          \/ FlightTickAborted(sample, time)
          \/ \E seen \in SUBSET Event : FlightTickAllowed(sample, time, seen)
    BY <1>1, FlightBegins
  <2>2. CASE \/ FlightTickTerminal(sample, time)
             \/ FlightTickPaused(sample, time)
             \/ FlightTickAborted(sample, time)
    BY <2>2, TerminalTick, PausedTick, AbortedTick
  <2>3. ASSUME NEW seen \in SUBSET Event, FlightTickAllowed(sample, time, seen)
        PROVE  /\ FollowInv'
               /\ Arming => /\ runtime'.status = "running" /\ ~terminal'
                            /\ px'.capability = "takeoff" /\ px'.status = "running"
                            /\ ~px'.world.armed /\ px'.world.mode = "OFFBOARD"
    BY <2>3, AllowedTick
  <2> QED
    BY <2>1, <2>2, <2>3
<1>2. CASE FlightWalk
  <2>1. off' = off
    BY <1>2 DEF FlightWalk, FlightOther, FlightRefuse, FlightFollow, FlightFinish, flightVars
  <2>2. FollowInv'
    BY <1>2, OtherFollows, RefuseFollows, FollowOld, FollowNew, FinishFollows
       DEF FlightWalk
  <2> QED
    BY <2>1, <2>2 DEF Arming
<1>3. CASE FlightController \/ UNCHANGED allVars
  <2>1. UNCHANGED <<vars, px, off>>
    BY <1>3 DEF FlightController, Obey, TurnDown, Lose, LiftOff, TouchDown,
                flightVars, allVars
  <2>2. UNCHANGED <<runtime, terminal, last, phase, px, off>>
    BY <2>1 DEF vars, nodeVars, walkVars
  <2> QED
    BY <2>2 DEF Arming, FollowInv, Awaits, Serves, RunningLeaf
<1> QED
  BY <1>1, <1>2, <1>3 DEF FlightNext

\* The walk's invariants and FollowInv hold in every flight.
LEMMA FollowCorrect ==
    Reactive = {} /\ FlightSpec
      => [](TypeOK /\ FlightTyped /\ WalkInv /\ FollowInv)
<1> SUFFICES ASSUME Reactive = {}
             PROVE  FlightSpec => [](TypeOK /\ FlightTyped /\ WalkInv /\ FollowInv)
  OBVIOUS
<1>1. FlightInit => FollowInv
  <2> SUFFICES ASSUME FlightInit PROVE FollowInv
    OBVIOUS
  <2>1. /\ runtime = FreshRuntime /\ terminal = FALSE
        /\ px = Px4!Start /\ off = Off!Start
    BY Zenon DEF FlightInit, Init
  <2>2. runtime.activeActionId = NoAction
    BY <2>1 DEF FreshRuntime
  <2>3. px.active = NoAction /\ px.safetyLand = FALSE
    BY <2>1 DEF Px4!Start
  <2>4. off.armCall = {}
    BY <2>1 DEF Off!Start
  <2> QED
    BY <2>1, <2>2, <2>3, <2>4 DEF FollowInv, Rests, OneCall
<1>2. TypeOK /\ BranchIInv /\ StatusInv => WalkInv
  BY DEF BranchIInv, WalkInv
<1>3. TypeOK /\ FlightTyped /\ WalkInv /\ FollowInv /\ [FlightNext]_allVars
        => FollowInv'
  BY FollowStep
<1> QED
  BY <1>1, <1>2, <1>3, FlightCorrect, BranchCorrect, StatusCorrect, PTL
     DEF FlightSpec

\* In every mission without reactive nodes, between two ticks the action that the
\* runtime names is the one the executor flies, live, and paused exactly when the
\* mission is: whatever the sensors, the vehicle, the clock and the lost calls do,
\* an abort finds the action it has to turn into a landing.
THEOREM FlightFollows ==
    Reactive = {} /\ FlightSpec => []ExecutorFollows
<1>1. FollowInv => ExecutorFollows
  BY DEF FollowInv, ExecutorFollows, Serves
<1> QED
  BY <1>1, FollowCorrect, PTL

\* In every mission without reactive nodes ARM is requested only for a takeoff
\* that is being flown, of a vehicle seen disarmed and in OFFBOARD: never while
\* the mission is paused, never for a finished action, never after its end.
THEOREM ArmsForTakeOff ==
    Reactive = {} /\ FlightSpec => ArmsOnlyToTakeOff
<1>1. TypeOK /\ FlightTyped /\ WalkInv /\ FollowInv /\ Reactive = {}
        /\ [FlightNext]_allVars
        => [off'.armCall # off.armCall /\ off'.armCall # {}
              /\ (\E c \in off'.armCall : c.value) =>
                /\ runtime'.status = "running" /\ ~terminal'
                /\ px'.capability = "takeoff" /\ px'.status = "running"
                /\ ~px'.world.armed /\ px'.world.mode = "OFFBOARD"]_allVars
  BY FollowStep DEF Arming
<1> SUFFICES ASSUME Reactive = {}
             PROVE  FlightSpec => ArmsOnlyToTakeOff
  OBVIOUS
<1> QED
  BY <1>1, FollowCorrect, PTL DEF FlightSpec, ArmsOnlyToTakeOff

-----------------------------------------------------------------------------
(* A mission that fails over an action lands.                               *)

\* cancel() of the active action of a vehicle that may be flying is a landing.
LEMMA CancelLands ==
    ASSUME NEW p \in Px4!State, NEW a, NEW t \in Int,
           p.active # NoAction, p.active = a, p.world.airborne \/ p.world.armed
    PROVE  Px4!Cancel(p, a, t).safetyLand
<1> DEFINE down == [p EXCEPT !.capability = "land", !.status = "running",
                             !.safetyLand = TRUE, !.startedAt = t]
<1>1. Px4!Cancel(p, a, t) = down
  BY DEF Px4!Cancel
<1>2. down.safetyLand
  BY DEF Px4!State
<1> QED
  BY <1>1, <1>2

\* The health verdicts do not touch what the vehicle reported of its flight.
LEMMA SeenFacts ==
    ASSUME FlightTyped, NEW sample \in Samples, NEW time \in Int
    PROVE  /\ Seen(sample, time).airborne = Noticed(sample).world.airborne
           /\ Seen(sample, time).armed = Noticed(sample).world.armed
<1> DEFINE world == Noticed(sample).world
           valid == world.valid /\ FlightHealthy(sample, time)
           ready == ControlEnabled /\ ~sample.preflightErrors
<1>1. Noticed(sample).world \in Px4!World
  BY NoticedFacts, PxParts
<1>2. Seen(sample, time) = [world EXCEPT !.valid = valid, !.preflightReady = ready]
  BY DEF Seen
<1> HIDE DEF valid, ready
<1>3. /\ [world EXCEPT !.valid = valid, !.preflightReady = ready].airborne = world.airborne
      /\ [world EXCEPT !.valid = valid, !.preflightReady = ready].armed = world.armed
  BY <1>1 DEF Px4!World
<1> QED
  BY <1>2, <1>3

\* The abort of a mission that has an action, in flight, leaves a landing.
LEMMA AbortedLands ==
    ASSUME TypeOK, FlightTyped, FollowInv,
           NEW sample \in Samples, NEW time \in Int,
           FlightTickAborted(sample, time), runtime.activeActionId # NoAction,
           px'.world.airborne \/ px'.world.armed
    PROVE  px'.safetyLand
<1> DEFINE a == runtime.activeActionId
           noticed == Noticed(sample)
           called == Px4!Cancel(noticed, a, time)
           p == Updating(sample, time, called)
<1>1. noticed \in Px4!State /\ SameAction(px, noticed) /\ Seen(sample, time) \in Px4!World
  BY NoticedFacts
<1>2. ~terminal /\ Flown(sample, time, called)
  BY DEF FlightTickAborted, TickAborted
<1>3. called \in Px4!State
  BY <1>1, CancelFacts
<1>4. p \in Px4!State /\ SameAction(called, p) /\ px' = Px4!Update(p, time)
  BY <1>2, <1>3, FlownFacts
<1>5. p.world = Seen(sample, time)
  BY <1>1, <1>3, WorldFacts DEF Updating
<1>6. px'.world = Seen(sample, time) /\ px'.safetyLand = p.safetyLand
  BY <1>4, <1>5, UpdateFacts
<1>7. noticed.world.airborne \/ noticed.world.armed
  BY <1>6, SeenFacts
<1>8. noticed.active # NoAction /\ noticed.active = a
  BY <1>1, <1>2 DEF FollowInv, Serves, SameAction
<1> HIDE DEF noticed, a, p
<1>9. called.safetyLand
  BY <1>1, <1>7, <1>8, CancelLands
<1> QED
  BY <1>4, <1>6, <1>9 DEF SameAction

\* A mission ends by an abort or at the end of a walk, and nowhere else.
LEMMA EndsOnlyThere ==
    ASSUME TypeOK, FlightTyped, WalkInv, [FlightNext]_allVars,
           Ended(runtime'.status), runtime'.status # runtime.status
    PROVE  \/ FlightFinish /\ last[Root] # "running" /\ phase = "back" /\ cursor = Root
           \/ /\ runtime'.status = "failed"
              /\ \E sample \in Samples, time \in Int : FlightTickAborted(sample, time)
<1>1. CASE FlightBegin
  <2>1. PICK sample \in Samples, time \in Int :
          \/ FlightTickTerminal(sample, time)
          \/ FlightTickPaused(sample, time)
          \/ FlightTickAborted(sample, time)
          \/ \E seen \in SUBSET Event : FlightTickAllowed(sample, time, seen)
    BY <1>1, FlightBegins
  <2>2. Judged(sample, time) \in WorldState
    BY TickFits, EnvironmentAssumption
  <2>3. Observed(Judged(sample, time), time) \in MissionRuntime
    BY <2>2, ObservedType
  <2>4. ~FlightTickTerminal(sample, time)
    BY DEF FlightTickTerminal, TickTerminal, TypeOK, MissionRuntime
  <2>5. /\ ~FlightTickPaused(sample, time)
        /\ \A seen : ~FlightTickAllowed(sample, time, seen)
    BY <2>3 DEF Ended, FlightTickPaused, TickPaused, FlightTickAllowed,
                TickAllowed, MissionRuntime
  <2>6. FlightTickAborted(sample, time) => runtime'.status = "failed"
    BY <2>3 DEF FlightTickAborted, TickAborted, MissionRuntime
  <2> QED
    BY <2>1, <2>4, <2>5, <2>6
<1>2. CASE FlightFinish
  BY <1>2 DEF FlightFinish, FinishTick
<1>3. CASE FlightWalk /\ ~FlightFinish
  <2>1. phase' # "out"
    BY <1>3 DEF FlightWalk, FlightOther, FlightRefuse, FlightFollow,
         EnterComposite, StopAtChild, AdvanceChild, Loop, Call, Return, TickWait,
         TickRequireCapability, TickWaitEvent, TickEmitEvent, RefuseAction, FollowAction
  <2>2. StatusInv'
    BY FlightTypedStep, StatusStep DEF WalkInv
  <2> QED
    BY <2>1, <2>2 DEF StatusInv, Ended
<1>4. CASE FlightController \/ UNCHANGED allVars
  <2>1. UNCHANGED vars
    BY <1>4 DEF FlightController, Obey, TurnDown, Lose, LiftOff, TouchDown, allVars
  <2> QED
    BY <2>1 DEF vars
<1> QED
  BY <1>1, <1>2, <1>3, <1>4 DEF FlightNext

\* The mission fails over an action while the vehicle may be flying.
FailsInFlight ==
    /\ runtime.activeActionId # NoAction
    /\ runtime'.status = "failed" /\ runtime.status # "failed"
    /\ px'.world.airborne \/ px'.world.armed

\* Such a step is an abort, and leaves a landing.
LEMMA FailureStep ==
    ASSUME TypeOK, FlightTyped, WalkInv, FollowInv, Reactive = {},
           [FlightNext]_allVars, FailsInFlight
    PROVE  px'.safetyLand
<1>1. CASE FlightFinish /\ last[Root] # "running" /\ phase = "back" /\ cursor = Root
  <2>1. ~terminal /\ RunningLeaf = {}
    BY <1>1 DEF WalkInv, StatusInv, Ended, BranchInv, OneRunning
  <2> QED
    BY <2>1 DEF FailsInFlight, FollowInv, Awaits
<1>2. ASSUME NEW sample \in Samples, NEW time \in Int, FlightTickAborted(sample, time)
      PROVE  px'.safetyLand
  BY <1>2, AbortedLands DEF FailsInFlight
<1>3. Ended(runtime'.status) /\ runtime'.status # runtime.status
  BY DEF FailsInFlight, Ended
<1> QED
  BY <1>1, <1>2, <1>3, EndsOnlyThere

\* In every mission without reactive nodes, whatever ends it over an action while
\* the vehicle is in the air or armed (a supervisor's abort or emergency: an
\* action of this executor never reports a failure), the executor is landing it.
THEOREM FailureLands ==
    Reactive = {} /\ FlightSpec
      => [][FailsInFlight => px'.safetyLand]_allVars
<1> SUFFICES ASSUME Reactive = {}
             PROVE  FlightSpec => [][FailsInFlight => px'.safetyLand]_allVars
  OBVIOUS
<1>1. TypeOK /\ FlightTyped /\ WalkInv /\ FollowInv /\ [FlightNext]_allVars
        => [FailsInFlight => px'.safetyLand]_allVars
  BY FailureStep
<1> QED
  BY <1>1, FollowCorrect, PTL DEF FlightSpec

-----------------------------------------------------------------------------
(* A mission that ends with a landing.                                      *)

\* The root is a Sequence whose last step is a landing, as in the shipped mission
\* (config/generic_flight_mission.xml).
Final == Children[Root][Len(Children[Root])]

EndsWithLanding ==
    /\ Kind[Root] = "Sequence" /\ Final \in Action
    /\ CapabilityOf[Final] = "land"

\* The executor flies what the awaited node asks for; a landing that is finished
\* while it is awaited, and one whose result the walk has taken, left the vehicle
\* on the ground in this tick.
LandInv ==
    ~terminal =>
      /\ \A n \in Action \cap RunningLeaf :
           /\ px.capability = CapabilityOf[n]
           /\ px.status = "succeeded" /\ px.capability = "land" => Grounded(px.world)
      /\ last[Final] = "success" => phase # "out" /\ Grounded(px.world)

\* The last step of the root is a child of it.
LEMMA FinalFacts ==
    ASSUME EndsWithLanding
    PROVE  /\ Root \in Composite /\ Len(Children[Root]) \in Nat \ {0}
           /\ Len(Children[Root]) \in 1..Len(Children[Root])
           /\ Final \in Node
<1>1. Root \in Composite
  BY TreeAssumption DEF EndsWithLanding, Composite
<1>2. Children[Root] \in Seq(Node) /\ Len(Children[Root]) >= 1
  BY <1>1, CompositeFacts
<1>3. Len(Children[Root]) \in Nat
  BY <1>2
<1> QED
  BY <1>1, <1>2, <1>3 DEF EndsWithLanding, Action

\* While the root is running its last step has not succeeded.
LEMMA FinalPending ==
    ASSUME TypeOK, StackInv, BranchInv, EndsWithLanding,
           phase = "back", cursor = Root, last[Root] = "running"
    PROVE  last[Final] # "success"
<1> DEFINE size == Len(Children[Root])
<1>1. Root \in Composite /\ Root \in Node /\ size \in 1..size /\ size \in Nat
  BY FinalFacts, CompositeFacts
<1>2. Settled(Root)
  BY DEF StackInv, Settled
<1>3. index[Root] \in 1..size /\ last[Children[Root][index[Root]]] = "running"
  BY <1>1, <1>2 DEF BranchInv, RunningBelow
<1>4. CASE index[Root] = size
  BY <1>3, <1>4 DEF Final
<1>5. CASE index[Root] # size
  <2>1. size > index[Root]
    BY <1>1, <1>3, <1>5
  <2>2. last[Children[Root][size]] = "idle"
    BY <1>1, <2>1 DEF BranchInv, IdleAfter
  <2> QED
    BY <2>2 DEF Final
<1> QED
  BY <1>4, <1>5

\* An awaited action is the active one.
LEMMA AwaitedIsActive ==
    ASSUME WalkInv, NEW n \in Action, n \in RunningLeaf
    PROVE  runtime.activeActionId = ActionOf[n] /\ runtime.activeActionId # NoAction
BY FlightActionFacts, AttributeAssumption
   DEF WalkInv, ActionInv, Outstanding, RunningLeaf

\* The start of a tick keeps LandInv.
LEMMA BeginLands ==
    ASSUME TypeOK, FlightTyped, WalkInv, FollowInv, LandInv, FlightBegin
    PROVE  LandInv'
<1>1. PICK sample \in Samples, time \in Int :
        \/ FlightTickTerminal(sample, time)
        \/ FlightTickPaused(sample, time)
        \/ FlightTickAborted(sample, time)
        \/ \E seen \in SUBSET Event : FlightTickAllowed(sample, time, seen)
  BY FlightBegins
<1>2. Judged(sample, time) \in WorldState
  BY TickFits, EnvironmentAssumption
<1>3. phase = "out" /\ last' = last
  BY <1>1 DEF FlightTickTerminal, TickTerminal, FlightTickPaused, TickPaused,
     FlightTickAborted, TickAborted, FlightTickAllowed, TickAllowed, nodeVars
<1>4. ~terminal => last[Final] # "success"
  BY <1>3 DEF LandInv
<1>5. \A n \in Action \cap RunningLeaf :
        ~terminal => /\ px.capability = CapabilityOf[n]
                     /\ runtime.activeActionId # NoAction
  BY AwaitedIsActive DEF LandInv
<1>6. RunningLeaf' = RunningLeaf
  BY <1>3 DEF RunningLeaf
<1>7. CASE FlightTickTerminal(sample, time) \/ FlightTickAborted(sample, time)
  BY <1>7 DEF FlightTickTerminal, TickTerminal, FlightTickAborted, TickAborted, LandInv
<1>8. CASE FlightTickPaused(sample, time)
  <2>1. ~terminal /\ terminal' = terminal
    BY <1>8 DEF FlightTickPaused, TickPaused
  <2>2. /\ px'.capability = px.capability
        /\ runtime.activeActionId # NoAction => px'.status # "succeeded"
    BY <1>8, PausedTick
  <2> QED
    BY <1>3, <1>4, <1>5, <1>6, <2>1, <2>2 DEF LandInv
<1>9. ASSUME NEW seen \in SUBSET Event, FlightTickAllowed(sample, time, seen)
      PROVE  LandInv'
  <2>1. ~terminal /\ terminal' = terminal
    BY <1>9 DEF FlightTickAllowed, TickAllowed
  <2>2. /\ px'.capability = px.capability
        /\ runtime.activeActionId # NoAction /\ px'.status = "succeeded"
             /\ px.capability = "land" => Grounded(px'.world)
    BY <1>9, AllowedTick
  <2> QED
    BY <1>3, <1>4, <1>5, <1>6, <2>1, <2>2 DEF LandInv
<1> QED
  BY <1>1, <1>7, <1>8, <1>9

\* A walk step of an action leaves the call phase, and the mission goes on.
LEMMA ActionStepFacts ==
    ASSUME TypeOK, WalkInv, NEW n \in Action, NEW status \in FeedbackStatus,
           RefuseAction(n) \/ FollowAction(n, status)
    PROVE  /\ LeafStep(n) /\ ~terminal /\ terminal' = terminal /\ phase' = "back"
           /\ \A m \in Node \ {n} : last'[m] = last[m]
           /\ RunningLeaf' \subseteq {n}
           /\ last'[n] # "running" => RunningLeaf' = {}
<1>1. n \in Node
  BY FlightActionFacts
<1>2. LeafStep(n)
  BY <1>1, LeafActions
<1>3. ~terminal /\ terminal' = terminal /\ phase' = "back"
  BY <1>2 DEF LeafStep, Return, WalkInv, StatusInv, Ended
<1>4. \A m \in Node \ {n} : last'[m] = last[m]
  BY <1>1, <1>2 DEF LeafStep, Return, TypeOK
<1>5. /\ RunningLeaf' \subseteq {n}
      /\ last'[n] # "running" => RunningLeaf' = {}
  BY <1>1, <1>2, LeafRuns DEF WalkInv, BranchInv
<1> QED
  BY <1>2, <1>3, <1>4, <1>5

\* A refused submission keeps LandInv.
LEMMA RefuseLands ==
    ASSUME TypeOK, FlightTyped, WalkInv, LandInv, EndsWithLanding,
           NEW n \in Action, FlightRefuse(n)
    PROVE  LandInv'
<1>1. n \in Node /\ RefuseAction(n) /\ "idle" \in FeedbackStatus
  BY FlightActionFacts DEF FlightRefuse, FeedbackStatus
<1>2. /\ ~terminal /\ terminal' = terminal /\ phase' = "back"
      /\ \A m \in Node \ {n} : last'[m] = last[m]
      /\ last'[n] # "running" => RunningLeaf' = {}
  BY <1>1, ActionStepFacts
<1>3. last'[n] = "failure"
  BY <1>1 DEF RefuseAction, Return, TypeOK
<1>4. px'.world = px.world
  BY RefuseFacts DEF FlightRefuse, FlightTyped
<1>5. last'[Final] = "success" => last[Final] = "success"
  BY <1>2, <1>3, FinalFacts
<1> QED
  BY <1>2, <1>3, <1>4, <1>5 DEF LandInv, Grounded

\* Following an action keeps LandInv: the last step succeeds when update() has
\* found the vehicle on the ground.
LEMMA FollowLands ==
    ASSUME TypeOK, FlightTyped, WalkInv, FollowInv, LandInv, EndsWithLanding,
           NEW n \in Action, FlightFollow(n)
    PROVE  LandInv'
<1> DEFINE a == ActionOf[n]
           q == Px4!Submit(px, a, CapabilityOf[n], now)
<1>1. /\ n \in Node /\ a \in ActionId /\ a # NoAction
      /\ CapabilityOf[n] \in Px4!Flying /\ now \in Int /\ px \in Px4!State
      /\ Final \in Node
  BY FlightActionFacts, FinalFacts, AttributeAssumption DEF FlightTyped, TypeOK
<1>2. /\ px' = IF n \in submitted THEN px ELSE q
      /\ FollowAction(n, Px4!Feedback(px', a))
  BY DEF FlightFollow
<1>3. /\ q \in Px4!State /\ q.world = px.world
      /\ Px4!Vacant(px) => q.active = a /\ q.status = "accepted"
                             /\ q.capability = CapabilityOf[n]
  BY <1>1, SubmitFacts
<1> HIDE DEF q
<1>4. Px4!Feedback(px', a) \in FeedbackStatus
  BY <1>1, <1>2, <1>3, FeedbackTyped
<1>5. /\ LeafStep(n) /\ ~terminal /\ terminal' = terminal /\ phase' = "back"
      /\ \A m \in Node \ {n} : last'[m] = last[m]
      /\ RunningLeaf' \subseteq {n}
      /\ last'[n] # "running" => RunningLeaf' = {}
  BY <1>2, <1>4, ActionStepFacts
<1>6. px'.world = px.world
  BY <1>2, <1>3
<1>7. CASE n \in submitted
  <2>1. px' = px
    BY <1>2, <1>7
  <2>2. n \in RunningLeaf
    <3>1. last[n] = "running"
      BY <1>1, <1>5, <1>7, LeafRuns DEF WalkInv, BranchInv, ActionInv
    <3> QED
      BY <1>5, <3>1 DEF LeafStep, RunningLeaf
  <2>3. /\ px.capability = CapabilityOf[n]
        /\ px.status = "succeeded" /\ px.capability = "land" => Grounded(px.world)
    BY <1>5, <2>2 DEF LandInv
  <2>4. last'[n] = "success" => px.status = "succeeded"
    BY <1>1, <1>2, <2>1 DEF FollowAction, Return, TypeOK, Px4!Feedback
  <2>5. last'[Final] = "success" => Grounded(px.world)
    BY <1>1, <1>5, <2>3, <2>4 DEF LandInv, EndsWithLanding
  <2> QED
    BY <1>5, <2>1, <2>3, <2>5 DEF LandInv
<1>8. CASE n \notin submitted
  <2>1. n \notin RunningLeaf
    BY <1>8 DEF WalkInv, ActionInv, Outstanding, RunningLeaf
  <2>2. RunningLeaf = {}
    BY <1>1, <1>5, <2>1, LeafRuns DEF WalkInv, BranchInv
  <2>3. Rests(px) /\ ~px.safetyLand
    BY <1>5, <2>2 DEF FollowInv, Awaits
  <2>4. px'.active = a /\ px'.status = "accepted" /\ px'.capability = CapabilityOf[n]
    BY <1>2, <1>3, <1>8, <2>3 DEF Rests, Px4!Vacant
  <2>5. last'[n] = "running"
    BY <1>1, <1>2, <2>4 DEF FollowAction, Return, TypeOK, Px4!Feedback
  <2>6. last'[Final] = "success" => Grounded(px.world)
    BY <1>1, <1>5, <2>5 DEF LandInv
  <2> QED
    BY <1>5, <1>6, <2>4, <2>6 DEF LandInv, Grounded
<1> QED
  BY <1>7, <1>8

\* Every step keeps LandInv.
LEMMA LandStep ==
    ASSUME TypeOK, FlightTyped, WalkInv, FollowInv, LandInv, EndsWithLanding,
           Reactive = {}, [FlightNext]_allVars
    PROVE  LandInv'
<1>1. CASE FlightBegin
  BY <1>1, BeginLands
<1>2. ASSUME NEW n \in Node, FlightOther(n) PROVE LandInv'
  <2>1. px' = px
    BY <1>2 DEF FlightOther, flightVars
  <2>2. terminal' = terminal /\ \A m \in Action : last'[m] = last[m]
    BY <1>2, OtherFacts
  <2>3. phase' # "out"
    BY <1>2 DEF FlightOther, EnterComposite, StopAtChild, AdvanceChild, Loop, Call,
       Return, TickWait, TickRequireCapability, TickWaitEvent, TickEmitEvent
  <2> QED
    BY <2>1, <2>2, <2>3 DEF LandInv, RunningLeaf, EndsWithLanding
<1>3. CASE FlightFinish
  <2>1. /\ px' = px /\ last' = last /\ phase = "back" /\ cursor = Root
        /\ last[Root] # "running" => terminal'
        /\ last[Root] = "running" => terminal' = terminal
    BY <1>3 DEF FlightFinish, FinishTick, flightVars, nodeVars
  <2>2. CASE last[Root] = "running"
    <3>1. last[Final] # "success"
      BY <2>1, <2>2, FinalPending DEF WalkInv
    <3> QED
      BY <2>1, <2>2, <3>1 DEF LandInv, RunningLeaf
  <2>3. CASE last[Root] # "running"
    BY <2>1, <2>3 DEF LandInv
  <2> QED
    BY <2>2, <2>3
<1>4. CASE FlightController \/ UNCHANGED allVars
  <2>1. UNCHANGED <<vars, px>>
    BY <1>4 DEF FlightController, Obey, TurnDown, Lose, LiftOff, TouchDown,
                flightVars, allVars
  <2>2. UNCHANGED <<terminal, last, phase, px>>
    BY <2>1 DEF vars, nodeVars, walkVars
  <2> QED
    BY <2>2 DEF LandInv, RunningLeaf
<1> QED
  BY <1>1, <1>2, <1>3, <1>4, RefuseLands, FollowLands DEF FlightNext, FlightWalk

\* A mission that succeeds has its last step done.
LEMMA SuccessStepLands ==
    ASSUME TypeOK, FlightTyped, WalkInv, LandInv, ResultInv, EndsWithLanding,
           [FlightNext]_allVars,
           runtime'.status = "succeeded", runtime.status # "succeeded"
    PROVE  Grounded(px.world)
<1>1. Ended(runtime'.status) /\ runtime'.status # runtime.status
  BY DEF Ended
<1>2. FlightFinish /\ phase = "back" /\ cursor = Root
  BY <1>1, EndsOnlyThere
<1>3. last[Root] = "success"
  BY <1>2 DEF FlightFinish, FinishTick, TypeOK, MissionRuntime
<1>4. ~terminal /\ Root \notin frames
  BY <1>2 DEF WalkInv, StatusInv, Ended, StackInv
<1>5. last[Final] = "success"
  BY <1>3, <1>4, FinalFacts DEF ResultInv, EndsWithLanding, Final
<1> QED
  BY <1>4, <1>5 DEF LandInv

\* A mission without reactive nodes whose root is a Sequence that ends with a
\* landing reports success only for a vehicle that was seen on the ground and
\* disarmed in that very tick: whatever comes before the landing, however the
\* requests are lost, and however the telemetry lags.
THEOREM SuccessIsOnTheGround ==
    Reactive = {} /\ EndsWithLanding /\ FlightSpec => SuccessOnTheGround
<1> SUFFICES ASSUME Reactive = {}, EndsWithLanding
             PROVE  FlightSpec => SuccessOnTheGround
  OBVIOUS
<1>1. FlightInit => LandInv
  <2> SUFFICES ASSUME FlightInit PROVE LandInv
    OBVIOUS
  <2>1. last = [n \in Node |-> "idle"]
    BY Zenon DEF FlightInit, Init
  <2>2. Final \in Node /\ \A n \in Action : n \in Node
    BY FinalFacts, FlightActionFacts
  <2> QED
    BY <2>1, <2>2 DEF LandInv, RunningLeaf
<1>2. TypeOK /\ FlightTyped /\ WalkInv /\ FollowInv /\ LandInv
        /\ [FlightNext]_allVars => LandInv'
  BY LandStep
<1>3. TypeOK /\ FlightTyped /\ WalkInv /\ LandInv /\ ResultInv /\ [FlightNext]_allVars
        => [runtime'.status = "succeeded" /\ runtime.status # "succeeded" =>
              px.world.landed /\ ~px.world.armed]_allVars
  BY SuccessStepLands DEF Grounded
<1> QED
  BY <1>1, <1>2, <1>3, FollowCorrect, FlightCorrect, ResultCorrect, PTL
     DEF FlightSpec, SuccessOnTheGround
=============================================================================
