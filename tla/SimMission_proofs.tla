--------------------------- MODULE SimMission_proofs ---------------------------
(***************************************************************************)
(* Machine-checked properties of a mission on the simulated executor, for  *)
(* every tree, every world and every pattern of injected faults.           *)
(***************************************************************************)
EXTENDS SimMission, MissionEnd_proofs

\* No two ExecuteAction elements share an action id, and the walk has one
\* branch.  parse_node does not ask for it (mission_tree.cpp:347): the executor
\* answers a second use of an id from the record of the first.
Plain ==
    /\ Reactive = {}
    /\ \A m, n \in Action : ActionOf[m] = ActionOf[n] => m = n

Working == {"accepted", "running", "paused"}

Works(a) == sim.records[a].status \in Working

\* Somebody in the tree waits for action a.
Awaited(a) == \E n \in Action : ActionOf[n] = a /\ last[n] = "running"

-----------------------------------------------------------------------------
(* What the methods of SimExecutor do to its state.                        *)

\* Writing one record leaves the others, and the rest of the state, alone.
LEMMA PutRecord ==
    ASSUME NEW s \in Sim!State, NEW a \in ActionId, NEW r \in Sim!Record
    PROVE  /\ [s EXCEPT !.records[a] = r] \in Sim!State
           /\ [s EXCEPT !.records[a] = r].records = [s.records EXCEPT ![a] = r]
           /\ [s EXCEPT !.records[a] = r].active = s.active
BY DEF Sim!State

\* A record table with one entry replaced.
LEMMA PutEntry ==
    ASSUME NEW f \in [ActionId -> Sim!Record], NEW a \in ActionId, NEW r \in Sim!Record
    PROVE  /\ [f EXCEPT ![a] = r][a] = r
           /\ \A b \in ActionId \ {a} : [f EXCEPT ![a] = r][b] = f[b]
OBVIOUS

\* The parts of the executor's state.
LEMMA StateParts ==
    ASSUME NEW s \in Sim!State
    PROVE  /\ s.records \in [ActionId -> Sim!Record]
           /\ s.active \in ActionId \cup {NoAction}
           /\ s.supply \in [Capability -> Availability]
BY DEF Sim!State, Sim!Availability, Availability

\* A record keeps what its new status does not replace.
LEMMA StatusRecord ==
    ASSUME NEW r \in Sim!Record, NEW status \in Sim!RecordStatus
    PROVE  /\ [r EXCEPT !.status = status] \in Sim!Record
           /\ [r EXCEPT !.status = status].status = status
           /\ [r EXCEPT !.status = status].paused = r.paused
           /\ [r EXCEPT !.status = status].capability = r.capability
           /\ [r EXCEPT !.status = status].startedAt = r.startedAt
           /\ [r EXCEPT !.status = status].pausedAt = r.pausedAt
           /\ [r EXCEPT !.status = status].pausedFor = r.pausedFor
BY DEF Sim!Record

\* A new status is a new record.
LEMMA PutStatus ==
    ASSUME NEW s \in Sim!State, NEW a \in ActionId, NEW status \in Sim!RecordStatus
    PROVE  LET u == [s EXCEPT !.records[a].status = status]
           IN  /\ u \in Sim!State /\ u.active = s.active
               /\ u.records[a] = [s.records[a] EXCEPT !.status = status]
               /\ \A b \in ActionId \ {a} : u.records[b] = s.records[b]
<1> DEFINE u == [s EXCEPT !.records[a].status = status]
           r == [s.records[a] EXCEPT !.status = status]
<1>1. s.records[a] \in Sim!Record
  BY StateParts
<1>2. r \in Sim!Record
  BY <1>1, StatusRecord
<1>3. u = [s EXCEPT !.records[a] = r]
  OBVIOUS
<1> HIDE DEF r, u
<1>4. u \in Sim!State /\ u.active = s.active /\ u.records = [s.records EXCEPT ![a] = r]
  BY <1>2, <1>3, PutRecord
<1>5. u.records[a] = r /\ \A b \in ActionId \ {a} : u.records[b] = s.records[b]
  BY <1>2, <1>4, PutEntry, StateParts
<1> QED
  BY <1>4, <1>5 DEF r, u

\* Activating an action leaves the records alone.
LEMMA ActivateFacts ==
    ASSUME NEW s \in Sim!State, NEW a \in ActionId \cup {NoAction},
           NEW c \in Capability \cup {NoCapability}
    PROVE  /\ Sim!Activate(s, a, c) \in Sim!State
           /\ Sim!Activate(s, a, c).records = s.records
           /\ Sim!Activate(s, a, c).active = a
BY DEF Sim!Activate, Sim!State

\* Deactivating is activating nothing.
LEMMA DeactivateFacts ==
    ASSUME NEW s \in Sim!State
    PROVE  /\ Sim!Deactivate(s) \in Sim!State
           /\ Sim!Deactivate(s).records = s.records
           /\ Sim!Deactivate(s).active = NoAction
BY ActivateFacts DEF Sim!Deactivate

\* The records before and after a call for action a.
Touches(s, u, a) ==
    u \in Sim!State /\ \A b \in ActionId \ {a} : u.records[b] = s.records[b]

\* The record submit() opens.
Begun(c, t) ==
    [Sim!NoRecord EXCEPT !.status = "accepted", !.capability = c, !.startedAt = t]

\* submit() of an action it does not know opens a record; of one it knows, it
\* keeps the record.
LEMMA SubmitFacts ==
    ASSUME NEW s \in Sim!State, NEW a \in ActionId, NEW c \in Capability, NEW t \in Int
    PROVE  LET u == Sim!Submit(s, a, c, t)
           IN  /\ Touches(s, u, a) /\ u.active = a
               /\ Sim!Known(s, a) => u.records[a] = s.records[a]
               /\ ~Sim!Known(s, a) => u.records[a] = Begun(c, t)
<1> DEFINE fresh == [Sim!NoRecord EXCEPT !.status = "accepted", !.capability = c,
                                          !.startedAt = t]
           r == IF Sim!Known(s, a) THEN s.records[a] ELSE fresh
           u == [s EXCEPT !.records[a] = r]
<1>1. fresh \in Sim!Record
  <2>1. Sim!NoRecord \in Sim!Record
    BY DEF Sim!NoRecord, Sim!Record, Sim!RecordStatus
  <2>2. "accepted" \in Sim!RecordStatus
    BY DEF Sim!RecordStatus
  <2> QED
    BY <2>1, <2>2 DEF Sim!Record
<1>2. r \in Sim!Record
  BY <1>1, StateParts
<1>3. Sim!Submit(s, a, c, t) = Sim!Activate(u, a, c)
  BY DEF Sim!Submit
<1> HIDE DEF r, fresh
<1>4. /\ u \in Sim!State /\ u.records[a] = r
      /\ \A b \in ActionId \ {a} : u.records[b] = s.records[b]
  BY <1>2, PutRecord, PutEntry, StateParts
<1> HIDE DEF u
<1>5. /\ Sim!Submit(s, a, c, t) \in Sim!State
      /\ Sim!Submit(s, a, c, t).records = u.records
      /\ Sim!Submit(s, a, c, t).active = a
  BY <1>3, <1>4, ActivateFacts
<1> QED
  BY <1>4, <1>5 DEF r, fresh, Begun, Touches

\* cancel() ends an action at work and forgets it if it was active.
LEMMA CancelFacts ==
    ASSUME NEW s \in Sim!State, NEW a \in ActionId
    PROVE  LET u == Sim!Cancel(s, a)
           IN  /\ Touches(s, u, a)
               /\ Sim!Known(s, a) => u.records[a].status = "cancelled"
               /\ ~Sim!Known(s, a) => u = s
               /\ Sim!Known(s, a) =>
                    u.active = IF s.active = a THEN NoAction ELSE s.active
<1> DEFINE v == [s EXCEPT !.records[a].status = "cancelled"]
<1>1. "cancelled" \in Sim!RecordStatus
  BY DEF Sim!RecordStatus
<1>2. /\ v \in Sim!State /\ v.active = s.active
      /\ v.records[a] = [s.records[a] EXCEPT !.status = "cancelled"]
      /\ \A b \in ActionId \ {a} : v.records[b] = s.records[b]
  BY <1>1, PutStatus
<1>3. s.records[a] \in Sim!Record
  BY DEF Sim!State
<1>4. v.records[a].status = "cancelled"
  BY <1>2, <1>3 DEF Sim!Record
<1>5. Sim!Cancel(s, a) = IF ~Sim!Known(s, a) THEN s
                         ELSE IF s.active = a THEN Sim!Deactivate(v) ELSE v
  BY DEF Sim!Cancel
<1> HIDE DEF v
<1>6. CASE ~Sim!Known(s, a)
  BY <1>5, <1>6 DEF Touches
<1>7. CASE Sim!Known(s, a) /\ s.active = a
  <2> DEFINE u == Sim!Cancel(s, a)
  <2>1. u = Sim!Deactivate(v)
    BY <1>5, <1>7
  <2> HIDE DEF u
  <2>2. u \in Sim!State /\ u.records = v.records /\ u.active = NoAction
    BY <1>2, <2>1, DeactivateFacts
  <2>3. Touches(s, u, a)
    BY <1>2, <2>2 DEF Touches
  <2> QED
    BY <1>4, <1>7, <2>2, <2>3 DEF u
<1>8. CASE Sim!Known(s, a) /\ s.active # a
  BY <1>2, <1>4, <1>5, <1>8 DEF Touches
<1> QED
  BY <1>6, <1>7, <1>8

\* pause() of an action that has not succeeded stops its clock once.
LEMMA PauseFacts ==
    ASSUME NEW s \in Sim!State, NEW a \in ActionId, NEW t \in Int
    PROVE  LET u == Sim!Pause(s, a, t)
               r == s.records[a]
           IN  /\ Touches(s, u, a) /\ u.active = s.active
               /\ ~Sim!Known(s, a) \/ r.status = "succeeded" => u = s
               /\ Sim!Known(s, a) /\ r.status # "succeeded" =>
                    /\ u.records[a].status = "paused" /\ u.records[a].paused
                    /\ u.records[a].capability = r.capability
                    /\ u.records[a].startedAt = r.startedAt
                    /\ u.records[a].pausedFor = r.pausedFor
                    /\ u.records[a].pausedAt = IF r.paused THEN r.pausedAt ELSE t
<1> DEFINE r == s.records[a]
           w == [r EXCEPT !.status = "paused", !.paused = TRUE,
                          !.pausedAt = IF r.paused THEN r.pausedAt ELSE t]
           v == [s EXCEPT !.records[a] = w]
<1>1. r \in Sim!Record
  BY DEF Sim!State
<1>2. Sim!Pause(s, a, t) = IF ~Sim!Known(s, a) \/ r.status = "succeeded" THEN s ELSE v
  BY DEF Sim!Pause
<1>3. /\ w \in Sim!Record /\ w.status = "paused" /\ w.paused
      /\ w.capability = r.capability /\ w.startedAt = r.startedAt
      /\ w.pausedFor = r.pausedFor /\ w.pausedAt = IF r.paused THEN r.pausedAt ELSE t
  <2> HIDE DEF r
  <2> QED
    BY <1>1 DEF Sim!Record, Sim!RecordStatus
<1> HIDE DEF w
<1>4. /\ v \in Sim!State /\ v.records[a] = w /\ v.active = s.active
      /\ \A b \in ActionId \ {a} : v.records[b] = s.records[b]
  BY <1>3, PutRecord, PutEntry, StateParts
<1> HIDE DEF v
<1> QED
  BY <1>2, <1>3, <1>4 DEF Touches

\* resume() starts the clock of a paused action and makes it the active one.
LEMMA ResumeFacts ==
    ASSUME NEW s \in Sim!State, NEW a \in ActionId, NEW t \in Int
    PROVE  LET u == Sim!Resume(s, a, t)
               r == s.records[a]
           IN  /\ Touches(s, u, a)
               /\ ~Sim!Known(s, a) => u = s
               /\ Sim!Known(s, a) =>
                    /\ u.active = a
                    /\ ~u.records[a].paused
                    /\ u.records[a].status =
                         IF r.status = "paused" THEN "running" ELSE r.status
                    /\ u.records[a].capability = r.capability
                    /\ u.records[a].startedAt = r.startedAt
                    /\ u.records[a].pausedFor =
                         IF r.paused THEN r.pausedFor + Sim!Positive(t - r.pausedAt)
                                     ELSE r.pausedFor
<1> DEFINE r == s.records[a]
           more == IF r.paused THEN r.pausedFor + Sim!Positive(t - r.pausedAt)
                               ELSE r.pausedFor
           status == IF r.status = "paused" THEN "running" ELSE r.status
           w == [r EXCEPT !.pausedFor = more, !.paused = FALSE, !.status = status]
           v == [s EXCEPT !.records[a] = w]
<1>1. r \in Sim!Record
  BY DEF Sim!State
<1>2. Sim!Resume(s, a, t) = IF ~Sim!Known(s, a) THEN s
                            ELSE Sim!Activate(v, a, r.capability)
  BY DEF Sim!Resume
<1> HIDE DEF r
<1>3. more \in Int /\ status \in Sim!RecordStatus
  BY <1>1 DEF Sim!Record, Sim!RecordStatus, Sim!Positive
<1> HIDE DEF more, status
<1>4. /\ w \in Sim!Record /\ w.status = status /\ ~w.paused
      /\ w.capability = r.capability /\ w.startedAt = r.startedAt
      /\ w.pausedFor = more
  BY <1>1, <1>3 DEF Sim!Record
<1> HIDE DEF w
<1>5. /\ v \in Sim!State /\ v.records[a] = w
      /\ \A b \in ActionId \ {a} : v.records[b] = s.records[b]
  BY <1>4, PutRecord, PutEntry, StateParts
<1>6. r.capability \in Capability \cup {NoCapability}
  BY <1>1 DEF Sim!Record
<1> HIDE DEF v
<1>7. /\ Sim!Activate(v, a, r.capability) \in Sim!State
      /\ Sim!Activate(v, a, r.capability).records = v.records
      /\ Sim!Activate(v, a, r.capability).active = a
  BY <1>5, <1>6, ActivateFacts
<1> QED
  BY <1>2, <1>4, <1>5, <1>7 DEF Touches, r, more, status

\* update() lets the active action work, and retires it when its time is up.
LEMMA UpdateFacts ==
    ASSUME NEW s \in Sim!State, NEW t \in Int
    PROVE  LET u == Sim!Update(s, t)
               a == s.active
               r == s.records[a]
           IN  /\ u \in Sim!State
               /\ \A b \in ActionId \ {a} : u.records[b] = s.records[b]
               /\ a = NoAction => u = s
               /\ a # NoAction =>
                    IF r.paused \/ r.status \in {"idle", "cancelled", "succeeded"}
                      THEN u = s
                    ELSE IF Sim!Worked(r, t) >= DurationOf[r.capability]
                      THEN /\ u.active = NoAction
                           /\ u.records[a] = [r EXCEPT !.status = "succeeded"]
                    ELSE /\ u.active = a
                         /\ u.records[a] = [r EXCEPT !.status = "running"]
<1> DEFINE a == s.active
           r == s.records[a]
           done == [s EXCEPT !.records[a].status = "succeeded"]
           on == [s EXCEPT !.records[a].status = "running"]
<1>1. CASE a = NoAction
  BY <1>1 DEF Sim!Update
<1>2. CASE a # NoAction
  <2>1. a \in ActionId
    BY <1>2 DEF Sim!State
  <2>2. "succeeded" \in Sim!RecordStatus /\ "running" \in Sim!RecordStatus
    BY DEF Sim!RecordStatus
  <2>3. /\ done \in Sim!State /\ on \in Sim!State /\ on.active = a
        /\ done.records[a] = [r EXCEPT !.status = "succeeded"]
        /\ on.records[a] = [r EXCEPT !.status = "running"]
        /\ \A b \in ActionId \ {a} :
             done.records[b] = s.records[b] /\ on.records[b] = s.records[b]
    BY <2>1, <2>2, PutStatus
  <2>4. Sim!Update(s, t) =
          IF r.paused \/ r.status \in {"idle", "cancelled", "succeeded"} THEN s
          ELSE IF Sim!Worked(r, t) >= DurationOf[r.capability] THEN Sim!Deactivate(done)
          ELSE on
    BY <1>2 DEF Sim!Update
  <2> HIDE DEF done, on
  <2> QED
    BY <1>2, <2>3, <2>4, DeactivateFacts
<1> QED
  BY <1>1, <1>2

-----------------------------------------------------------------------------
(* A mission on the simulator is a mission.                                *)

\* Every variable of the composition has its type.
SimTyped == TypeOK /\ sim \in Sim!State /\ worked \in [ActionId -> Int]

\* A tick that begins does one of four things, with well-typed inputs.
LEMMA SimBeginCases ==
    ASSUME SimBegin
    PROVE  \E time \in Times, world \in Sense,
              seen \in SUBSET Event :
             \/ SimTickTerminal(world, time)
             \/ SimTickPaused(world, time)
             \/ SimTickAborted(world, time)
             \/ SimTickAllowed(world, time, seen)
<1>1. PICK time \in Times :
        \E world \in IF time < Calm THEN Sense ELSE CalmSense :
          \/ SimTickTerminal(world, time)
          \/ SimTickPaused(world, time)
          \/ SimTickAborted(world, time)
          \/ \E seen \in IF time < Calm THEN SUBSET Event ELSE {Event} :
               SimTickAllowed(world, time, seen)
  BY DEF SimBegin
<1>2. PICK world \in Sense :
          \/ SimTickTerminal(world, time)
          \/ SimTickPaused(world, time)
          \/ SimTickAborted(world, time)
          \/ \E seen \in IF time < Calm THEN SUBSET Event ELSE {Event} :
               SimTickAllowed(world, time, seen)
  BY <1>1, CalmAssumption
<1>3. PICK seen \in SUBSET Event :
          \/ SimTickTerminal(world, time)
          \/ SimTickPaused(world, time)
          \/ SimTickAborted(world, time)
          \/ SimTickAllowed(world, time, seen)
  BY <1>2
<1> QED
  BY <1>3

\* What the simulator answers about its capabilities is a capability table.
LEMMA TablesAreAnswers ==
    ASSUME NEW s \in Sim!State
    PROVE  Sim!Capabilities(s) \in CapabilityTable
<1> DEFINE f(c) == IF c = NoCapability THEN "unsupported"
                   ELSE IF s.active # NoAction /\ c = s.capability
                             /\ s.supply[c] = "available" THEN "busy"
                   ELSE s.supply[c]
<1>1. s.supply \in [Capability -> Availability]
  BY StateParts
<1>2. \A c \in Capability \cup {NoCapability} : f(c) \in Availability
  BY <1>1 DEF Availability
<1>3. Sim!Capabilities(s) = [c \in Capability \cup {NoCapability} |-> f(c)]
  BY DEF Sim!Capabilities
<1> HIDE DEF f
<1>4. Sim!Capabilities(s) \in [Capability \cup {NoCapability} -> Availability]
  BY <1>2, <1>3
<1> QED
  BY <1>4, SimAssumption

\* The status of an action is among those an executor may answer.
LEMMA AnswersAreFeedback ==
    ASSUME NEW s \in Sim!State, NEW a \in ActionId
    PROVE  Sim!Feedback(s, a) \in FeedbackStatus
BY StateParts DEF Sim!Feedback, Sim!Record, Sim!RecordStatus, FeedbackStatus

\* A node that is ticked as an action is one, with an id and a capability.
LEMMA ActionFacts ==
    ASSUME NEW n \in Action
    PROVE  n \in Node /\ ActionOf[n] \in ActionId /\ CapabilityOf[n] \in Capability
BY AttributeAssumption DEF Action

\* submit() and feedback() keep the executor's state well formed.
LEMMA SimFollowTyped ==
    ASSUME sim \in Sim!State, now \in Int, NEW n \in Action, SimFollow(n)
    PROVE  sim' \in Sim!State
BY ActionFacts, SubmitFacts DEF SimFollow, Touches

\* Every step of the composition is a step of the tree, or leaves it alone.
LEMMA SimStepIsStep ==
    ASSUME SimTyped, [SimNext]_simVars
    PROVE  [Next]_vars
<1>1. CASE SimBegin
  <2>1. PICK time \in Times, world \in Sense,
             seen \in SUBSET Event :
             \/ SimTickTerminal(world, time)
             \/ SimTickPaused(world, time)
             \/ SimTickAborted(world, time)
             \/ SimTickAllowed(world, time, seen)
    BY <1>1, SimBeginCases
  <2>2. Sim!Capabilities(sim) \in CapabilityTable
    BY TablesAreAnswers DEF SimTyped
  <2>3. PICK table \in CapabilityTable :
          \/ TickTerminal(world, time)
          \/ TickPaused(world, time, table)
          \/ TickAborted(world, time, table)
          \/ TickAllowed(world, time, table, seen)
    BY <2>1, <2>2
       DEF SimTickTerminal, SimTickPaused, SimTickAborted, SimTickAllowed
  <2>4. BeginTick
    BY <2>3 DEF BeginTick
  <2> QED
    BY <2>4 DEF Next
<1>2. ASSUME NEW n \in Node, SimOther(n) PROVE Next
  BY <1>2 DEF SimOther, Next, Walk
<1>3. ASSUME NEW n \in Action, SimRefuse(n) PROVE Next
  BY <1>3, ActionFacts DEF SimRefuse, Next, Walk
<1>4. ASSUME NEW n \in Action, SimFollow(n) PROVE Next
  <2>1. Sim!Feedback(sim', ActionOf[n]) \in FeedbackStatus
    BY <1>4, SimFollowTyped, AnswersAreFeedback, ActionFacts DEF SimTyped, TypeOK
  <2> QED
    BY <1>4, <2>1, ActionFacts DEF SimFollow, Next, Walk
<1>5. CASE SimFinish
  BY <1>5 DEF SimFinish, Next, Walk
<1>6. CASE Reconfigure \/ UNCHANGED simVars
  BY <1>6 DEF Reconfigure, simVars
<1> QED
  BY <1>1, <1>2, <1>3, <1>4, <1>5, <1>6 DEF SimNext, SimWalk

\* Changing what the simulated platform can do changes no record.
LEMMA ReconfigureFacts ==
    ASSUME sim \in Sim!State, Reconfigure
    PROVE  sim' \in Sim!State /\ sim'.records = sim.records /\ sim'.active = sim.active
<1>1. PICK c \in Capability :
         \/ \E availability \in Supply :
              sim' = Sim!SetCapability(sim, c, availability)
         \/ \E reject \in BOOLEAN :
              sim' = Sim!RejectCapability(sim, c, reject)
  BY DEF Reconfigure
<1>2. Supply \subseteq Sim!Availability
  BY SimAssumption DEF Availability, Sim!Availability
<1>3. ASSUME NEW availability \in Supply, sim' = Sim!SetCapability(sim, c, availability)
      PROVE  sim' \in Sim!State /\ sim'.records = sim.records /\ sim'.active = sim.active
  BY <1>2, <1>3 DEF Sim!SetCapability, Sim!State
<1>4. ASSUME NEW reject \in BOOLEAN, sim' = Sim!RejectCapability(sim, c, reject)
      PROVE  sim' \in Sim!State /\ sim'.records = sim.records /\ sim'.active = sim.active
  <2>1. (IF reject THEN sim.rejected \cup {c} ELSE sim.rejected \ {c}) \in SUBSET Capability
    BY DEF Sim!State
  <2> QED
    BY <1>4, <2>1 DEF Sim!RejectCapability, Sim!State
<1> QED
  BY <1>1, <1>3, <1>4

\* The time accounting of the history keeps its type.
LEMMA ElapsedType ==
    ASSUME SimTyped, NEW time \in Int, Elapsed(time)
    PROVE  worked' \in [ActionId -> Int]
BY DEF SimTyped, TypeOK, MissionRuntime, Elapsed

\* The prologue keeps the executor's state well formed.
LEMMA SimBeginTyped ==
    ASSUME SimTyped, SimBegin
    PROVE  sim' \in Sim!State /\ worked' \in [ActionId -> Int]
<1> DEFINE a == runtime.activeActionId
<1>1. a \in ActionId \cup {NoAction}
  BY DEF SimTyped, TypeOK, MissionRuntime
<1>2. PICK time \in Times, world \in Sense,
           seen \in SUBSET Event :
           \/ SimTickTerminal(world, time)
           \/ SimTickPaused(world, time)
           \/ SimTickAborted(world, time)
           \/ SimTickAllowed(world, time, seen)
  BY SimBeginCases
<1>3. time \in Int
  BY <1>2 DEF Times
<1>4. /\ worked' = worked \/ Elapsed(time)
      /\ \E s \in Sim!State : sim' = Sim!Update(s, time)
  <2> HIDE DEF a
  <2>1. CASE SimTickTerminal(world, time)
    BY <2>1 DEF SimTickTerminal, SimTyped
  <2>2. CASE SimTickPaused(world, time)
    <3>1. (IF a = NoAction THEN sim ELSE Sim!Pause(sim, a, time)) \in Sim!State
      BY <1>1, <1>3, PauseFacts DEF SimTyped, Touches
    <3> QED
      BY <2>2, <3>1 DEF SimTickPaused, a
  <2>3. CASE SimTickAborted(world, time)
    <3>1. (IF a = NoAction THEN sim ELSE Sim!Cancel(sim, a)) \in Sim!State
      BY <1>1, CancelFacts DEF SimTyped, Touches
    <3> QED
      BY <2>3, <3>1 DEF SimTickAborted, a
  <2>4. CASE SimTickAllowed(world, time, seen)
    <3>1. (IF runtime.status = "paused" /\ a # NoAction
             THEN Sim!Resume(sim, a, time) ELSE sim) \in Sim!State
      BY <1>1, <1>3, ResumeFacts DEF SimTyped, Touches
    <3> QED
      BY <2>4, <3>1 DEF SimTickAllowed, a
  <2> QED
    BY <1>2, <2>1, <2>2, <2>3, <2>4
<1>5. sim' \in Sim!State
  BY <1>3, <1>4, UpdateFacts
<1>6. worked' \in [ActionId -> Int]
  BY <1>3, <1>4, ElapsedType DEF SimTyped
<1> QED
  BY <1>5, <1>6

\* Every step keeps the types.
LEMMA SimTypedStep ==
    ASSUME SimTyped, [SimNext]_simVars
    PROVE  SimTyped'
<1>1. TypeOK'
  BY SimStepIsStep, TypeStep DEF SimTyped
<1>2. CASE SimBegin
  BY <1>1, <1>2, SimBeginTyped DEF SimTyped
<1>3. CASE \E n \in Action : SimFollow(n)
  BY <1>1, <1>3, SimFollowTyped DEF SimTyped, TypeOK, SimFollow
<1>4. CASE Reconfigure
  BY <1>1, <1>4, ReconfigureFacts DEF SimTyped, Reconfigure
<1>5. CASE UNCHANGED <<sim, worked>>
  BY <1>1, <1>5 DEF SimTyped
<1> QED
  BY <1>2, <1>3, <1>4, <1>5 DEF SimNext, SimWalk, SimOther, SimRefuse, SimFinish, simVars

\* The simulator starts with nothing on record.
LEMMA StartFacts ==
    /\ Sim!Start \in Sim!State /\ Sim!Start.active = NoAction
    /\ \A a \in ActionId : Sim!Start.records[a].status = "idle"
<1>1. Sim!NoRecord \in Sim!Record /\ Sim!NoRecord.status = "idle"
  BY DEF Sim!NoRecord, Sim!Record, Sim!RecordStatus
<1>2. [a \in ActionId |-> Sim!NoRecord] \in [ActionId -> Sim!Record]
  BY <1>1
<1>3. [c \in Capability |-> "available"] \in [Capability -> Sim!Availability]
  BY DEF Sim!Availability
<1> QED
  BY <1>1, <1>2, <1>3 DEF Sim!Start, Sim!State

\* The types hold in every reachable state.
LEMMA SimTypedCorrect == SimSpec => []SimTyped
<1>1. SimInit => SimTyped
  <2> SUFFICES ASSUME SimInit PROVE SimTyped
    OBVIOUS
  <2>1. TypeOK
    BY InitTyped DEF SimInit
  <2>2. worked \in [ActionId -> Int]
    BY DEF SimInit
  <2> QED
    BY <2>1, <2>2, StartFacts DEF SimInit, SimTyped
<1> QED
  BY <1>1, SimTypedStep, PTL DEF SimSpec

\* The executor's records, its active action and the tree's variables always
\* have their types, whatever is injected.
THEOREM SimTypeCorrect == SimSpec => []SimTypeOK
<1>1. SimTyped => SimTypeOK
  BY DEF SimTyped, SimTypeOK
<1> QED
  BY <1>1, SimTypedCorrect, PTL

\* A mission on the simulator is a mission: what is proved of every MissionTree
\* holds of it.
THEOREM SimRefines == SimSpec => Spec
<1>1. SimInit => Init
  BY DEF SimInit
<1> QED
  BY <1>1, SimStepIsStep, SimTypedCorrect, PTL DEF SimSpec, Spec

-----------------------------------------------------------------------------
(* The invariant that ties the executor to the tree.                       *)

\* At most the active action is at work, its record is in order, and if there
\* is an active action it is at work.
Sound(s) ==
    /\ \A a \in ActionId : s.records[a].status \in Working =>
         /\ s.active = a
         /\ s.records[a].capability \in Capability
         /\ s.records[a].paused = (s.records[a].status = "paused")
    /\ s.active # NoAction => s.records[s.active].status \in Working

\* The tree of a mission that goes on waits for an action at work, by name.
AwaitInv ==
    \A a \in ActionId : Works(a) =>
      Awaited(a) /\ runtime.activeActionId = a /\ ~terminal

\* The executor knows exactly the actions the tree has submitted.
KnownInv ==
    \A n \in Action : n \in submitted <=> Sim!Known(sim, ActionOf[n])

\* The action the runtime names is active, or it has just succeeded and the walk
\* is on its way down to the node that waits for it.
NamedInv ==
    ~terminal /\ runtime.activeActionId # NoAction =>
      \/ sim.active = runtime.activeActionId
      \/ /\ sim.records[runtime.activeActionId].status = "succeeded"
         /\ phase = "enter" /\ Awaited(runtime.activeActionId)

SimInv == Sound(sim) /\ AwaitInv /\ KnownInv /\ NamedInv

\* The calls keep the executor sound: pause() of the active action.
LEMMA PauseSound ==
    ASSUME NEW s \in Sim!State, Sound(s), NEW t \in Int, s.active # NoAction
    PROVE  LET u == Sim!Pause(s, s.active, t)
           IN  /\ u \in Sim!State /\ Sound(u) /\ u.active = s.active
               /\ u.records[s.active].status = "paused"
               /\ \A b \in ActionId \ {s.active} : u.records[b] = s.records[b]
<1> DEFINE a == s.active
           u == Sim!Pause(s, a, t)
<1>1. a \in ActionId
  BY StateParts
<1>2. s.records[a].status \in Working /\ s.records[a].capability \in Capability
  BY <1>1 DEF Sound
<1>3. Sim!Known(s, a) /\ s.records[a].status # "succeeded"
  BY <1>2 DEF Working, Sim!Known
<1> HIDE DEF a, u
<1>4. /\ u \in Sim!State /\ u.active = a
      /\ \A b \in ActionId \ {a} : u.records[b] = s.records[b]
      /\ u.records[a].status = "paused" /\ u.records[a].paused
      /\ u.records[a].capability = s.records[a].capability
  BY <1>1, <1>3, PauseFacts DEF Touches, u, a
<1>5. u.records[a].paused = (u.records[a].status = "paused")
  <2>1. u.records[a] \in Sim!Record
    BY <1>1, <1>4, StateParts
  <2>2. u.records[a].paused \in BOOLEAN
    BY <2>1 DEF Sim!Record
  <2> QED
    BY <1>4, <2>2
<1>6. Sound(u)
  BY <1>2, <1>4, <1>5 DEF Sound, Working, a
<1> QED
  BY <1>4, <1>6 DEF a, u

\* resume() of the active action.
LEMMA ResumeSound ==
    ASSUME NEW s \in Sim!State, Sound(s), NEW t \in Int, s.active # NoAction
    PROVE  LET u == Sim!Resume(s, s.active, t)
           IN  /\ u \in Sim!State /\ Sound(u) /\ u.active = s.active
               /\ u.records[s.active].status \in Working \ {"paused"}
               /\ u.records[s.active].status \in {"running", s.records[s.active].status}
               /\ \A b \in ActionId \ {s.active} : u.records[b] = s.records[b]
<1> DEFINE a == s.active
           u == Sim!Resume(s, a, t)
<1>1. a \in ActionId
  BY StateParts
<1>2. s.records[a].status \in Working /\ s.records[a].capability \in Capability
  BY <1>1 DEF Sound
<1>3. Sim!Known(s, a)
  BY <1>2 DEF Working, Sim!Known
<1> HIDE DEF a, u
<1>4. /\ u \in Sim!State /\ u.active = a
      /\ \A b \in ActionId \ {a} : u.records[b] = s.records[b]
      /\ u.records[a].status =
           IF s.records[a].status = "paused" THEN "running" ELSE s.records[a].status
      /\ ~u.records[a].paused
      /\ u.records[a].capability = s.records[a].capability
  BY <1>1, <1>3, ResumeFacts DEF Touches, u, a
<1>5. u.records[a].status \in Working \ {"paused"}
  BY <1>2, <1>4 DEF Working
<1>6. u.records[a].paused = (u.records[a].status = "paused")
  <2>1. u.records[a] \in Sim!Record
    BY <1>1, <1>4, StateParts
  <2>2. u.records[a].paused \in BOOLEAN
    BY <2>1 DEF Sim!Record
  <2> QED
    BY <1>4, <1>5, <2>2
<1>7. Sound(u)
  BY <1>2, <1>4, <1>5, <1>6 DEF Sound, a
<1>8. u.records[a].status \in {"running", s.records[a].status}
  BY <1>4
<1> QED
  BY <1>4, <1>5, <1>7, <1>8 DEF a, u

\* cancel() of the active action.
LEMMA CancelSound ==
    ASSUME NEW s \in Sim!State, Sound(s), s.active # NoAction
    PROVE  LET u == Sim!Cancel(s, s.active)
           IN  /\ u \in Sim!State /\ Sound(u) /\ u.active = NoAction
               /\ u.records[s.active].status = "cancelled"
               /\ \A b \in ActionId \ {s.active} : u.records[b] = s.records[b]
<1> DEFINE a == s.active
           u == Sim!Cancel(s, a)
<1>1. a \in ActionId
  BY StateParts
<1>2. Sim!Known(s, a)
  BY <1>1 DEF Sound, Working, Sim!Known
<1> HIDE DEF a, u
<1>3. /\ u \in Sim!State /\ u.active = NoAction
      /\ \A b \in ActionId \ {a} : u.records[b] = s.records[b]
      /\ u.records[a].status = "cancelled"
  BY <1>1, <1>2, CancelFacts DEF Touches, u, a
<1>4. Sound(u)
  BY <1>3 DEF Sound, Working, a
<1> QED
  BY <1>3, <1>4 DEF a, u

\* update() lets an action at work run or succeed; a paused one stays paused.
LEMMA UpdateSound ==
    ASSUME NEW s \in Sim!State, Sound(s), NEW t \in Int
    PROVE  LET u == Sim!Update(s, t)
               a == s.active
           IN  /\ u \in Sim!State /\ Sound(u)
               /\ \A b \in ActionId \ {a} : u.records[b] = s.records[b]
               /\ a = NoAction => u = s
               /\ a # NoAction =>
                    \/ s.records[a].status = "paused" /\ u = s
                    \/ /\ s.records[a].status # "paused"
                       /\ u.active = NoAction
                       /\ u.records[a] = [s.records[a] EXCEPT !.status = "succeeded"]
                       /\ u.records[a].status = "succeeded"
                       /\ Sim!Worked(s.records[a], t) >= DurationOf[s.records[a].capability]
                    \/ /\ s.records[a].status # "paused"
                       /\ u.active = a
                       /\ u.records[a] = [s.records[a] EXCEPT !.status = "running"]
                       /\ u.records[a].status = "running"
<1> DEFINE a == s.active
           r == s.records[a]
           u == Sim!Update(s, t)
<1>1. CASE a = NoAction
  BY <1>1, UpdateFacts
<1>2. CASE a # NoAction
  <2>1. a \in ActionId
    BY <1>2, StateParts
  <2>2. r \in Sim!Record
    BY <2>1, StateParts
  <2>3. /\ r.status \in Working /\ r.capability \in Capability
        /\ r.paused = (r.status = "paused")
    BY <1>2, <2>1 DEF Sound
  <2>4. /\ u \in Sim!State
        /\ \A b \in ActionId \ {a} : u.records[b] = s.records[b]
        /\ IF r.paused \/ r.status \in {"idle", "cancelled", "succeeded"}
             THEN u = s
           ELSE IF Sim!Worked(r, t) >= DurationOf[r.capability]
             THEN /\ u.active = NoAction
                  /\ u.records[a] = [r EXCEPT !.status = "succeeded"]
           ELSE /\ u.active = a
                /\ u.records[a] = [r EXCEPT !.status = "running"]
    BY <1>2, UpdateFacts
  <2>5. \A b \in ActionId \ {a} : s.records[b].status \notin Working
    BY DEF Sound
  <2> HIDE DEF a, r, u
  <2>6. CASE r.status = "paused"
    <3>1. u = s
      BY <2>3, <2>4, <2>6
    <3> QED
      BY <1>2, <2>4, <2>6, <3>1 DEF u, r, a
  <2>7. CASE r.status # "paused" /\ Sim!Worked(r, t) >= DurationOf[r.capability]
    <3>1. /\ u.active = NoAction
          /\ u.records[a] = [r EXCEPT !.status = "succeeded"]
      BY <2>3, <2>4, <2>7 DEF Working
    <3>2. u.records[a].status = "succeeded"
      BY <2>2, <3>1, StatusRecord DEF Sim!RecordStatus
    <3>3. Sound(u)
      BY <2>4, <2>5, <3>1, <3>2 DEF Sound, Working
    <3> QED
      BY <1>2, <2>4, <2>7, <3>1, <3>2, <3>3 DEF u, r, a
  <2>8. CASE r.status # "paused" /\ ~(Sim!Worked(r, t) >= DurationOf[r.capability])
    <3>1. /\ u.active = a
          /\ u.records[a] = [r EXCEPT !.status = "running"]
      BY <2>3, <2>4, <2>8 DEF Working
    <3>2. /\ u.records[a].status = "running" /\ u.records[a].capability = r.capability
          /\ u.records[a].paused = r.paused
      BY <2>2, <3>1, StatusRecord DEF Sim!RecordStatus
    <3>3. u.records[a].paused = (u.records[a].status = "paused")
      BY <2>3, <2>8, <3>2
    <3>4. "running" \in Working
      BY DEF Working
    <3>5. Sound(u)
      BY <2>1, <2>3, <2>4, <2>5, <3>1, <3>2, <3>3, <3>4 DEF Sound
    <3> QED
      BY <1>2, <2>4, <2>8, <3>1, <3>2, <3>5 DEF u, r, a
  <2> QED
    BY <2>6, <2>7, <2>8
<1> QED
  BY <1>1, <1>2

\* The start of a tick calls no node and names no other action.
LEMMA BeginNames ==
    ASSUME TypeOK, NEW world \in WorldState, NEW time \in Int, NEW table, NEW seen,
           \/ TickTerminal(world, time)
           \/ TickPaused(world, time, table)
           \/ TickAborted(world, time, table)
           \/ TickAllowed(world, time, table, seen)
    PROVE  /\ runtime'.activeActionId = runtime.activeActionId
           /\ last' = last /\ submitted' = submitted /\ now' = time
           /\ phase = "out" /\ (terminal => terminal')
<1> DEFINE seen_ == Observed(world, time)
<1>1. seen_ \in MissionRuntime /\ seen_.activeActionId = runtime.activeActionId
  BY ObservedType
<1> HIDE DEF seen_
<1>2. \/ runtime' = [runtime EXCEPT !.airborne = world.airborne]
      \/ runtime' = [seen_ EXCEPT !.status = "paused"]
      \/ runtime' = [seen_ EXCEPT !.status = "failed",
                       !.failureReason = TRUE, !.finishedAt = time]
      \/ runtime' = [seen_ EXCEPT !.status = "running"]
  BY DEF TickTerminal, TickPaused, TickAborted, TickAllowed, seen_
<1>3. runtime'.activeActionId = runtime.activeActionId
  BY <1>1, <1>2 DEF MissionRuntime, TypeOK
<1>4. /\ last' = last /\ submitted' = submitted /\ now' = time
      /\ phase = "out" /\ (terminal => terminal')
  BY DEF TickTerminal, TickPaused, TickAborted, TickAllowed, nodeVars
<1> QED
  BY <1>3, <1>4

\* What a record at work may become in one step.
Onward == {"running", "paused", "succeeded", "cancelled"}

\* The call a tick makes before update() is for the action at work, if any; it
\* starts no other, and a mission that ends leaves none.
LEMMA SimBeginShape ==
    ASSUME SimTyped, SimInv, SimBegin
    PROVE  \E s \in Sim!State, time \in Int :
             /\ Sound(s) /\ sim' = Sim!Update(s, time)
             /\ \A b \in ActionId :
                  /\ s.records[b].status \in Working => Works(b)
                  /\ Sim!Known(s, b) <=> Sim!Known(sim, b)
                  /\ \/ s.records[b].status = sim.records[b].status
                     \/ b = sim.active /\ s.records[b].status \in Onward
             /\ s.active \in {NoAction, sim.active}
             /\ terminal' => s.active = NoAction
             /\ ~terminal' => s.active = runtime.activeActionId
             /\ s.active # NoAction =>
                  phase' = "enter" \/ s.records[s.active].status = "paused"
             /\ runtime'.activeActionId = runtime.activeActionId
             /\ last' = last /\ submitted' = submitted /\ (terminal => terminal')
<1> DEFINE a == runtime.activeActionId
<1>1. PICK time \in Times, world \in Sense,
           seen \in SUBSET Event :
           \/ SimTickTerminal(world, time)
           \/ SimTickPaused(world, time)
           \/ SimTickAborted(world, time)
           \/ SimTickAllowed(world, time, seen)
  BY SimBeginCases
<1>2. time \in Int /\ world \in WorldState
  BY <1>1, EnvironmentAssumption DEF Times
<1>3. \/ TickTerminal(world, time)
      \/ TickPaused(world, time, Sim!Capabilities(sim))
      \/ TickAborted(world, time, Sim!Capabilities(sim))
      \/ TickAllowed(world, time, Sim!Capabilities(sim), seen)
  BY <1>1 DEF SimTickTerminal, SimTickPaused, SimTickAborted, SimTickAllowed
<1>4. TypeOK
  BY DEF SimTyped
<1>5. /\ runtime'.activeActionId = a
      /\ last' = last /\ submitted' = submitted
      /\ phase = "out" /\ (terminal => terminal')
  BY <1>2, <1>3, <1>4, BeginNames
<1>6. /\ sim \in Sim!State /\ Sound(sim) /\ sim.active \in ActionId \cup {NoAction}
      /\ sim.active # NoAction => Works(sim.active)
  BY StateParts DEF SimTyped, SimInv, Sound, Works
<1>7. /\ ~terminal => sim.active = a
      /\ terminal => sim.active = NoAction
  <2>1. sim.active # NoAction => a = sim.active /\ ~terminal
    BY <1>6 DEF SimInv, AwaitInv
  <2>2. ~terminal /\ a # NoAction => sim.active = a
    BY <1>5 DEF SimInv, NamedInv
  <2> QED
    BY <2>1, <2>2
<1> HIDE DEF a
<1> DEFINE Shape(s) ==
             /\ Sound(s) /\ sim' = Sim!Update(s, time)
             /\ \A b \in ActionId :
                  /\ s.records[b].status \in Working => Works(b)
                  /\ Sim!Known(s, b) <=> Sim!Known(sim, b)
                  /\ \/ s.records[b].status = sim.records[b].status
                     \/ b = sim.active /\ s.records[b].status \in Onward
             /\ s.active \in {NoAction, sim.active}
             /\ terminal' => s.active = NoAction
             /\ ~terminal' => s.active = a
             /\ s.active # NoAction =>
                  phase' = "enter" \/ s.records[s.active].status = "paused"
<1>8. \E s \in Sim!State : Shape(s)
  <2>1. CASE SimTickTerminal(world, time)
    <3>1. sim' = Sim!Update(sim, time) /\ terminal /\ terminal'
      BY <2>1 DEF SimTickTerminal, TickTerminal
    <3>2. Shape(sim)
      BY <1>6, <1>7, <3>1 DEF Works
    <3> QED
      BY <1>6, <3>2
  <2>2. CASE SimTickPaused(world, time)
    <3>1. /\ sim' = Sim!Update(IF a = NoAction THEN sim ELSE Sim!Pause(sim, a, time), time)
          /\ ~terminal /\ ~terminal'
      BY <2>2 DEF SimTickPaused, TickPaused, a
    <3>2. CASE a = NoAction
      <4>1. Shape(sim)
        BY <1>6, <1>7, <3>1, <3>2 DEF Works
      <4> QED
        BY <1>6, <4>1
    <3>3. CASE a # NoAction
      <4> DEFINE s == Sim!Pause(sim, a, time)
      <4>1. /\ s \in Sim!State /\ Sound(s) /\ s.active = a
            /\ s.records[a].status = "paused"
            /\ \A b \in ActionId \ {a} : s.records[b] = sim.records[b]
        BY <1>2, <1>6, <1>7, <3>1, <3>3, PauseSound
      <4>2. sim' = Sim!Update(s, time)
        BY <3>1, <3>3
      <4>3. Works(a)
        BY <1>6, <1>7, <3>1, <3>3
      <4> HIDE DEF s
      <4>4. \A b \in ActionId :
              /\ s.records[b].status \in Working => Works(b)
              /\ Sim!Known(s, b) <=> Sim!Known(sim, b)
              /\ \/ s.records[b].status = sim.records[b].status
                 \/ b = sim.active /\ s.records[b].status \in Onward
        BY <1>7, <3>1, <4>1, <4>3 DEF Works, Working, Onward, Sim!Known
      <4>5. s.active \in {NoAction, sim.active}
        BY <1>7, <3>1, <4>1
      <4> QED
        BY <3>1, <4>1, <4>2, <4>4, <4>5
    <3> QED
      BY <3>2, <3>3
  <2>3. CASE SimTickAborted(world, time)
    <3>1. /\ sim' = Sim!Update(IF a = NoAction THEN sim ELSE Sim!Cancel(sim, a), time)
          /\ ~terminal /\ terminal'
      BY <2>3 DEF SimTickAborted, TickAborted, a
    <3>2. CASE a = NoAction
      <4>1. Shape(sim)
        BY <1>6, <1>7, <3>1, <3>2 DEF Works
      <4> QED
        BY <1>6, <4>1
    <3>3. CASE a # NoAction
      <4> DEFINE s == Sim!Cancel(sim, a)
      <4>1. /\ s \in Sim!State /\ Sound(s) /\ s.active = NoAction
            /\ s.records[a].status = "cancelled"
            /\ \A b \in ActionId \ {a} : s.records[b] = sim.records[b]
        BY <1>6, <1>7, <3>1, <3>3, CancelSound
      <4>2. sim' = Sim!Update(s, time)
        BY <3>1, <3>3
      <4>3. Works(a)
        BY <1>6, <1>7, <3>1, <3>3
      <4> HIDE DEF s
      <4>4. \A b \in ActionId :
              /\ s.records[b].status \in Working => Works(b)
              /\ Sim!Known(s, b) <=> Sim!Known(sim, b)
              /\ \/ s.records[b].status = sim.records[b].status
                 \/ b = sim.active /\ s.records[b].status \in Onward
        BY <1>7, <3>1, <4>1, <4>3 DEF Works, Working, Onward, Sim!Known
      <4>5. s.active \in {NoAction, sim.active}
        BY <1>7, <3>1, <4>1
      <4> QED
        BY <3>1, <4>1, <4>2, <4>4, <4>5
    <3> QED
      BY <3>2, <3>3
  <2>4. CASE SimTickAllowed(world, time, seen)
    <3> DEFINE resuming == runtime.status = "paused" /\ a # NoAction
    <3>1. /\ sim' = Sim!Update(IF resuming THEN Sim!Resume(sim, a, time) ELSE sim, time)
          /\ ~terminal /\ ~terminal' /\ phase' = "enter"
      BY <2>4 DEF SimTickAllowed, TickAllowed, a
    <3>2. CASE ~resuming
      <4>1. Shape(sim)
        BY <1>6, <1>7, <3>1, <3>2 DEF Works
      <4> QED
        BY <1>6, <4>1
    <3>3. CASE resuming
      <4> DEFINE s == Sim!Resume(sim, a, time)
      <4>1. /\ s \in Sim!State /\ Sound(s) /\ s.active = a
            /\ s.records[a].status \in Working
            /\ s.records[a].status \in {"running", sim.records[a].status}
            /\ \A b \in ActionId \ {a} : s.records[b] = sim.records[b]
        BY <1>2, <1>6, <1>7, <3>1, <3>3, ResumeSound
      <4>2. sim' = Sim!Update(s, time)
        BY <3>1, <3>3
      <4>3. Works(a)
        BY <1>6, <1>7, <3>1, <3>3
      <4> HIDE DEF s
      <4>4. \A b \in ActionId :
              /\ s.records[b].status \in Working => Works(b)
              /\ Sim!Known(s, b) <=> Sim!Known(sim, b)
              /\ \/ s.records[b].status = sim.records[b].status
                 \/ b = sim.active /\ s.records[b].status \in Onward
        BY <1>7, <3>1, <4>1, <4>3 DEF Works, Working, Onward, Sim!Known
      <4>5. s.active \in {NoAction, sim.active}
        BY <1>7, <3>1, <4>1
      <4> QED
        BY <3>1, <4>1, <4>2, <4>4, <4>5
    <3> QED
      BY <3>2, <3>3
  <2> QED
    BY <1>1, <2>1, <2>2, <2>3, <2>4
<1> QED
  BY <1>2, <1>5, <1>8 DEF a

\* The start of a tick keeps SimInv: an action that update() finishes is one the
\* walk that follows goes down to.
LEMMA SimBeginKeeps ==
    ASSUME SimTyped, SimInv, SimBegin
    PROVE  SimInv'
<1>1. PICK s \in Sim!State, time \in Int :
             /\ Sound(s) /\ sim' = Sim!Update(s, time)
             /\ \A b \in ActionId :
                  /\ s.records[b].status \in Working => Works(b)
                  /\ Sim!Known(s, b) <=> Sim!Known(sim, b)
                  /\ \/ s.records[b].status = sim.records[b].status
                     \/ b = sim.active /\ s.records[b].status \in Onward
             /\ s.active \in {NoAction, sim.active}
             /\ terminal' => s.active = NoAction
             /\ ~terminal' => s.active = runtime.activeActionId
             /\ s.active # NoAction =>
                  phase' = "enter" \/ s.records[s.active].status = "paused"
             /\ runtime'.activeActionId = runtime.activeActionId
             /\ last' = last /\ submitted' = submitted /\ (terminal => terminal')
  BY SimBeginShape
<1> DEFINE a == s.active
<1>2. /\ sim' \in Sim!State /\ Sound(sim')
      /\ \A b \in ActionId \ {a} : sim'.records[b] = s.records[b]
      /\ a = NoAction => sim' = s
      /\ a # NoAction =>
           \/ s.records[a].status = "paused" /\ sim' = s
           \/ /\ s.records[a].status # "paused"
              /\ sim'.active = NoAction
              /\ sim'.records[a].status = "succeeded"
           \/ /\ sim'.active = a
              /\ sim'.records[a].status = "running"
  BY <1>1, UpdateSound
<1>3. a \in ActionId \cup {NoAction}
  BY StateParts
<1>4. a # NoAction => s.records[a].status \in Working
  BY <1>1 DEF Sound
<1>5. \A b \in ActionId : Awaited(b)' <=> Awaited(b)
  BY <1>1 DEF Awaited
<1> HIDE DEF a
<1>6. \A b \in ActionId :
        /\ Works(b)' => Works(b)
        /\ Sim!Known(sim', b) <=> Sim!Known(sim, b)
  <2> SUFFICES ASSUME NEW b \in ActionId
               PROVE  /\ Works(b)' => Works(b)
                      /\ Sim!Known(sim', b) <=> Sim!Known(sim, b)
    OBVIOUS
  <2>1. CASE sim'.records[b] = s.records[b]
    BY <1>1, <2>1 DEF Works, Sim!Known
  <2>2. CASE b = a /\ sim'.records[b].status \in {"running", "succeeded"}
    <3>1. a # NoAction
      BY <2>2, AttributeAssumption
    <3>2. Works(b) /\ Sim!Known(s, b) /\ Sim!Known(sim', b)
      BY <1>1, <1>4, <2>2, <3>1 DEF Working, Sim!Known
    <3> QED
      BY <1>1, <3>2
  <2> QED
    BY <1>2, <2>1, <2>2, AttributeAssumption
<1>7. AwaitInv'
  <2> SUFFICES ASSUME NEW b \in ActionId, Works(b)'
               PROVE  Awaited(b)' /\ runtime'.activeActionId = b /\ ~terminal'
    BY DEF AwaitInv
  <2>1. Works(b)
    BY <1>6
  <2>2. Awaited(b) /\ runtime.activeActionId = b
    BY <2>1 DEF SimInv, AwaitInv
  <2>3. sim'.active = b /\ b # NoAction
    BY <1>2, AttributeAssumption DEF Sound, Works
  <2>4. ~terminal'
    BY <1>1, <1>2, <2>3 DEF a
  <2> QED
    BY <1>1, <1>5, <2>2, <2>4
<1>8. KnownInv'
  BY <1>1, <1>6, ActionFacts DEF SimInv, KnownInv
<1>9. NamedInv'
  <2> SUFFICES ASSUME ~terminal', runtime'.activeActionId # NoAction,
                      sim'.active # runtime'.activeActionId
               PROVE  /\ sim'.records[runtime'.activeActionId].status = "succeeded"
                      /\ phase' = "enter" /\ Awaited(runtime.activeActionId)'
    BY <1>1 DEF NamedInv
  <2>1. a = runtime.activeActionId /\ a # NoAction /\ a \in ActionId
    BY <1>1, <1>3 DEF a
  <2>2. s.records[a].status # "paused" /\ sim'.records[a].status = "succeeded"
    BY <1>1, <1>2, <2>1 DEF a
  <2>3. phase' = "enter"
    BY <1>1, <2>1, <2>2 DEF a
  <2>4. Awaited(a)
    BY <1>1, <1>4, <2>1 DEF SimInv, AwaitInv
  <2> QED
    BY <1>1, <1>5, <2>1, <2>2, <2>3, <2>4
<1> QED
  BY <1>2, <1>7, <1>8, <1>9 DEF SimInv

\* What is known of the walk of a plain mission.
WalkInv == StackInv /\ BranchInv /\ ActionInv /\ StatusInv

\* An action that is awaited is the one running leaf of the tree.
LEMMA AwaitedRuns ==
    ASSUME Plain, NEW n \in Action
    PROVE  Awaited(ActionOf[n]) <=> n \in RunningLeaf
<1>1. Action \subseteq Leaf
  BY LeafFacts DEF Action
<1> QED
  BY <1>1 DEF Plain, Awaited, RunningLeaf

\* Awaiting is running, for some node.
LEMMA AwaitedLeaf ==
    ASSUME NEW a, Awaited(a)
    PROVE  \E n \in Action : ActionOf[n] = a /\ n \in RunningLeaf
<1>1. Action \subseteq Leaf
  BY LeafFacts DEF Action
<1> QED
  BY <1>1 DEF Awaited, RunningLeaf

\* A step of the walk that touches no action changes neither the result of one
\* nor the name of the active one.
LEMMA SimOtherFacts ==
    ASSUME TypeOK, NEW n \in Node, SimOther(n)
    PROVE  /\ sim' = sim
           /\ runtime'.activeActionId = runtime.activeActionId
           /\ submitted' = submitted /\ terminal' = terminal
           /\ \A m \in Action : last'[m] = last[m]
<1>1. TypeOK /\ sim' = sim
  BY DEF SimOther
<1>2. /\ runtime'.activeActionId = runtime.activeActionId
      /\ submitted' = submitted /\ terminal' = terminal
  <2>1. runtime' = runtime \/ runtime' = SetNode(n) \/ runtime' = Reject(n)
    BY DEF SimOther, EnterComposite, StopAtChild, AdvanceChild, TickWait,
           TickRequireCapability, TickWaitEvent, TickEmitEvent
  <2>2. runtime'.activeActionId = runtime.activeActionId
    BY <1>1, <2>1 DEF SetNode, Reject, TypeOK, MissionRuntime
  <2> QED
    BY <2>2 DEF SimOther, EnterComposite, StopAtChild, AdvanceChild, TickWait,
           TickRequireCapability, TickWaitEvent, TickEmitEvent
<1>3. \A m \in Action : last'[m] = last[m]
  <2>1. CASE EnterComposite(n) \/ StopAtChild(n) \/ AdvanceChild(n)
    <3>1. n \in Composite /\ (last' = last \/ \E status : Return(n, status))
      BY <1>1, <2>1, ParentFacts DEF EnterComposite, StopAtChild, AdvanceChild, Loop, TypeOK
    <3>2. Action \subseteq Leaf
      BY LeafFacts DEF Action
    <3> QED
      BY <1>1, <3>1, <3>2, CompositeKeepsLeaves
  <2>2. CASE \/ TickWait(n) \/ TickRequireCapability(n)
             \/ TickWaitEvent(n) \/ TickEmitEvent(n)
    <3>1. Kind[n] # "ExecuteAction" /\ \E status : Return(n, status)
      BY <2>2 DEF TickWait, TickRequireCapability, TickWaitEvent, TickEmitEvent, Ticking
    <3> QED
      BY <1>1, <3>1 DEF Return, Action, TypeOK
  <2> QED
    BY <2>1, <2>2 DEF SimOther
<1> QED
  BY <1>1, <1>2, <1>3

\* A step of the walk that touches no action keeps SimInv.
LEMMA SimOtherKeeps ==
    ASSUME SimTyped, Plain, WalkInv, SimInv, NEW n \in Node, SimOther(n)
    PROVE  SimInv'
<1>1. TypeOK /\ sim' = sim
  BY DEF SimTyped, SimOther
<1>2. /\ runtime'.activeActionId = runtime.activeActionId
      /\ submitted' = submitted /\ terminal' = terminal
  BY <1>1, SimOtherFacts
<1>3. \A m \in Action : last'[m] = last[m]
  BY <1>1, SimOtherFacts
<1>4. \A a \in ActionId : Awaited(a)' <=> Awaited(a)
  BY <1>3 DEF Awaited
<1>5. phase = "enter" /\ phase' # "enter" => RunningLeaf \cap Action = {}
  <2>1. CASE EnterComposite(n)
    BY <1>1, <2>1, EnterCalls DEF WalkInv, Plain
  <2>2. CASE StopAtChild(n) \/ AdvanceChild(n)
    BY <2>2 DEF StopAtChild, AdvanceChild
  <2>3. CASE \/ TickWait(n) \/ TickRequireCapability(n)
             \/ TickWaitEvent(n) \/ TickEmitEvent(n)
    <3>1. LeafStep(n) /\ Kind[n] # "ExecuteAction"
      BY <2>3, LeafActions
         DEF TickWait, TickRequireCapability, TickWaitEvent, TickEmitEvent, Ticking
    <3>2. RunningLeaf \subseteq {n}
      BY <1>1, <3>1, LeafRuns DEF WalkInv, BranchInv
    <3> QED
      BY <3>1, <3>2 DEF Action
  <2> QED
    BY <2>1, <2>2, <2>3 DEF SimOther
<1>6. NamedInv'
  <2> SUFFICES ASSUME ~terminal, runtime.activeActionId # NoAction,
                      sim.active # runtime.activeActionId
               PROVE  /\ sim.records[runtime.activeActionId].status = "succeeded"
                      /\ phase' = "enter" /\ Awaited(runtime.activeActionId)'
    BY <1>1, <1>2 DEF NamedInv, Awaited
  <2>1. /\ sim.records[runtime.activeActionId].status = "succeeded"
        /\ phase = "enter" /\ Awaited(runtime.activeActionId)
    BY DEF SimInv, NamedInv
  <2>2. runtime.activeActionId \in ActionId
    BY <1>1 DEF TypeOK, MissionRuntime
  <2>3. phase' = "enter"
    BY <1>5, <2>1, AwaitedLeaf
  <2> QED
    BY <1>2, <1>3, <2>1, <2>3 DEF Awaited
<1>7. AwaitInv' /\ KnownInv' /\ Sound(sim')
  BY <1>1, <1>2, <1>4 DEF SimInv, AwaitInv, KnownInv, Works
<1> QED
  BY <1>6, <1>7 DEF SimInv

\* A refused submission leaves executor and runtime as they were.
LEMMA SimRefuseKeeps ==
    ASSUME SimTyped, Plain, WalkInv, SimInv, NEW n \in Action, SimRefuse(n)
    PROVE  SimInv'
<1>1. TypeOK /\ sim' = sim /\ RefuseAction(n) /\ n \in Node
  BY ActionFacts DEF SimTyped, SimRefuse
<1>2. /\ LeafStep(n) /\ n \notin submitted /\ submitted' = submitted
      /\ terminal' = terminal /\ runtime' = Reject(n) /\ Return(n, "failure")
  BY <1>1, LeafActions DEF RefuseAction
<1>3. RunningLeaf \subseteq {n}
  BY <1>1, <1>2, LeafRuns DEF WalkInv, BranchInv
<1>4. n \notin RunningLeaf
  BY <1>2 DEF WalkInv, ActionInv, Outstanding, RunningLeaf
<1>5. \A a \in ActionId : ~Awaited(a)
  BY <1>3, <1>4, AwaitedLeaf
<1>6. runtime'.activeActionId = runtime.activeActionId
  BY <1>1, <1>2 DEF Reject, SetNode, TypeOK, MissionRuntime
<1>7. \A a \in ActionId : ~Works(a)
  BY <1>5 DEF SimInv, AwaitInv
<1>8. AwaitInv' /\ KnownInv' /\ Sound(sim')
  BY <1>1, <1>2, <1>7 DEF SimInv, AwaitInv, KnownInv, Works
<1>9. runtime.activeActionId \in ActionId \cup {NoAction}
  BY <1>1 DEF TypeOK, MissionRuntime
<1>10. NamedInv'
  BY <1>1, <1>2, <1>5, <1>6, <1>9 DEF SimInv, NamedInv
<1> QED
  BY <1>8, <1>10 DEF SimInv

\* An action that was submitted before is followed: it is at work, or update()
\* has just finished it and the runtime forgets it.
LEMMA SimFollowOld ==
    ASSUME SimTyped, Plain, WalkInv, SimInv,
           NEW n \in Action, n \in submitted, SimFollow(n)
    PROVE  SimInv'
<1> DEFINE a == ActionOf[n]
<1>1. /\ TypeOK /\ n \in Node /\ a \in ActionId /\ a # NoAction
      /\ sim' = sim /\ FollowAction(n, Sim!Feedback(sim, a))
      /\ Sim!Feedback(sim, a) \in FeedbackStatus
  BY ActionFacts, AnswersAreFeedback, AttributeAssumption DEF SimTyped, SimFollow
<1>2. LeafStep(n) /\ submitted' = submitted /\ terminal' = terminal
  BY <1>1, LeafActions DEF FollowAction
<1>3. last[n] = "running" /\ runtime.activeActionId = a
  <2>1. last[n] = "running"
    BY <1>1, <1>2, LeafRuns DEF WalkInv, BranchInv, ActionInv
  <2> QED
    BY <2>1 DEF WalkInv, ActionInv, Outstanding
<1>4. ~terminal /\ phase = "enter"
  BY <1>2 DEF LeafStep, WalkInv, StatusInv, Ended
<1>5. \A m \in Node \ {n} : last'[m] = last[m]
  BY <1>1, <1>2 DEF LeafStep, Return, TypeOK
<1>6. \/ sim.active = a /\ Works(a)
      \/ sim.active = NoAction /\ sim.records[a].status = "succeeded"
  <2>1. CASE sim.active = a
    BY <1>1, <2>1 DEF SimInv, Sound, Works
  <2>2. CASE sim.active # a
    <3>1. sim.records[a].status = "succeeded"
      BY <1>1, <1>3, <1>4, <2>2 DEF SimInv, NamedInv
    <3>2. sim.active \in ActionId \cup {NoAction}
      BY StateParts DEF SimTyped
    <3>3. sim.active # NoAction => runtime.activeActionId = sim.active
      BY <3>2 DEF SimInv, Sound, AwaitInv, Works
    <3> QED
      BY <1>3, <2>2, <3>1, <3>3
  <2> QED
    BY <2>1, <2>2
<1> HIDE DEF a
<1>7. CASE sim.active = a /\ Works(a)
  <2>1. runtime' = SetNode(n) /\ Return(n, "running")
    BY <1>1, <1>7 DEF FollowAction, Sim!Feedback, Works, Working
  <2>2. runtime'.activeActionId = a /\ last'[n] = "running"
    BY <1>1, <1>3, <2>1 DEF SetNode, Return, TypeOK, MissionRuntime
  <2>3. Awaited(a)'
    BY <2>2 DEF Awaited, a
  <2>4. \A b \in ActionId : Works(b) => b = a
    BY <1>7 DEF SimInv, Sound, Works
  <2>5. AwaitInv'
    BY <1>1, <1>2, <1>4, <2>2, <2>3, <2>4 DEF AwaitInv, Works
  <2>6. NamedInv'
    BY <1>1, <1>7, <2>2 DEF NamedInv
  <2> QED
    BY <1>1, <1>2, <2>5, <2>6 DEF SimInv, KnownInv
<1>8. CASE sim.active = NoAction /\ sim.records[a].status = "succeeded"
  <2>1. runtime' = Deactivated(n, SetNode(n))
    BY <1>1, <1>8 DEF FollowAction, Sim!Feedback
  <2>2. SetNode(n) \in MissionRuntime /\ SetNode(n).activeActionId = a
    BY <1>1, <1>3 DEF SetNode, TypeOK, MissionRuntime
  <2>3. runtime'.activeActionId = NoAction
    BY <2>1, <2>2 DEF Deactivated, MissionRuntime, a
  <2>4. \A b \in ActionId : ~Works(b)
    BY <1>8, AttributeAssumption DEF SimInv, Sound, Works
  <2>5. AwaitInv' /\ NamedInv'
    BY <1>1, <2>3, <2>4 DEF AwaitInv, NamedInv, Works
  <2> QED
    BY <1>1, <1>2, <2>5 DEF SimInv, KnownInv
<1> QED
  BY <1>6, <1>7, <1>8

\* An action that is submitted is new to the executor, finds it free, and is at
\* work from now on.
LEMMA SimFollowNew ==
    ASSUME SimTyped, Plain, WalkInv, SimInv,
           NEW n \in Action, n \notin submitted, SimFollow(n)
    PROVE  /\ SimInv'
           /\ sim.active = NoAction /\ ~Sim!Known(sim, ActionOf[n])
           /\ Touches(sim, sim', ActionOf[n])
           /\ sim'.records[ActionOf[n]] = Begun(CapabilityOf[n], now)
<1> DEFINE a == ActionOf[n]
           fresh == Begun(CapabilityOf[n], now)
<1>1. /\ TypeOK /\ n \in Node /\ a \in ActionId /\ a # NoAction
      /\ CapabilityOf[n] \in Capability /\ now \in Int /\ sim \in Sim!State
  BY ActionFacts, AttributeAssumption DEF SimTyped, TypeOK
<1>2. /\ sim' = Sim!Submit(sim, a, CapabilityOf[n], now)
      /\ FollowAction(n, Sim!Feedback(sim', a))
  BY DEF SimFollow
<1>3. Sim!Feedback(sim', a) \in FeedbackStatus
  BY <1>1, SimFollowTyped, AnswersAreFeedback
<1>4. LeafStep(n) /\ submitted' = submitted \cup {n} /\ terminal' = terminal
  BY <1>1, <1>2, <1>3, LeafActions DEF FollowAction
<1>5. n \notin RunningLeaf
  BY DEF WalkInv, ActionInv, Outstanding, RunningLeaf
<1>6. RunningLeaf = {}
  BY <1>1, <1>4, <1>5, LeafRuns DEF WalkInv, BranchInv
<1>7. \A b \in ActionId : ~Works(b)
  BY <1>6, AwaitedLeaf DEF SimInv, AwaitInv
<1>8. sim.active = NoAction
  <2>1. sim.active \in ActionId \cup {NoAction}
    BY <1>1, StateParts
  <2> QED
    BY <1>7, <2>1 DEF SimInv, Sound, Works
<1>9. ~Sim!Known(sim, a)
  BY DEF SimInv, KnownInv
<1>10. /\ Touches(sim, sim', a) /\ sim'.active = a /\ sim'.records[a] = fresh
  <2> DEFINE c == CapabilityOf[n]
             u == Sim!Submit(sim, a, c, now)
  <2>1. /\ Touches(sim, u, a) /\ u.active = a
        /\ u.records[a] = Begun(c, now)
    <3>1. a \in ActionId /\ c \in Capability
      BY <1>1
    <3> HIDE DEF a, c
    <3> QED
      BY <1>1, <1>9, <3>1, SubmitFacts
  <2> QED
    BY <1>2, <2>1
<1>11. /\ fresh.status = "accepted" /\ fresh.capability = CapabilityOf[n]
       /\ fresh.paused = FALSE
  <2>1. Sim!NoRecord \in Sim!Record /\ Sim!NoRecord.paused = FALSE
    BY DEF Sim!NoRecord, Sim!Record, Sim!RecordStatus
  <2> QED
    BY <2>1 DEF Sim!Record, Begun
<1> HIDE DEF a, fresh
<1>12. ~terminal
  BY <1>4 DEF LeafStep, WalkInv, StatusInv, Ended
<1>13. runtime' = Activated(n) /\ Return(n, "running")
  BY <1>2, <1>10, <1>11 DEF FollowAction, Sim!Feedback
<1>14. runtime'.activeActionId = a /\ last'[n] = "running"
  BY <1>1, <1>13 DEF Activated, SetNode, Return, TypeOK, MissionRuntime, a
<1>15. Awaited(a)'
  BY <1>14 DEF Awaited, a
<1>16. \A b \in ActionId \ {a} : ~Works(b)' /\ Sim!Known(sim', b) = Sim!Known(sim, b)
  BY <1>7, <1>10 DEF Touches, Works, Sim!Known
<1>17. Sim!Known(sim', a) /\ Works(a)'
  BY <1>10, <1>11 DEF Works, Working, Sim!Known
<1>18. Sound(sim')
  BY <1>1, <1>10, <1>11, <1>16 DEF Sound, Works, Working
<1>19. AwaitInv' /\ NamedInv'
  BY <1>4, <1>10, <1>12, <1>14, <1>15, <1>16 DEF AwaitInv, NamedInv
<1>20. KnownInv'
  <2> SUFFICES ASSUME NEW m \in Action, m # n
               PROVE  m \in submitted' <=> Sim!Known(sim', ActionOf[m])
    BY <1>4, <1>17 DEF KnownInv, a
  <2>1. ActionOf[m] \in ActionId \ {a}
    BY ActionFacts DEF Plain, a
  <2>2. Sim!Known(sim', ActionOf[m]) = Sim!Known(sim, ActionOf[m])
    BY <1>16, <2>1
  <2> QED
    BY <1>4, <2>2 DEF SimInv, KnownInv
<1> QED
  BY <1>8, <1>9, <1>10, <1>18, <1>19, <1>20 DEF SimInv, a, fresh

\* Every step keeps SimInv.
LEMMA SimInvStep ==
    ASSUME SimTyped, Plain, WalkInv, SimInv, [SimNext]_simVars
    PROVE  SimInv'
<1>1. CASE SimFinish
  <2>1. /\ sim' = sim /\ last' = last /\ submitted' = submitted
        /\ phase = "back" /\ cursor = Root
        /\ terminal' => terminal \/ last[Root] # "running"
    BY <1>1 DEF SimFinish, FinishTick, nodeVars
  <2>2. runtime'.activeActionId = runtime.activeActionId
    BY <1>1 DEF SimFinish, FinishTick, SimTyped, TypeOK, MissionRuntime
  <2>3. terminal' => \A a \in ActionId : ~Works(a)
    <3>1. CASE terminal
      BY <3>1 DEF SimInv, AwaitInv
    <3>2. CASE last[Root] # "running"
      <4>1. RunningLeaf = {}
        BY <2>1, <3>2 DEF WalkInv, BranchInv, OneRunning
      <4> QED
        BY <4>1, AwaitedLeaf DEF SimInv, AwaitInv
    <3> QED
      BY <2>1, <3>1, <3>2
  <2>4. AwaitInv'
    BY <2>1, <2>2, <2>3 DEF SimInv, AwaitInv, Works, Awaited
  <2>5. NamedInv'
    <3>1. ~terminal' => ~terminal
      BY <1>1 DEF SimFinish, FinishTick
    <3> QED
      BY <2>1, <2>2, <3>1 DEF SimInv, NamedInv
  <2> QED
    BY <2>1, <2>4, <2>5 DEF SimInv, KnownInv
<1>2. CASE Reconfigure
  <2>1. sim'.records = sim.records /\ sim'.active = sim.active /\ UNCHANGED vars
    BY <1>2, ReconfigureFacts DEF SimTyped, Reconfigure
  <2>2. Sound(sim') /\ AwaitInv' /\ KnownInv' /\ NamedInv'
    BY <2>1 DEF SimInv, Sound, AwaitInv, KnownInv, NamedInv, Works, Awaited,
                Sim!Known, vars, nodeVars, walkVars
  <2> QED
    BY <2>2 DEF SimInv
<1>3. CASE UNCHANGED simVars
  BY <1>3 DEF SimInv, AwaitInv, KnownInv, NamedInv, Works, Awaited,
              simVars, vars, nodeVars, walkVars
<1>4. ASSUME NEW n \in Action, SimFollow(n) PROVE SimInv'
  BY <1>4, SimFollowOld, SimFollowNew
<1> QED
  BY <1>1, <1>2, <1>3, <1>4, SimBeginKeeps, SimOtherKeeps, SimRefuseKeeps
     DEF SimNext, SimWalk

\* The executor and the tree agree in every reachable state of a plain mission.
LEMMA SimCorrect == Plain /\ SimSpec => [](SimTyped /\ WalkInv /\ SimInv)
<1> SUFFICES ASSUME Plain PROVE SimSpec => [](SimTyped /\ WalkInv /\ SimInv)
  OBVIOUS
<1>1. SimInit => SimInv
  <2> SUFFICES ASSUME SimInit PROVE SimInv
    OBVIOUS
  <2>1. sim = Sim!Start /\ submitted = {} /\ runtime = FreshRuntime
    BY DEF SimInit, Init
  <2>2. \A a \in ActionId : ~Works(a) /\ ~Sim!Known(sim, a)
    BY <2>1, StartFacts DEF Works, Working, Sim!Known
  <2>3. sim.active = NoAction /\ runtime.activeActionId = NoAction
    BY <2>1, StartFacts DEF FreshRuntime
  <2> QED
    BY <2>1, <2>2, <2>3, ActionFacts
       DEF SimInv, Sound, AwaitInv, KnownInv, NamedInv, Works
<1>2. TypeOK /\ BranchIInv /\ StatusInv => WalkInv
  BY DEF Plain, BranchIInv, WalkInv
<1> QED
  BY <1>1, <1>2, SimInvStep, SimTypedCorrect, SimRefines, BranchCorrect, StatusCorrect, PTL
     DEF SimSpec

\* Without reactive nodes and with an id of its own for every action, the
\* executor works on exactly the action the mission runtime names: whatever the
\* tree, the world and the injected faults, a pause, resume or cancel reaches it.
THEOREM SimAgrees == Plain /\ SimSpec => []ActiveAgrees
<1>1. SimTyped /\ SimInv => ActiveAgrees
  <2> SUFFICES ASSUME SimTyped, SimInv, phase = "out", ~terminal
               PROVE  sim.active = runtime.activeActionId
    BY DEF ActiveAgrees
  <2>1. sim.active \in ActionId \cup {NoAction}
    BY StateParts DEF SimTyped
  <2> QED
    BY <2>1 DEF SimInv, Sound, AwaitInv, NamedInv, Works
<1> QED
  BY <1>1, SimCorrect, PTL

-----------------------------------------------------------------------------
(* The contract of ActionLifecycle.                                        *)

\* The refinement mapping: what feedback() would answer for each action.
Answers == [a \in ActionId |-> Sim!Feedback(sim, a)]

\* A step in which only the action at work changes its status, to one it may
\* have next, is a step of the contract.
LEMMA OnwardIsContract ==
    ASSUME NEW a \in ActionId, Works(a), sim'.records[a].status \in Onward,
           \A b \in ActionId \ {a} : sim'.records[b].status = sim.records[b].status
    PROVE  Contract!Next
<1>1. Answers' = [Answers EXCEPT ![a] = sim'.records[a].status]
  BY DEF Answers, Sim!Feedback
<1>2. Answers[a] \in Working
  BY DEF Answers, Sim!Feedback, Works
<1>3. \/ sim'.records[a].status \in Contract!Working \ {"accepted"}
      \/ sim'.records[a].status \in Contract!Over
  BY DEF Onward, Contract!Working, Contract!Over
<1>4. Contract!Proceed(a)
  BY <1>1, <1>2, <1>3 DEF Contract!Proceed, Contract!Working, Working, Answers
<1> QED
  BY <1>4 DEF Contract!Next

\* Steps that change no status stutter.
LEMMA SameAnswers ==
    ASSUME \A b \in ActionId : sim'.records[b].status = sim.records[b].status
    PROVE  Answers' = Answers
BY DEF Answers, Sim!Feedback

\* Every step of a plain mission is one the contract allows.
LEMMA ContractStep ==
    ASSUME SimTyped, Plain, WalkInv, SimInv, [SimNext]_simVars
    PROVE  Contract!Next \/ Answers' = Answers
<1>1. CASE SimBegin
  <2>1. PICK s \in Sim!State, time \in Int :
             /\ Sound(s) /\ sim' = Sim!Update(s, time)
             /\ \A b \in ActionId :
                  \/ s.records[b].status = sim.records[b].status
                  \/ b = sim.active /\ s.records[b].status \in Onward
             /\ s.active \in {NoAction, sim.active}
    BY <1>1, SimBeginShape
  <2>2. /\ \A b \in ActionId \ {s.active} : sim'.records[b] = s.records[b]
        /\ s.active = NoAction => sim' = s
        /\ s.active # NoAction =>
             \/ sim' = s
             \/ sim'.records[s.active].status \in {"succeeded", "running"}
    BY <2>1, UpdateSound
  <2>3. \A b \in ActionId :
           \/ sim'.records[b].status = sim.records[b].status
           \/ b = sim.active /\ sim'.records[b].status \in Onward
    BY <2>1, <2>2, AttributeAssumption DEF Onward
  <2>4. sim.active \in ActionId \cup {NoAction}
    BY StateParts DEF SimTyped
  <2>5. CASE \A b \in ActionId : sim'.records[b].status = sim.records[b].status
    BY <2>5, SameAnswers
  <2>6. CASE /\ sim.active \in ActionId
             /\ sim'.records[sim.active].status \in Onward
    <3>1. Works(sim.active)
      BY <2>6, AttributeAssumption DEF SimInv, Sound, Works
    <3>2. \A b \in ActionId \ {sim.active} :
            sim'.records[b].status = sim.records[b].status
      BY <2>3
    <3> QED
      BY <2>6, <3>1, <3>2, OnwardIsContract
  <2> QED
    BY <2>3, <2>4, <2>5, <2>6
<1>2. ASSUME NEW n \in Action, SimFollow(n)
      PROVE  Contract!Next \/ Answers' = Answers
  <2>1. CASE n \in submitted
    BY <1>2, <2>1 DEF SimFollow, Answers
  <2>2. CASE n \notin submitted
    <3> DEFINE a == ActionOf[n]
               fresh == Begun(CapabilityOf[n], now)
    <3>1. a \in ActionId
      BY ActionFacts
    <3>2. /\ sim.active = NoAction /\ ~Sim!Known(sim, a)
          /\ \A b \in ActionId \ {a} : sim'.records[b] = sim.records[b]
          /\ sim'.records[a] = fresh
      BY <1>2, <2>2, SimFollowNew DEF Touches
    <3>3. fresh.status = "accepted"
      <4>1. Sim!NoRecord \in Sim!Record
        BY DEF Sim!NoRecord, Sim!Record, Sim!RecordStatus
      <4> QED
        BY <4>1 DEF Sim!Record, Begun
    <3> HIDE DEF a, fresh
    <3>4. Answers' = [Answers EXCEPT ![a] = "accepted"] /\ Answers[a] = "idle"
      BY <3>1, <3>2, <3>3 DEF Answers, Sim!Feedback, Sim!Known
    <3>5. \A b \in ActionId : Answers[b] \notin Contract!Working
      BY <3>2, AttributeAssumption
         DEF SimInv, Sound, Answers, Sim!Feedback, Working, Contract!Working
    <3>6. Contract!Accept(a)
      BY <3>1, <3>4, <3>5 DEF Contract!Accept, Answers
    <3> QED
      BY <3>1, <3>6 DEF Contract!Next
  <2> QED
    BY <2>1, <2>2
<1>3. CASE Reconfigure
  BY <1>3, ReconfigureFacts, SameAnswers DEF SimTyped
<1>4. CASE UNCHANGED sim
  BY <1>4, SameAnswers
<1> QED
  BY <1>1, <1>2, <1>3, <1>4
     DEF SimNext, SimWalk, SimOther, SimRefuse, SimFinish, simVars

\* A plain mission and the simulated executor keep the contract: actions are
\* accepted one at a time, end once, and what has ended stays ended.
THEOREM SimKeepsLifecycle == Plain /\ SimSpec => LifecycleKept
<1>1. SimInit => Contract!Init
  <2> SUFFICES ASSUME SimInit PROVE Contract!Init
    OBVIOUS
  <2>1. \A a \in ActionId : Sim!Feedback(sim, a) = "idle"
    BY StartFacts DEF SimInit, Sim!Feedback
  <2> QED
    BY <2>1 DEF Contract!Init
<1>2. SimTyped /\ Plain /\ WalkInv /\ SimInv /\ [SimNext]_simVars
        => [Contract!Next]_Answers
  BY ContractStep
<1>3. LifecycleKept <=> Contract!Init /\ [][Contract!Next]_Answers
  BY DEF LifecycleKept, Contract!Spec, Answers
<1> QED
  <2> SUFFICES ASSUME Plain PROVE SimSpec => LifecycleKept
    OBVIOUS
  <2> QED
    BY <1>1, <1>2, <1>3, SimCorrect, PTL DEF SimSpec

-----------------------------------------------------------------------------
(* The invariant of the time accounting.                                   *)

\* The executor credits an action at work with no more than the time the
\* mission ran for it, up to its pause if it is paused, up to now if not.
Credited(a) ==
    LET r == sim.records[a]
    IN  IF r.status = "paused"
          THEN /\ runtime.status = "paused"
               /\ worked[a] >= r.pausedAt - r.startedAt - r.pausedFor
          ELSE /\ runtime.status = "running"
               /\ worked[a] >= now - r.startedAt - r.pausedFor

TimeInv ==
    /\ \A a \in ActionId : Works(a) => Credited(a)
    /\ \A a \in ActionId : worked[a] >= 0
    /\ \A a \in ActionId : sim.records[a].status = "succeeded" =>
         sim.records[a].capability \in Capability
    /\ WorkedFullTime

\* The fields of a record.
LEMMA RecordParts ==
    ASSUME NEW s \in Sim!State, NEW a \in ActionId
    PROVE  /\ s.records[a].startedAt \in Int /\ s.records[a].pausedAt \in Int
           /\ s.records[a].pausedFor \in Int /\ s.records[a].paused \in BOOLEAN
BY StateParts DEF Sim!Record

\* Positive is the larger of its argument and 0.
LEMMA PositiveFacts ==
    ASSUME NEW n \in Int
    PROVE  /\ Sim!Positive(n) \in Nat /\ Sim!Positive(n) >= n
           /\ \A w \in Nat : w >= n => w >= Sim!Positive(n)
BY DEF Sim!Positive

\* update() retires an action whose clock is credited to the mission only when
\* the credit covers its duration.
LEMMA UpdateCredits ==
    ASSUME NEW s \in Sim!State, Sound(s), NEW t \in Int, NEW w \in Nat,
           s.active # NoAction, s.records[s.active].status # "paused",
           w >= t - s.records[s.active].startedAt - s.records[s.active].pausedFor
    PROVE  LET a == s.active
               u == Sim!Update(s, t)
               r == u.records[a]
           IN  /\ r.status \in {"running", "succeeded"}
               /\ w >= t - r.startedAt - r.pausedFor
               /\ r.status = "succeeded" => w >= DurationOf[r.capability]
               /\ r.capability \in Capability
               /\ \A b \in ActionId \ {a} : u.records[b] = s.records[b]
<1> DEFINE a == s.active
           u == Sim!Update(s, t)
           q == s.records[a]
           r == u.records[a]
<1>1. a \in ActionId
  BY StateParts
<1>2. q \in Sim!Record /\ q.status \in Working /\ q.capability \in Capability
  BY <1>1, StateParts DEF Sound
<1>3. /\ \A b \in ActionId \ {a} : u.records[b] = s.records[b]
      /\ \/ /\ r = [q EXCEPT !.status = "succeeded"]
            /\ Sim!Worked(q, t) >= DurationOf[q.capability]
         \/ r = [q EXCEPT !.status = "running"]
  BY UpdateSound
<1>4. q.startedAt \in Int /\ q.pausedFor \in Int
  BY <1>2 DEF Sim!Record
<1>5. w >= t - q.startedAt - q.pausedFor /\ q.status # "paused"
  OBVIOUS
<1> HIDE DEF a, u, q, r
<1>6. /\ r.status \in {"running", "succeeded"}
      /\ r.startedAt = q.startedAt /\ r.pausedFor = q.pausedFor
      /\ r.capability = q.capability
      /\ r.status = "succeeded" => Sim!Worked(q, t) >= DurationOf[q.capability]
  <2> DEFINE over == [q EXCEPT !.status = "succeeded"]
             on == [q EXCEPT !.status = "running"]
  <2>1. /\ over.status = "succeeded" /\ over.capability = q.capability
        /\ over.startedAt = q.startedAt /\ over.pausedFor = q.pausedFor
        /\ on.status = "running" /\ on.capability = q.capability
        /\ on.startedAt = q.startedAt /\ on.pausedFor = q.pausedFor
    BY <1>2, StatusRecord DEF Sim!RecordStatus
  <2>2. \/ r = over /\ Sim!Worked(q, t) >= DurationOf[q.capability]
        \/ r = on
    BY <1>3
  <2> HIDE DEF over, on
  <2> QED
    BY <2>1, <2>2
<1>7. Sim!Worked(q, t) \in Nat /\ w >= Sim!Worked(q, t)
  <2>1. t - q.startedAt - q.pausedFor \in Int
    BY <1>4
  <2> QED
    BY <1>5, <2>1, PositiveFacts DEF Sim!Worked
<1>8. DurationOf[q.capability] \in Nat
  BY <1>2, SimAssumption
<1>9. r.status = "succeeded" => w >= DurationOf[r.capability]
  BY <1>6, <1>7, <1>8
<1>10. w >= t - r.startedAt - r.pausedFor
  BY <1>5, <1>6
<1> QED
  BY <1>2, <1>3, <1>6, <1>9, <1>10 DEF a, u, r

\* The time accounting credits the active action of a running mission.
LEMMA ElapsedCredits ==
    ASSUME SimTyped, NEW time \in Int, time - now \in Nat, Elapsed(time)
    PROVE  /\ \A b \in ActionId : worked'[b] >= worked[b]
           /\ \A b \in ActionId :
                runtime.status = "running" /\ runtime.activeActionId = b =>
                  worked'[b] = worked[b] + time - now
           /\ runtime.status # "running" => worked' = worked
           /\ worked' \in [ActionId -> Int]
<1>1. /\ worked \in [ActionId -> Int] /\ now \in Int
      /\ runtime.activeActionId \in ActionId \cup {NoAction}
  BY DEF SimTyped, TypeOK, MissionRuntime
<1>2. CASE runtime.status = "running" /\ runtime.activeActionId # NoAction
  <2> DEFINE a == runtime.activeActionId
  <2>1. worked' = [worked EXCEPT ![a] = worked[a] + time - now] /\ a \in ActionId
    BY <1>1, <1>2 DEF Elapsed
  <2> HIDE DEF a
  <2>2. worked[a] + time - now \in Int /\ worked[a] + time - now >= worked[a]
    BY <1>1, <2>1
  <2>3. /\ worked'[a] = worked[a] + time - now
        /\ \A b \in ActionId \ {a} : worked'[b] = worked[b]
        /\ worked' \in [ActionId -> Int]
    BY <1>1, <2>1, <2>2
  <2> QED
    BY <1>1, <1>2, <2>2, <2>3 DEF a
<1>3. CASE ~(runtime.status = "running" /\ runtime.activeActionId # NoAction)
  BY <1>1, <1>3, AttributeAssumption DEF Elapsed
<1> QED
  BY <1>2, <1>3

\* A step of the walk leaves the status of the mission, or ends it.
LEMMA WalkKeepsStatus ==
    ASSUME SimTyped, SimWalk
    PROVE  (runtime'.status = runtime.status \/ terminal') /\ now' = now
<1>1. runtime \in MissionRuntime
  BY DEF SimTyped, TypeOK
<1>2. ASSUME NEW n \in Node
      PROVE  /\ SetNode(n).status = runtime.status
             /\ Reject(n).status = runtime.status
             /\ Activated(n).status = runtime.status
             /\ SetNode(n) \in MissionRuntime
  BY <1>1 DEF SetNode, Reject, Activated, MissionRuntime
<1>3. ASSUME NEW n \in Node, SimOther(n)
      PROVE  runtime'.status = runtime.status /\ now' = now
  BY <1>2, <1>3 DEF SimOther, EnterComposite, StopAtChild, AdvanceChild, TickWait,
     TickRequireCapability, TickWaitEvent, TickEmitEvent, tickVars
<1>4. ASSUME NEW n \in Action, SimRefuse(n)
      PROVE  runtime'.status = runtime.status /\ now' = now
  BY <1>2, <1>4, ActionFacts DEF SimRefuse, RefuseAction, tickVars
<1>5. ASSUME NEW n \in Action, SimFollow(n)
      PROVE  runtime'.status = runtime.status /\ now' = now
  <2> DEFINE held == IF n \in submitted THEN SetNode(n) ELSE Activated(n)
  <2>1. held \in MissionRuntime /\ held.status = runtime.status
    <3>1. Activated(n) \in MissionRuntime
      BY <1>1, ActionFacts DEF Activated, SetNode, MissionRuntime
    <3> QED
      BY <1>2, <3>1, ActionFacts
  <2>2. /\ now' = now
        /\ \/ runtime' = held
           \/ runtime' = Deactivated(n, held)
           \/ runtime' = [held EXCEPT !.failureReason = TRUE]
    BY <1>5 DEF SimFollow, FollowAction, tickVars
  <2> HIDE DEF held
  <2>3. Deactivated(n, held).status = held.status
    BY <2>1 DEF Deactivated, MissionRuntime
  <2>4. [held EXCEPT !.failureReason = TRUE].status = held.status
    BY <2>1 DEF MissionRuntime
  <2> QED
    BY <2>1, <2>2, <2>3, <2>4
<1>6. CASE SimFinish
  BY <1>6 DEF SimFinish, FinishTick
<1> QED
  BY <1>3, <1>4, <1>5, <1>6 DEF SimWalk

\* Credit that grows covers what it covered.
LEMMA CreditKept ==
    ASSUME SimTyped, SimTyped', TimeInv, NEW b \in ActionId,
           worked'[b] >= worked[b], sim'.records[b] = sim.records[b]
    PROVE  /\ worked'[b] >= 0
           /\ sim'.records[b].status = "succeeded" =>
                /\ sim'.records[b].capability \in Capability
                /\ worked'[b] >= DurationOf[sim'.records[b].capability]
<1>1. worked[b] \in Int /\ worked'[b] \in Int /\ worked[b] >= 0
  BY DEF SimTyped, TimeInv
<1>2. sim.records[b].status = "succeeded" =>
        worked[b] >= DurationOf[sim.records[b].capability]
  BY DEF TimeInv, WorkedFullTime
<1>3. CASE sim.records[b].status = "succeeded"
  <2>1. sim.records[b].capability \in Capability
    BY <1>3 DEF TimeInv
  <2>2. DurationOf[sim.records[b].capability] \in Nat
    BY <2>1, SimAssumption
  <2> QED
    BY <1>1, <1>2, <1>3, <2>1, <2>2
<1> QED
  BY <1>1, <1>3

\* The tick of a running mission that goes on: the executor's clock and the
\* mission's agree, and an action that is retired has had its time.
LEMMA CreditedUpdate ==
    ASSUME SimTyped, SimTyped', TimeInv, NEW s \in Sim!State, Sound(s),
           NEW time \in Int, now' = time, sim' = Sim!Update(s, time),
           s.active # NoAction, s.records[s.active].status # "paused",
           \A b \in ActionId \ {s.active} : s.records[b] = sim.records[b],
           \A b \in ActionId : worked'[b] >= worked[b],
           runtime'.status = "running",
           worked'[s.active] >= time - s.records[s.active].startedAt
                                     - s.records[s.active].pausedFor
    PROVE  TimeInv'
<1> DEFINE a == s.active
           r == sim'.records[a]
           w == worked'[a]
<1>1. a \in ActionId
  BY StateParts
<1>2. w \in Nat
  BY <1>1 DEF SimTyped, TimeInv
<1>3. /\ r.status \in {"running", "succeeded"}
      /\ w >= time - r.startedAt - r.pausedFor
      /\ r.status = "succeeded" => w >= DurationOf[r.capability]
      /\ r.capability \in Capability
      /\ \A b \in ActionId \ {a} : sim'.records[b] = s.records[b]
  BY <1>2, UpdateCredits
<1>4. \A b \in ActionId \ {a} : sim'.records[b] = sim.records[b]
  BY <1>3
<1>5. \A b \in ActionId \ {a} : ~Works(b)'
  BY <1>3 DEF Works, Sound
<1> HIDE DEF a, r, w
<1>6. \A b \in ActionId \ {a} :
        /\ worked'[b] >= 0
        /\ sim'.records[b].status = "succeeded" =>
             /\ sim'.records[b].capability \in Capability
             /\ worked'[b] >= DurationOf[sim'.records[b].capability]
  BY <1>4, CreditKept
<1>7. Credited(a)'
  BY <1>3 DEF Credited, r, w
<1> QED
  BY <1>1, <1>2, <1>3, <1>5, <1>6, <1>7 DEF TimeInv, WorkedFullTime, r, w

\* A tick that leaves no action at work, and every success as it was.
LEMMA CreditedIdle ==
    ASSUME SimTyped, SimTyped', TimeInv, NEW s \in Sim!State, Sound(s),
           s.active = NoAction, sim' = s,
           \A b \in ActionId : s.records[b].status = "succeeded" =>
             s.records[b] = sim.records[b],
           \A b \in ActionId : worked'[b] >= worked[b]
    PROVE  TimeInv'
<1>1. \A b \in ActionId : ~Works(b)'
  BY AttributeAssumption DEF Works, Sound
<1>2. \A b \in ActionId : worked'[b] \in Int /\ worked[b] \in Int /\ worked[b] >= 0
  BY DEF SimTyped, TimeInv
<1>3. ASSUME NEW b \in ActionId, sim'.records[b].status = "succeeded"
      PROVE  /\ sim'.records[b].capability \in Capability
             /\ worked'[b] >= DurationOf[sim'.records[b].capability]
  BY <1>3, CreditKept
<1> QED
  BY <1>1, <1>2, <1>3 DEF TimeInv, WorkedFullTime

\* Between two ticks of a mission that goes on the executor works on the action
\* the runtime names; of a finished one it works on none.
LEMMA OutAgrees ==
    ASSUME SimTyped, SimInv, phase = "out"
    PROVE  /\ ~terminal => sim.active = runtime.activeActionId
           /\ terminal => sim.active = NoAction
           /\ sim.active \in ActionId \cup {NoAction}
           /\ sim.active # NoAction => Works(sim.active)
<1>1. /\ sim.active \in ActionId \cup {NoAction}
      /\ sim.active # NoAction => Works(sim.active)
  BY StateParts DEF SimTyped, SimInv, Sound, Works
<1>2. sim.active # NoAction => runtime.activeActionId = sim.active /\ ~terminal
  BY <1>1 DEF SimInv, AwaitInv
<1>3. ~terminal /\ runtime.activeActionId # NoAction =>
        sim.active = runtime.activeActionId
  BY DEF SimInv, NamedInv
<1> QED
  BY <1>1, <1>2, <1>3

\* The prologue of a tick keeps the time accounting.
LEMMA TimeBegin ==
    ASSUME SimTyped, SimTyped', SimInv, TimeInv, SimBegin, Elapse \subseteq Nat
    PROVE  TimeInv'
<1>0. PICK a \in ActionId \cup {NoAction} : a = runtime.activeActionId
  BY DEF SimTyped, TypeOK, MissionRuntime
<1>1. PICK time \in Times, world \in Sense,
           seen \in SUBSET Event :
           \/ SimTickTerminal(world, time)
           \/ SimTickPaused(world, time)
           \/ SimTickAborted(world, time)
           \/ SimTickAllowed(world, time, seen)
  BY SimBeginCases
<1>2. time \in Int /\ time - now \in Nat /\ now \in Int /\ world \in WorldState
  <2>1. now \in Int
    BY DEF SimTyped, TypeOK
  <2>2. PICK d \in Elapse \cup {0} : time = now + d
    BY <1>1, <2>1 DEF Times
  <2> QED
    BY <1>1, <2>1, <2>2, EnvironmentAssumption
<1>3. /\ phase = "out" /\ now' = time
      /\ runtime \in MissionRuntime /\ Observed(world, time) \in MissionRuntime
  <2>1. TypeOK
    BY DEF SimTyped
  <2> QED
    BY <1>1, <1>2, <2>1, ObservedType
       DEF SimTickTerminal, SimTickPaused, SimTickAborted, SimTickAllowed,
           TickTerminal, TickPaused, TickAborted, TickAllowed, TypeOK
<1>4. /\ ~terminal => sim.active = a
      /\ terminal => sim.active = NoAction
      /\ a \in ActionId \cup {NoAction}
      /\ sim.active # NoAction => Works(sim.active)
      /\ sim \in Sim!State /\ Sound(sim)
  BY <1>0, <1>3, OutAgrees DEF SimTyped, SimInv, TypeOK, MissionRuntime
<1>5. \A b \in ActionId : worked[b] \in Int
  BY DEF SimTyped
<1>6. a # NoAction /\ ~terminal =>
        /\ Credited(a) /\ sim.records[a].status \in Working
        /\ sim.records[a].paused = (sim.records[a].status = "paused")
  BY <1>4 DEF TimeInv, Sound, Works
<1>7. a # NoAction =>
        /\ sim.records[a].startedAt \in Int /\ sim.records[a].pausedAt \in Int
        /\ sim.records[a].pausedFor \in Int
  BY <1>4, RecordParts
<1>8. CASE SimTickTerminal(world, time)
  <2>1. sim' = sim /\ worked' = worked /\ sim.active = NoAction
    BY <1>2, <1>4, <1>8, UpdateSound DEF SimTickTerminal, TickTerminal
  <2> QED
    BY <1>4, <1>5, <2>1, CreditedIdle
<1>9. ASSUME ~terminal, a = NoAction, sim' = Sim!Update(sim, time), Elapsed(time)
      PROVE  TimeInv'
  <2>1. sim' = sim /\ sim.active = NoAction
    BY <1>2, <1>4, <1>9, UpdateSound
  <2>2. \A b \in ActionId : worked'[b] >= worked[b]
    BY <1>2, <1>9, ElapsedCredits
  <2> QED
    BY <1>4, <2>1, <2>2, CreditedIdle
<1>10. CASE SimTickPaused(world, time) /\ a # NoAction
  <2> DEFINE s == Sim!Pause(sim, a, time)
             r == s.records[a]
             q == sim.records[a]
  <2>1. sim' = Sim!Update(s, time) /\ ~terminal /\ Elapsed(time)
    BY <1>0, <1>10 DEF SimTickPaused, TickPaused
  <2>2. /\ s \in Sim!State /\ Sound(s) /\ s.active = a
        /\ r.status = "paused"
        /\ \A b \in ActionId \ {a} : s.records[b] = sim.records[b]
    BY <1>2, <1>4, <1>10, <2>1, PauseSound
  <2>3. /\ r.startedAt = q.startedAt /\ r.pausedFor = q.pausedFor
        /\ r.pausedAt = IF q.paused THEN q.pausedAt ELSE time
    BY <1>2, <1>4, <1>6, <1>10, <2>1, PauseFacts DEF Working, Sim!Known
  <2> HIDE DEF s
  <2>4. sim' = s
    BY <1>2, <1>10, <2>1, <2>2, UpdateSound
  <2>5. runtime'.status = "paused"
    BY <1>3, <1>10 DEF SimTickPaused, TickPaused, MissionRuntime
  <2>6. /\ \A b \in ActionId : worked'[b] >= worked[b]
        /\ runtime.status = "running" => worked'[a] = worked[a] + time - now
        /\ worked'[a] \in Int
    BY <1>0, <1>2, <1>4, <1>10, <2>1, ElapsedCredits
  <2>7. Credited(a)
    BY <1>6, <1>10, <2>1
  <2>8. worked'[a] >= r.pausedAt - r.startedAt - r.pausedFor
    <3>1. CASE q.status = "paused"
      <4>1. worked[a] >= q.pausedAt - q.startedAt - q.pausedFor /\ q.paused
        BY <1>6, <1>10, <2>1, <2>7, <3>1 DEF Credited
      <4> HIDE DEF r, q
      <4> QED
        BY <1>4, <1>5, <1>7, <1>10, <2>3, <2>6, <4>1 DEF q
    <3>2. CASE q.status # "paused"
      <4>1. /\ worked[a] >= now - q.startedAt - q.pausedFor /\ ~q.paused
            /\ runtime.status = "running"
        BY <1>6, <1>10, <2>1, <2>7, <3>2 DEF Credited
      <4> HIDE DEF r
      <4>2. worked'[a] = worked[a] + time - now /\ r.pausedAt = time
        BY <2>3, <2>6, <4>1
      <4> QED
        BY <1>2, <1>4, <1>5, <1>7, <1>10, <2>3, <4>1, <4>2
    <3> QED
      BY <3>1, <3>2
  <2>9. Credited(a)'
    BY <2>2, <2>4, <2>5, <2>8 DEF Credited
  <2>10. \A b \in ActionId \ {a} : ~Works(b)'
    BY <2>2, <2>4 DEF Works, Sound
  <2>11. \A b \in ActionId \ {a} :
           /\ worked'[b] >= 0
           /\ sim'.records[b].status = "succeeded" =>
                /\ sim'.records[b].capability \in Capability
                /\ worked'[b] >= DurationOf[sim'.records[b].capability]
    BY <2>2, <2>4, <2>6, CreditKept
  <2>12. worked'[a] >= 0 /\ sim'.records[a].status # "succeeded"
    BY <1>4, <1>5, <1>10, <2>2, <2>4, <2>6 DEF TimeInv
  <2> QED
    BY <1>4, <1>10, <2>9, <2>10, <2>11, <2>12 DEF TimeInv, WorkedFullTime
<1>11. CASE SimTickAborted(world, time) /\ a # NoAction
  <2> DEFINE s == Sim!Cancel(sim, a)
  <2>1. sim' = Sim!Update(s, time) /\ ~terminal /\ Elapsed(time)
    BY <1>0, <1>11 DEF SimTickAborted, TickAborted
  <2>2. /\ s \in Sim!State /\ Sound(s) /\ s.active = NoAction
        /\ s.records[a].status = "cancelled"
        /\ \A b \in ActionId \ {a} : s.records[b] = sim.records[b]
    BY <1>4, <1>11, <2>1, CancelSound
  <2> HIDE DEF s
  <2>3. sim' = s
    BY <1>2, <2>1, <2>2, UpdateSound
  <2>4. \A b \in ActionId : worked'[b] >= worked[b]
    BY <1>2, <2>1, ElapsedCredits
  <2> QED
    BY <2>2, <2>3, <2>4, CreditedIdle
<1>12. CASE SimTickAllowed(world, time, seen) /\ a # NoAction
  <2> DEFINE q == sim.records[a]
  <2>1. /\ ~terminal /\ Elapsed(time)
        /\ sim' = Sim!Update(IF runtime.status = "paused" THEN Sim!Resume(sim, a, time)
                                                          ELSE sim, time)
    BY <1>0, <1>12 DEF SimTickAllowed, TickAllowed
  <2>2. runtime'.status = "running"
    BY <1>3, <1>12 DEF SimTickAllowed, TickAllowed, MissionRuntime
  <2>3. /\ \A b \in ActionId : worked'[b] >= worked[b]
        /\ runtime.status = "running" => worked'[a] = worked[a] + time - now
        /\ worked'[a] \in Int
    BY <1>0, <1>2, <1>4, <1>12, <2>1, ElapsedCredits
  <2>4. Credited(a) /\ q.paused = (q.status = "paused")
    BY <1>6, <1>12, <2>1
  <2>5. CASE q.status = "paused"
    <3> DEFINE s == Sim!Resume(sim, a, time)
               r == s.records[a]
    <3>1. /\ runtime.status = "paused" /\ q.paused
          /\ worked[a] >= q.pausedAt - q.startedAt - q.pausedFor
      BY <2>4, <2>5 DEF Credited
    <3>2. sim' = Sim!Update(s, time)
      BY <2>1, <3>1
    <3>3. /\ s \in Sim!State /\ Sound(s) /\ s.active = a /\ r.status # "paused"
          /\ \A b \in ActionId \ {a} : s.records[b] = sim.records[b]
      BY <1>2, <1>4, <1>12, <2>1, ResumeSound
    <3>4. /\ r.startedAt = q.startedAt
          /\ r.pausedFor = q.pausedFor + Sim!Positive(time - q.pausedAt)
      BY <1>2, <1>4, <1>6, <1>12, <2>1, <3>1, ResumeFacts DEF Working, Sim!Known
    <3> HIDE DEF s
    <3>5. worked'[a] >= time - r.startedAt - r.pausedFor
      <4>1. /\ Sim!Positive(time - q.pausedAt) \in Nat
            /\ Sim!Positive(time - q.pausedAt) >= time - q.pausedAt
        BY <1>2, <1>7, <1>12, PositiveFacts
      <4> HIDE DEF r
      <4> QED
        BY <1>2, <1>4, <1>5, <1>7, <1>12, <2>3, <3>1, <3>4, <4>1
    <3> QED
      BY <1>2, <1>3, <1>12, <2>2, <2>3, <3>2, <3>3, <3>5, CreditedUpdate
  <2>6. CASE q.status # "paused"
    <3>1. /\ runtime.status = "running"
          /\ worked[a] >= now - q.startedAt - q.pausedFor
      BY <2>4, <2>6 DEF Credited
    <3>2. sim' = Sim!Update(sim, time) /\ sim.active = a
      BY <1>4, <2>1, <3>1
    <3>3. worked'[a] >= time - q.startedAt - q.pausedFor
      <4>1. worked'[a] = worked[a] + time - now
        BY <2>3, <3>1
      <4> QED
        BY <1>2, <1>4, <1>5, <1>7, <1>12, <3>1, <4>1
    <3> QED
      BY <1>2, <1>3, <1>4, <1>12, <2>2, <2>3, <2>6, <3>2, <3>3, CreditedUpdate
  <2> QED
    BY <2>5, <2>6
<1>13. CASE a = NoAction /\ ( \/ SimTickPaused(world, time)
                              \/ SimTickAborted(world, time)
                              \/ SimTickAllowed(world, time, seen))
  <2>1. ~terminal /\ sim' = Sim!Update(sim, time) /\ Elapsed(time)
    BY <1>0, <1>13 DEF SimTickPaused, SimTickAborted, SimTickAllowed,
                 TickPaused, TickAborted, TickAllowed
  <2> QED
    BY <1>9, <1>13, <2>1
<1> QED
  BY <1>1, <1>8, <1>10, <1>11, <1>12, <1>13

\* A step that leaves clock, credit and records as they are keeps the accounting.
LEMMA TimeKept ==
    ASSUME TimeInv, SimInv', UNCHANGED <<sim, worked, now>>,
           runtime'.status = runtime.status \/ terminal'
    PROVE  TimeInv'
<1>1. \A b \in ActionId : Works(b)' => Works(b) /\ runtime'.status = runtime.status
  BY DEF SimInv, AwaitInv, Works
<1>2. \A b \in ActionId : Works(b)' => Credited(b)'
  BY <1>1 DEF TimeInv, Credited
<1> QED
  BY <1>2 DEF TimeInv, WorkedFullTime

\* An action that is submitted has no credit to ask for yet.
LEMMA TimeFollow ==
    ASSUME SimTyped, SimTyped', Plain, WalkInv, SimInv, SimInv', TimeInv,
           NEW n \in Action, SimFollow(n)
    PROVE  TimeInv'
<1>1. /\ worked' = worked /\ now' = now
      /\ runtime'.status = runtime.status \/ terminal'
  BY WalkKeepsStatus DEF SimWalk, SimFollow
<1>2. CASE n \in submitted
  BY <1>1, <1>2, TimeKept DEF SimFollow
<1>3. CASE n \notin submitted
  <2>1. PICK a \in ActionId : a = ActionOf[n]
    BY ActionFacts
  <2>2. /\ sim.active = NoAction
        /\ \A b \in ActionId \ {a} : sim'.records[b] = sim.records[b]
        /\ sim'.records[a] = Begun(CapabilityOf[n], now)
    BY <1>3, <2>1, SimFollowNew DEF Touches
  <2>3. /\ sim'.records[a].status = "accepted"
        /\ sim'.records[a].startedAt = now /\ sim'.records[a].pausedFor = 0
    <3>1. Sim!NoRecord \in Sim!Record /\ Sim!NoRecord.pausedFor = 0
      BY DEF Sim!NoRecord, Sim!Record, Sim!RecordStatus
    <3> QED
      BY <2>2, <3>1 DEF Sim!Record, Begun
  <2>4. phase = "enter"
    BY DEF SimFollow, FollowAction, Ticking
  <2>5. ~terminal'
    <3>1. Works(a)'
      BY <2>3 DEF Works, Working
    <3> QED
      BY <3>1 DEF SimInv, AwaitInv
  <2>6. runtime'.status = "running"
    BY <1>1, <2>4, <2>5 DEF WalkInv, StatusInv
  <2>7. now \in Int /\ worked[a] \in Int /\ worked[a] >= 0
    BY DEF SimTyped, TypeOK, TimeInv
  <2>8. Credited(a)'
    BY <1>1, <2>3, <2>6, <2>7 DEF Credited
  <2>9. \A b \in ActionId \ {a} : ~Works(b)'
    BY <2>2, AttributeAssumption DEF Works, SimInv, Sound
  <2>10. \A b \in ActionId : Works(b)' => Credited(b)'
    BY <2>8, <2>9
  <2> QED
    BY <1>1, <2>2, <2>3, <2>10 DEF TimeInv, WorkedFullTime
<1> QED
  BY <1>2, <1>3

\* Every step keeps the time accounting.
LEMMA TimeStep ==
    ASSUME SimTyped, SimTyped', Plain, WalkInv, SimInv, SimInv', TimeInv,
           Elapse \subseteq Nat, [SimNext]_simVars
    PROVE  TimeInv'
<1>1. CASE SimBegin
  BY <1>1, TimeBegin
<1>2. ASSUME NEW n \in Action, SimFollow(n) PROVE TimeInv'
  BY <1>2, TimeFollow
<1>3. CASE SimWalk /\ UNCHANGED <<sim, worked>>
  BY <1>3, WalkKeepsStatus, TimeKept
<1>4. CASE Reconfigure
  <2>1. sim'.records = sim.records /\ UNCHANGED <<runtime, now, worked>>
    BY <1>4, ReconfigureFacts DEF SimTyped, Reconfigure, vars, tickVars
  <2> QED
    BY <2>1 DEF TimeInv, WorkedFullTime, Credited, Works
<1>5. CASE UNCHANGED simVars
  BY <1>5, TimeKept DEF simVars, vars, tickVars
<1> QED
  BY <1>1, <1>2, <1>3, <1>4, <1>5 DEF SimNext, SimWalk, SimOther, SimRefuse, SimFinish

\* An action of a plain mission that succeeded was given its full duration of
\* unpaused time, whatever the pattern of pauses, when the clock never goes
\* back, as the loop of mission_sim's main() (step * 0.05) has it.
THEOREM SimWorksFullTime ==
    Plain /\ Elapse \subseteq Nat /\ SimSpec => []WorkedFullTime
<1> SUFFICES ASSUME Plain, Elapse \subseteq Nat PROVE SimSpec => []WorkedFullTime
  OBVIOUS
<1>1. SimInit => TimeInv
  <2> SUFFICES ASSUME SimInit PROVE TimeInv
    OBVIOUS
  <2>1. \A a \in ActionId : sim.records[a].status = "idle" /\ worked[a] = 0
    BY StartFacts DEF SimInit
  <2> QED
    BY <2>1 DEF TimeInv, WorkedFullTime, Works, Working
<1>2. TimeInv => WorkedFullTime
  BY DEF TimeInv
<1> QED
  BY <1>1, <1>2, TimeStep, SimCorrect, PTL DEF SimSpec

-----------------------------------------------------------------------------
(* What success says of the executor.                                      *)

\* An action the tree has seen succeed has succeeded on the executor, and is not
\* the one the supervisor's cancel, pause or resume would be sent to.
DoneInv ==
    \A n \in Action : last[n] = "success" =>
      /\ sim.records[ActionOf[n]].status = "succeeded"
      /\ runtime.activeActionId # ActionOf[n]

\* A record that has succeeded survives every call for another action and
\* every update().
LEMMA SuccessSurvives ==
    ASSUME NEW s \in Sim!State, NEW t \in Int, NEW b \in ActionId,
           s.records[b].status = "succeeded"
    PROVE  /\ Sim!Update(s, t).records[b].status = "succeeded"
           /\ \A a \in ActionId \ {b} :
                /\ Sim!Pause(s, a, t) \in Sim!State
                /\ Sim!Cancel(s, a) \in Sim!State
                /\ Sim!Resume(s, a, t) \in Sim!State
                /\ Sim!Pause(s, a, t).records[b].status = "succeeded"
                /\ Sim!Cancel(s, a).records[b].status = "succeeded"
                /\ Sim!Resume(s, a, t).records[b].status = "succeeded"
<1>1. Sim!Update(s, t).records[b].status = "succeeded"
  BY UpdateFacts, AttributeAssumption
<1>2. ASSUME NEW a \in ActionId \ {b}
      PROVE  /\ Touches(s, Sim!Pause(s, a, t), a)
             /\ Touches(s, Sim!Cancel(s, a), a)
             /\ Touches(s, Sim!Resume(s, a, t), a)
  BY PauseFacts, CancelFacts, ResumeFacts
<1> QED
  BY <1>1, <1>2 DEF Touches

\* The prologue of a tick takes no success back.
LEMMA DoneBegin ==
    ASSUME SimTyped, DoneInv, SimBegin
    PROVE  DoneInv'
<1>0. PICK a \in ActionId \cup {NoAction} : a = runtime.activeActionId
  BY DEF SimTyped, TypeOK, MissionRuntime
<1>1. PICK time \in Times, world \in Sense,
           seen \in SUBSET Event :
           \/ SimTickTerminal(world, time)
           \/ SimTickPaused(world, time)
           \/ SimTickAborted(world, time)
           \/ SimTickAllowed(world, time, seen)
  BY SimBeginCases
<1>2. time \in Int /\ world \in WorldState /\ TypeOK /\ sim \in Sim!State
  BY <1>1, EnvironmentAssumption DEF SimTyped, Times
<1>3. runtime'.activeActionId = runtime.activeActionId /\ last' = last
  <2>1. \/ TickTerminal(world, time)
        \/ TickPaused(world, time, Sim!Capabilities(sim))
        \/ TickAborted(world, time, Sim!Capabilities(sim))
        \/ TickAllowed(world, time, Sim!Capabilities(sim), seen)
    BY <1>1 DEF SimTickTerminal, SimTickPaused, SimTickAborted, SimTickAllowed
  <2> QED
    BY <1>2, <2>1, BeginNames
<1>4. \E s \in {sim, Sim!Pause(sim, a, time), Sim!Cancel(sim, a),
                Sim!Resume(sim, a, time)} :
        sim' = Sim!Update(s, time) /\ (a = NoAction => s = sim)
  BY <1>0, <1>1 DEF SimTickTerminal, SimTickPaused, SimTickAborted, SimTickAllowed
<1>5. ASSUME NEW n \in Action, last[n] = "success"
      PROVE  sim'.records[ActionOf[n]].status = "succeeded"
  <2>1. PICK b \in ActionId : b = ActionOf[n]
    BY ActionFacts
  <2>2. sim.records[b].status = "succeeded" /\ a # b
    BY <1>0, <1>5, <2>1 DEF DoneInv
  <2>3. PICK s \in {sim, Sim!Pause(sim, a, time), Sim!Cancel(sim, a),
                    Sim!Resume(sim, a, time)} :
          sim' = Sim!Update(s, time) /\ (a = NoAction => s = sim)
    BY <1>4
  <2>4. s \in Sim!State /\ s.records[b].status = "succeeded"
    BY <1>2, <2>2, <2>3, SuccessSurvives
  <2> QED
    BY <1>2, <2>1, <2>3, <2>4, SuccessSurvives
<1> QED
  BY <1>3, <1>5 DEF DoneInv

\* An action that is followed succeeds in the tree only when it has on the
\* executor, and then the runtime forgets its id.
LEMMA DoneFollow ==
    ASSUME SimTyped, DoneInv, NEW n \in Action, SimFollow(n)
    PROVE  DoneInv'
<1>1. PICK a \in ActionId : a = ActionOf[n]
  BY ActionFacts
<1> DEFINE status == Sim!Feedback(sim', a)
           held == IF n \in submitted THEN SetNode(n) ELSE Activated(n)
<1>2. /\ n \in Node /\ CapabilityOf[n] \in Capability /\ a # NoAction
      /\ runtime \in MissionRuntime /\ now \in Int /\ sim \in Sim!State
      /\ last \in [Node -> NodeStatus]
  BY <1>1, ActionFacts, AttributeAssumption DEF SimTyped, TypeOK
<1>3. \A b \in ActionId : sim.records[b].status = "succeeded" =>
        sim'.records[b].status = "succeeded"
  <2>1. CASE sim' = sim
    BY <2>1
  <2>2. CASE sim' = Sim!Submit(sim, a, CapabilityOf[n], now)
    BY <1>2, <2>2, SubmitFacts DEF Touches, Sim!Known
  <2> QED
    BY <1>1, <2>1, <2>2 DEF SimFollow
<1>4. /\ held \in MissionRuntime
      /\ held.activeActionId \in {runtime.activeActionId, a}
  BY <1>1, <1>2 DEF SetNode, Activated, MissionRuntime
<1>5. FollowAction(n, status)
  BY <1>1 DEF SimFollow
<1>6. /\ \E r : Return(n, r) /\ (r = "success" => status = "succeeded")
      /\ \/ runtime' = held /\ status # "succeeded"
         \/ runtime' = Deactivated(n, held)
         \/ runtime' = [held EXCEPT !.failureReason = TRUE] /\ status # "succeeded"
  <2> HIDE DEF status
  <2> QED
    BY <1>5 DEF FollowAction
<1> HIDE DEF held
<1>7. /\ runtime'.activeActionId \in {runtime.activeActionId, a, NoAction}
      /\ status = "succeeded" => runtime'.activeActionId # a
  BY <1>1, <1>2, <1>4, <1>6 DEF Deactivated, MissionRuntime
<1>8. ASSUME NEW m \in Action, last'[m] = "success"
      PROVE  /\ sim'.records[ActionOf[m]].status = "succeeded"
             /\ runtime'.activeActionId # ActionOf[m]
  <2>1. ActionOf[m] \in ActionId /\ m \in Node
    BY ActionFacts
  <2>2. CASE m = n
    <3>1. status = "succeeded"
      BY <1>2, <1>6, <1>8, <2>2 DEF Return
    <3> QED
      BY <1>1, <1>7, <2>2, <3>1 DEF Sim!Feedback
  <2>3. CASE m # n
    <3>1. last[m] = "success"
      BY <1>2, <1>6, <1>8, <2>1, <2>3 DEF Return
    <3>2. /\ sim.records[ActionOf[m]].status = "succeeded"
          /\ runtime.activeActionId # ActionOf[m]
      BY <3>1 DEF DoneInv
    <3>3. sim'.records[ActionOf[m]].status = "succeeded"
      BY <1>3, <2>1, <3>2
    <3>4. ActionOf[m] = a => status = "succeeded"
      BY <3>3 DEF Sim!Feedback
    <3> QED
      BY <1>7, <2>1, <3>2, <3>3, <3>4, AttributeAssumption
  <2> QED
    BY <2>2, <2>3
<1> QED
  BY <1>8 DEF DoneInv

\* Every step keeps DoneInv.
LEMMA DoneStep ==
    ASSUME SimTyped, DoneInv, [SimNext]_simVars
    PROVE  DoneInv'
<1>1. CASE SimBegin
  BY <1>1, DoneBegin
<1>2. ASSUME NEW n \in Node, SimOther(n) PROVE DoneInv'
  BY <1>2, SimOtherFacts DEF SimTyped, DoneInv
<1>3. ASSUME NEW n \in Action, SimRefuse(n) PROVE DoneInv'
  <2>1. /\ sim' = sim /\ runtime' = Reject(n) /\ Return(n, "failure") /\ n \in Node
    BY <1>3, ActionFacts DEF SimRefuse, RefuseAction
  <2>2. runtime'.activeActionId = runtime.activeActionId
    BY <2>1 DEF Reject, SetNode, SimTyped, TypeOK, MissionRuntime
  <2>3. \A m \in Action : last'[m] = "success" => last[m] = "success"
    BY <2>1, ActionFacts DEF Return, SimTyped, TypeOK
  <2> QED
    BY <2>1, <2>2, <2>3 DEF DoneInv
<1>4. ASSUME NEW n \in Action, SimFollow(n) PROVE DoneInv'
  BY <1>4, DoneFollow
<1>5. CASE SimFinish
  <2>1. sim' = sim /\ last' = last
    BY <1>5 DEF SimFinish, FinishTick, nodeVars
  <2>2. runtime'.activeActionId = runtime.activeActionId
    BY <1>5 DEF SimFinish, FinishTick, SimTyped, TypeOK, MissionRuntime
  <2> QED
    BY <2>1, <2>2 DEF DoneInv
<1>6. CASE Reconfigure
  BY <1>6, ReconfigureFacts DEF SimTyped, Reconfigure, vars, nodeVars, DoneInv
<1>7. CASE UNCHANGED simVars
  BY <1>7 DEF simVars, vars, nodeVars, DoneInv
<1> QED
  BY <1>1, <1>2, <1>3, <1>4, <1>5, <1>6, <1>7 DEF SimNext, SimWalk

\* Whatever the tree (reactive nodes and repeated ids included), the world and
\* the injected faults, a mission reports success only when the actions that
\* succeeded on the executor make its tree a success.
THEOREM SimSuccessIsDone == SimSpec => []SuccessMeansDone
<1>1. SimInit => DoneInv
  <2> SUFFICES ASSUME SimInit, NEW n \in Action PROVE last[n] # "success"
    BY DEF DoneInv
  <2>1. last = [m \in Node |-> "idle"]
    BY Zenon DEF SimInit, Init
  <2> QED
    BY <2>1, ActionFacts
<1>2. TypeOK /\ DoneInv /\ ResultInv /\ SuccessInv => SuccessMeansDone
  <2> SUFFICES ASSUME TypeOK, DoneInv, ResultInv, SuccessInv,
                      runtime.status = "succeeded"
               PROVE  \E D \in SUBSET Node : Root \in D /\ Done(D)
    BY DEF SuccessMeansDone
  <2> DEFINE D == {n \in Node : last[n] = "success"}
  <2>1. frames = {} /\ Root \in D
    BY TreeAssumption DEF SuccessInv
  <2>2. ASSUME NEW n \in D, Kind[n] = "ExecuteAction"
        PROVE  sim.records[ActionOf[n]].status = "succeeded"
    BY <2>2 DEF DoneInv, Action
  <2>3. ASSUME NEW n \in D, Kind[n] = "Sequence"
        PROVE  \A k \in 1..Len(Children[n]) : Children[n][k] \in D
    BY <2>1, <2>3, ChildFacts DEF ResultInv, Composite
  <2>4. ASSUME NEW n \in D, Kind[n] = "Fallback"
        PROVE  \E k \in 1..Len(Children[n]) : Children[n][k] \in D
    BY <2>1, <2>4, ChildFacts DEF ResultInv, Composite
  <2> HIDE DEF D
  <2>5. Done(D)
    BY <2>2, <2>3, <2>4 DEF Done
  <2> QED
    BY <2>1, <2>5 DEF D
<1> QED
  BY <1>1, <1>2, DoneStep, SimTypedCorrect, SimRefines, ResultCorrect, TypeCorrect, PTL
     DEF SimSpec
=============================================================================
