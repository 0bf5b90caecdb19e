----------------------------- MODULE SimExecutor -----------------------------
(***************************************************************************)
(* mission_sim::SimExecutor, the deterministic executor of the offline     *)
(* missions.  Its state is one record and every method is an operator from *)
(* that record to the next, because one tick of the tree makes several     *)
(* calls in a row (pause or cancel or resume, then update).                *)
(***************************************************************************)
EXTENDS Integers

CONSTANTS
    Capability, ActionId, NoAction, NoCapability,
    DurationOf,     \* durations_: how long an action of a capability works
    ForeignFrame    \* actions whose frame parameter is not local_enu

Availability == {"unsupported", "unavailable", "available", "busy"}

RecordStatus == {"idle", "accepted", "running", "paused",
                 "succeeded", "cancelled"}

\* An entry of records_; status "idle" stands for an action with no entry,
\* which is what feedback() answers for it.
Record ==
    [status : RecordStatus, capability : Capability \cup {NoCapability},
     startedAt : Int, pausedAt : Int, pausedFor : Int, paused : BOOLEAN]

NoRecord ==
    [status |-> "idle", capability |-> NoCapability, startedAt |-> 0,
     pausedAt |-> 0, pausedFor |-> 0, paused |-> FALSE]

\* active and capability are active_action_id_ and active_intent_.
State ==
    [records : [ActionId -> Record], active : ActionId \cup {NoAction},
     capability : Capability \cup {NoCapability},
     supply : [Capability -> Availability], rejected : SUBSET Capability]

Start ==
    [records |-> [a \in ActionId |-> NoRecord], active |-> NoAction,
     capability |-> NoCapability,
     supply |-> [c \in Capability |-> "available"], rejected |-> {}]

Positive(n) == IF n > 0 THEN n ELSE 0

Known(sim, a) == sim.records[a].status # "idle"

\* SimExecutor::feedback
Feedback(sim, a) == sim.records[a].status

\* SimExecutor::capabilities: the capability at work is busy.
Capabilities(sim) ==
    [c \in Capability \cup {NoCapability} |->
       IF c = NoCapability THEN "unsupported"
       ELSE IF sim.active # NoAction /\ c = sim.capability
                 /\ sim.supply[c] = "available" THEN "busy"
       ELSE sim.supply[c]]

\* What active_action_id_ and active_intent_ become.
Activate(sim, a, c) == [sim EXCEPT !.active = a, !.capability = c]

Deactivate(sim) == Activate(sim, NoAction, NoCapability)

\* SimExecutor::submit, the answer.
Accepts(sim, a, c) ==
    /\ sim.supply[c] = "available"
    /\ c \notin sim.rejected
    /\ a \notin ForeignFrame
    /\ Known(sim, a) \/ sim.active \in {NoAction, a}

\* SimExecutor::submit, the effect when it accepts: an id already seen keeps
\* its record, whatever its status.
Submit(sim, a, c, t) ==
    LET fresh == [NoRecord EXCEPT !.status = "accepted", !.capability = c,
                                  !.startedAt = t]
    IN  Activate([sim EXCEPT !.records[a] = IF Known(sim, a) THEN @ ELSE fresh],
                 a, c)

\* SimExecutor::cancel
Cancel(sim, a) ==
    LET cancelled == [sim EXCEPT !.records[a].status = "cancelled"]
    IN  IF ~Known(sim, a) THEN sim
        ELSE IF sim.active = a THEN Deactivate(cancelled) ELSE cancelled

\* Fault: every call of pause() moves the start of the pause.
PauseMutant(sim, a, t) ==
    IF ~Known(sim, a) \/ sim.records[a].status = "succeeded" THEN sim
    ELSE [sim EXCEPT !.records[a] =
            [@ EXCEPT !.status = "paused", !.paused = TRUE, !.pausedAt = t]]

\* SimExecutor::pause: the start of the pause is latched by the first call.
Pause(sim, a, t) ==
    LET r == sim.records[a]
        held == [r EXCEPT !.status = "paused", !.paused = TRUE,
                          !.pausedAt = IF r.paused THEN @ ELSE t]
    IN  IF ~Known(sim, a) \/ r.status = "succeeded" THEN sim
        ELSE [sim EXCEPT !.records[a] = held]

\* Fault: the record is resumed, but active_action_id_ is cleared.
ResumeMutant(sim, a, t) ==
    LET r == sim.records[a]
        resumed == [r EXCEPT
            !.pausedFor = IF r.paused THEN @ + Positive(t - r.pausedAt) ELSE @,
            !.paused = FALSE,
            !.status = IF @ = "paused" THEN "running" ELSE @]
    IN  IF ~Known(sim, a) THEN sim
        ELSE Deactivate([sim EXCEPT !.records[a] = resumed])

\* SimExecutor::resume: the action becomes the active one, whatever its status.
Resume(sim, a, t) ==
    LET r == sim.records[a]
        resumed == [r EXCEPT
            !.pausedFor = IF r.paused THEN @ + Positive(t - r.pausedAt) ELSE @,
            !.paused = FALSE,
            !.status = IF @ = "paused" THEN "running" ELSE @]
    IN  IF ~Known(sim, a) THEN sim
        ELSE Activate([sim EXCEPT !.records[a] = resumed], a, r.capability)

\* How long an action has worked, as update() computes it.
Worked(r, t) == Positive(t - r.startedAt - r.pausedFor)

\* Fault: a finished action stays the active one.
UpdateMutant(sim, t) ==
    LET a == sim.active
        r == sim.records[a]
    IN  IF a = NoAction THEN sim
        ELSE IF r.paused \/ r.status \in {"idle", "cancelled", "succeeded"}
          THEN sim
        ELSE IF Worked(r, t) >= DurationOf[r.capability]
          THEN [sim EXCEPT !.records[a].status = "succeeded"]
        ELSE [sim EXCEPT !.records[a].status = "running"]

\* SimExecutor::update
Update(sim, t) ==
    LET a == sim.active
        r == sim.records[a]
    IN  IF a = NoAction THEN sim
        ELSE IF r.paused \/ r.status \in {"idle", "cancelled", "succeeded"}
          THEN sim
        ELSE IF Worked(r, t) >= DurationOf[r.capability]
          THEN Deactivate([sim EXCEPT !.records[a].status = "succeeded"])
        ELSE [sim EXCEPT !.records[a].status = "running"]

\* SimExecutor::set_capability
SetCapability(sim, c, availability) ==
    [sim EXCEPT !.supply[c] = availability]

\* SimExecutor::reject_capability
RejectCapability(sim, c, reject) ==
    [sim EXCEPT !.rejected = IF reject THEN @ \cup {c} ELSE @ \ {c}]
=============================================================================
