-------------------------- MODULE EventMission_proofs --------------------------
(***************************************************************************)
(* Machine-checked properties of a mission that talks to the ground        *)
(* station, for every network and every sender.                            *)
(***************************************************************************)
EXTENDS EventMission, MissionEnd_proofs

\* Whatever the network does, a step of the composition is a step of the mission
\* tree, or leaves it alone.
LEMMA EventStepIsStep ==
    ASSUME [EventNext]_eventVars
    PROVE  [Next]_vars
<1>1. CASE EventBegin
  <2>1. PICK time \in Times, world \in Sense,
             table \in CapabilityTable, n \in Drained :
          \/ TickTerminal(world, time)
          \/ TickPaused(world, time, table)
          \/ TickAborted(world, time, table)
          \/ TickAllowed(world, time, table, Heard(n))
    BY <1>1 DEF EventBegin
  <2>2. Heard(n) \in SUBSET Event
    BY DEF Heard
  <2> QED
    BY <2>1, <2>2 DEF Next, BeginTick
<1>2. CASE EventWalk \/ EventReset
  BY <1>2 DEF EventWalk, EventReset, Next
<1>3. CASE Network \/ UNCHANGED eventVars
  BY <1>3 DEF Network, eventVars
<1> QED
  BY <1>1, <1>2, <1>3 DEF EventNext

\* A mission with a ground station is a mission: what is proved of every
\* MissionTree holds of it.
THEOREM EventsRefine == EventSpec => Spec
<1>1. EventInit => Init
  BY DEF EventInit
<1> QED
  BY <1>1, EventStepIsStep, PTL DEF EventSpec, Spec

\* In particular, while events come and go, the tree tracks the one action it
\* waits for and forgets none.
THEOREM EventMissionTracksAction ==
    EventSpec => [](OutstandingIsActive /\ NoOrphanedAction /\ ActiveIsOutstanding)
BY EventsRefine, ActiveActionTracked, NothingOrphaned, ActiveActionIsLive, PTL

\* And the mission keeps its limit and emits no event twice.
THEOREM EventMissionKeepsLimit == EventSpec => []DurationRespected /\ EmittedOnce
BY EventsRefine, LimitKept, EventsEmittedOnce, PTL

-----------------------------------------------------------------------------
(* Types, and what the socket holds.                                       *)

\* The receive buffer holds datagrams, and at most MaxInbox.
LinkInv ==
    /\ bound \in BOOLEAN
    /\ inbox \in Seq(Datagram) /\ Len(inbox) <= MaxInbox

\* What a poll leaves in the buffer is the rest of it, in order.
LEMMA PollFacts ==
    ASSUME LinkInv, NEW n \in Drained, Poll(n)
    PROVE  /\ n \in 0..Len(inbox)
           /\ LinkInv'
           /\ \A k \in 1..Len(inbox') : k + n \in 1..Len(inbox) /\ inbox'[k] = inbox[k + n]
<1>1. n \in 0..Len(inbox) /\ Len(inbox) \in Nat
  BY DEF Drained, LinkInv
<1>2. inbox' = SubSeq(inbox, n + 1, Len(inbox)) /\ bound' = bound
  BY DEF Poll
<1>3. inbox' \in Seq(Datagram)
  BY <1>1, <1>2 DEF LinkInv
<1>4. Len(inbox') = Len(inbox) - n
  BY <1>1, <1>2 DEF LinkInv
<1>5. \A k \in 1..Len(inbox') : k + n \in 1..Len(inbox) /\ inbox'[k] = inbox[k + n]
  BY <1>1, <1>2, <1>4 DEF LinkInv
<1> QED
  BY <1>1, <1>2, <1>3, <1>4, <1>5, LinkAssumption DEF LinkInv

\* Every step keeps LinkInv.
LEMMA LinkStep ==
    ASSUME LinkInv, [EventNext]_eventVars
    PROVE  LinkInv'
<1>1. CASE EventBegin
  BY <1>1, PollFacts DEF EventBegin
<1>2. CASE Network
  <2>1. PICK d \in Datagram : Arrive(d)
    BY <1>2 DEF Network
  <2> QED
    BY <2>1, LinkAssumption DEF Arrive, LinkInv
<1>3. CASE EventWalk \/ EventReset \/ UNCHANGED eventVars
  BY <1>3 DEF EventWalk, EventReset, eventVars, linkVars, LinkInv
<1> QED
  BY <1>1, <1>2, <1>3 DEF EventNext

\* The buffer is as described in every reachable state.
LEMMA LinkCorrect == EventSpec => []LinkInv
<1>1. EventInit => LinkInv
  <2> SUFFICES ASSUME LinkInit PROVE LinkInv
    BY DEF EventInit
  <2>1. bound \in BOOLEAN
    BY LinkAssumption, Zenon DEF LinkInit
  <2>2. inbox \in Seq(Datagram) /\ Len(inbox) = 0
    BY DEF LinkInit
  <2> QED
    BY <2>1, <2>2, LinkAssumption DEF LinkInv
<1> QED
  BY <1>1, LinkStep, PTL DEF EventSpec

\* Every variable of the composition always has its type.
THEOREM EventTypeCorrect == EventSpec => []EventTypeOK
<1> DEFINE Histories == /\ announced \subseteq Node /\ replied \subseteq Node
                        /\ released \subseteq Event
<1>1. EventInit => Histories
  BY DEF EventInit
<1>2. TypeOK /\ Histories /\ [EventNext]_eventVars => Histories'
  <2> SUFFICES ASSUME TypeOK, Histories, [EventNext]_eventVars PROVE Histories'
    OBVIOUS
  <2>1. CASE EventBegin
    <3>1. \A n : Replies(n) \subseteq Node
      BY DEF Replies
    <3> QED
      BY <2>1, <3>1 DEF EventBegin
  <2>2. CASE EventWalk
    BY <2>2 DEF EventWalk, TypeOK, historyVars
  <2>3. CASE Network
    BY <2>3 DEF Network
  <2>4. CASE EventReset \/ UNCHANGED eventVars
    BY <2>4 DEF EventReset, eventVars, historyVars
  <2> QED
    BY <2>1, <2>2, <2>3, <2>4 DEF EventNext
<1>3. TypeOK /\ LinkInv /\ Histories => EventTypeOK
  BY DEF LinkInv, EventTypeOK
<1> QED
  BY <1>1, <1>2, <1>3, EventsRefine, TypeCorrect, LinkCorrect, PTL DEF EventSpec

-----------------------------------------------------------------------------
(* Only the ground station releases a mission.                             *)

\* The station's own envelopes in the buffer, and the events of this tick, have
\* been sent by the station.
ReleaseInv ==
    /\ \A k \in 1..Len(inbox) :
         OfStation(inbox[k]) /\ inbox[k].header \in Event => inbox[k].header \in released
    /\ events \subseteq released
    /\ ReleasedByStation

\* Only a WaitEvent node's own tick changes its result, to success only if its
\* event is among those of the tick.
LEMMA WaitsForEvent ==
    ASSUME TypeOK, NEW n \in Node, NodeStep(n), NEW w \in Node, Kind[w] = "WaitEvent"
    PROVE  \/ last'[w] = last[w]
           \/ /\ n = w /\ TickWaitEvent(w)
              /\ last'[w] = IF EventOf[w] \in events THEN "success" ELSE "running"
<1>1. CASE EnterComposite(n) \/ StopAtChild(n) \/ AdvanceChild(n)
  <2>1. n \in Composite /\ (last' = last \/ \E status : Return(n, status))
    BY <1>1, ParentFacts DEF EnterComposite, StopAtChild, AdvanceChild, Loop, TypeOK
  <2> QED
    BY <2>1, LeafFacts, CompositeKeepsLeaves
<1>2. CASE TickWaitEvent(n)
  BY <1>2 DEF TickWaitEvent, Return, TypeOK
<1>3. CASE \/ TickWait(n) \/ TickRequireCapability(n)
           \/ TickEmitEvent(n) \/ RefuseAction(n)
           \/ \E status \in FeedbackStatus : FollowAction(n, status)
  <2>1. Kind[n] # "WaitEvent" /\ \E status : Return(n, status)
    BY <1>3 DEF TickWait, TickRequireCapability, TickEmitEvent, RefuseAction,
                FollowAction, Ticking
  <2> QED
    BY <2>1 DEF Return, TypeOK
<1> QED
  BY <1>1, <1>2, <1>3 DEF NodeStep

\* What decode_datagram accepts is an envelope of the whitelisted endpoint.
LEMMA AcceptedIsOfStation ==
    ASSUME NEW d, d.form \in Forms, Rejection(d) = "none"
    PROVE  OfStation(d)
BY DEF Rejection, Whitelisted, OfStation, Forms

\* Every step keeps ReleaseInv.
LEMMA ReleaseStep ==
    ASSUME TypeOK, LinkInv, ReleaseInv, [EventNext]_eventVars
    PROVE  ReleaseInv'
<1>1. CASE EventBegin
  <2>1. PICK time \in 0..MaxNow, world \in Sense, table \in CapabilityTable, n \in Drained :
          /\ Poll(n) /\ UNCHANGED <<announced, released>>
          /\ \/ /\ \/ TickTerminal(world, time)
                   \/ TickPaused(world, time, table)
                   \/ TickAborted(world, time, table)
             \/ TickAllowed(world, time, table, Heard(n))
    BY <1>1 DEF EventBegin, Times
  <2>2. last' = last /\ events' \in {events, Heard(n)}
    BY <2>1 DEF TickTerminal, TickPaused, TickAborted, TickAllowed, nodeVars
  <2>3. Heard(n) \subseteq released
    <3> SUFFICES ASSUME NEW header \in Heard(n) PROVE header \in released
      OBVIOUS
    <3>1. PICK k \in 1..n : header = inbox[k].header /\ Rejection(inbox[k]) = "none"
      BY DEF Heard, Accepted
    <3>2. n \in 0..Len(inbox) /\ Len(inbox) \in Nat
      BY <2>1, PollFacts DEF LinkInv
    <3>3. k \in 1..Len(inbox)
      BY <3>2
    <3>4. inbox[k] \in Datagram
      BY <3>3 DEF LinkInv
    <3>5. OfStation(inbox[k])
      BY <3>1, <3>4, AcceptedIsOfStation, DatagramAssumption
    <3> QED
      BY <3>1, <3>3, <3>5 DEF ReleaseInv, Heard
  <2>4. \A k \in 1..Len(inbox') :
          OfStation(inbox'[k]) /\ inbox'[k].header \in Event => inbox'[k].header \in released
    BY <2>1, PollFacts DEF ReleaseInv
  <2> QED
    BY <2>1, <2>2, <2>3, <2>4 DEF ReleaseInv, ReleasedByStation, OfStation
<1>2. CASE EventWalk
  <2>1. inbox' = inbox /\ released' = released
    BY <1>2 DEF EventWalk, linkVars, historyVars
  <2>2. ASSUME NEW n \in Node, NodeStep(n) PROVE ReleaseInv'
    <3>1. events' = events
      BY <2>2, NodeKeeps DEF tickVars
    <3>2. ReleasedByStation'
      BY <2>1, <2>2, WaitsForEvent DEF ReleaseInv, ReleasedByStation
    <3> QED
      BY <2>1, <3>1, <3>2 DEF ReleaseInv, OfStation
  <2>3. CASE FinishTick
    BY <2>1, <2>3 DEF FinishTick, nodeVars, ReleaseInv, ReleasedByStation, OfStation
  <2> QED
    BY <1>2, <2>2, <2>3 DEF EventWalk, Walk, NodeStep
<1>3. CASE Network
  <2>1. PICK d \in Datagram :
          /\ Arrive(d) /\ UNCHANGED vars
          /\ released' = released \cup {header \in Event : OfStation(d) /\ header = d.header}
    BY <1>3 DEF Network
  <2>2. /\ Len(inbox') = Len(inbox) + 1 /\ Len(inbox) \in Nat
        /\ inbox'[Len(inbox) + 1] = d
        /\ \A k \in 1..Len(inbox) : inbox'[k] = inbox[k]
    BY <2>1 DEF Arrive, LinkInv
  <2>3. \A k \in 1..Len(inbox') :
          OfStation(inbox'[k]) /\ inbox'[k].header \in Event => inbox'[k].header \in released'
    BY <2>1, <2>2 DEF ReleaseInv
  <2>4. events' = events /\ last' = last
    BY <2>1 DEF vars, tickVars, nodeVars
  <2> QED
    BY <2>1, <2>3, <2>4 DEF ReleaseInv, ReleasedByStation, OfStation
<1>4. CASE EventReset
  BY <1>4 DEF EventReset, Reset, linkVars, tickVars, ReleaseInv, ReleasedByStation,
              OfStation
<1>5. CASE UNCHANGED eventVars
  BY <1>5 DEF eventVars, vars, nodeVars, tickVars, linkVars, historyVars, ReleaseInv,
              ReleasedByStation, OfStation
<1> QED
  BY <1>1, <1>2, <1>3, <1>4, <1>5 DEF EventNext

\* In every mission, whoever sends what to the socket, a WaitEvent node succeeds
\* only after the whitelisted ground station has sent its event.
THEOREM StationReleases == EventSpec => []ReleasedByStation
<1>1. EventInit => ReleaseInv
  <2> SUFFICES ASSUME EventInit PROVE ReleaseInv
    OBVIOUS
  <2>1. inbox = <<>> /\ released = {}
    BY DEF EventInit, LinkInit
  <2>2. Init
    BY DEF EventInit
  <2>3. events = {} /\ last = [n \in Node |-> "idle"]
    BY <2>2, Zenon DEF Init
  <2> QED
    BY <2>1, <2>3 DEF ReleaseInv, ReleasedByStation
<1>2. ReleaseInv => ReleasedByStation
  BY DEF ReleaseInv
<1> QED
  BY <1>1, <1>2, ReleaseStep, EventsRefine, TypeCorrect, LinkCorrect, PTL DEF EventSpec

-----------------------------------------------------------------------------
(* No reply is taken off the socket for nothing.                            *)

\* A mission whose walk has one branch, and whose events the link can carry: a
\* header outside the length limit is refused by decode_datagram.
Answerable ==
    /\ Reactive = {}
    /\ \A n \in Node : Kind[n] = "WaitEvent" => ValidHeader(EventOf[n])

\* The questions and what asks them do not fail.
NeverFail ==
    \A n \in Node : Kind[n] \in {"WaitEvent", "EmitEvent"} => last[n] # "failure"

\* Behind an event that is emitted the walk goes on to the question.
EmittedLeads ==
    \A m \in emitted, w \in Node : Asks(m, w) =>
      \/ last[w] # "idle"
      \/ phase = "back" /\ cursor = m
      \/ phase = "enter" /\ cursor = w

\* When an event is announced its question has been asked.
AnnouncedAsked ==
    \A m \in announced, w \in Node : Asks(m, w) => last[w] # "idle"

\* A question whose reply was taken has succeeded, or the walk is on its way
\* down to it with the reply.
RepliedDone ==
    \A w \in replied :
      /\ Kind[w] = "WaitEvent"
      /\ \/ last[w] = "success"
         \/ last[w] = "running" /\ phase = "enter" /\ EventOf[w] \in events

ReplyInv == NeverFail /\ EmittedLeads /\ AnnouncedAsked /\ RepliedDone

\* The loop that an EmitEvent node returns to calls the question behind it.
LEMMA AskReaches ==
    ASSUME TypeOK, StackInv, NeverFail, NEW p \in Node, NEW m \in Node, NEW w \in Node,
           Asks(m, w), phase = "back", cursor = m, last[m] # "running",
           StopAtChild(p) \/ AdvanceChild(p)
    PROVE  phase' = "enter" /\ cursor' = w
<1>1. /\ m # Root /\ p = Parent[m] /\ Kind[m] = "EmitEvent" /\ Kind[p] = "Sequence"
      /\ p = Parent[w]
  BY DEF Asks, StopAtChild, AdvanceChild
<1>2. PICK k \in 2..Len(Children[p]) : Children[p][k] = w /\ Children[p][k - 1] = m
  BY <1>1 DEF Asks
<1>3. p \in Composite /\ At(p, m) /\ last[m] \in NodeStatus \ {"idle"}
  BY <1>1, ParentFacts DEF StackInv, TypeOK
<1>4. last[m] = "success"
  BY <1>1, <1>3 DEF NeverFail, NodeStatus
<1>5. AdvanceChild(p)
  BY <1>1, <1>4 DEF StopAtChild, Stops
<1>6. index[p] = k - 1
  <2>1. Len(Children[p]) \in Nat
    BY <1>3, CompositeFacts
  <2>2. k - 1 \in 1..Len(Children[p]) /\ index[p] \in 1..Len(Children[p])
    BY <1>3, <2>1 DEF At
  <2> QED
    BY <1>2, <1>3, <2>2, ChildFacts DEF At
<1>7. index[p] + 1 = k /\ k \in Nat \ {0} /\ k \in 1..Len(Children[p])
  BY <1>6
<1>8. Loop(p, k)
  BY <1>5, <1>7 DEF AdvanceChild
<1> QED
  BY <1>2, <1>3, <1>7, <1>8, LoopCases DEF Call

\* A step of a composite keeps ReplyInv.
LEMMA ReplyComposite ==
    ASSUME EventTypeOK, StackInv, BranchInv, ActionInv, Reactive = {}, ReplyInv,
           NEW p \in Node, EnterComposite(p) \/ StopAtChild(p) \/ AdvanceChild(p),
           UNCHANGED <<announced, replied>>
    PROVE  ReplyInv'
<1>1. TypeOK
  BY DEF EventTypeOK
<1>2. \A n \in Node : Kind[n] \in {"WaitEvent", "EmitEvent"} => last'[n] = last[n]
  <2>1. p \in Composite /\ (last' = last \/ \E status : Return(p, status))
    BY <1>1, ParentFacts DEF EnterComposite, StopAtChild, AdvanceChild, Loop, TypeOK
  <2> QED
    BY <1>1, <2>1, LeafFacts, CompositeKeepsLeaves
<1>3. emitted' = emitted /\ events' = events
  BY DEF EnterComposite, StopAtChild, AdvanceChild, tickVars
<1>4. /\ phase = "enter" => cursor \in Composite /\ phase' = "enter"
      /\ phase = "enter" \/ phase = "back"
  BY <1>1, EnterCalls DEF EnterComposite, StopAtChild, AdvanceChild, Ticking
<1>5. NeverFail'
  BY <1>2 DEF ReplyInv, NeverFail
<1>6. AnnouncedAsked'
  BY <1>2 DEF ReplyInv, AnnouncedAsked, Asks
<1>7. RepliedDone'
  BY <1>2, <1>3, <1>4 DEF ReplyInv, RepliedDone, EventTypeOK
<1>8. EmittedLeads'
  <2> SUFFICES ASSUME NEW m \in emitted, NEW w \in Node, Asks(m, w), last[w] = "idle"
               PROVE  phase' = "enter" /\ cursor' = w
    BY <1>2, <1>3 DEF EmittedLeads, Asks
  <2>1. m \in Node /\ Kind[m] = "EmitEvent" /\ Kind[w] = "WaitEvent"
    BY <1>1 DEF TypeOK, Asks
  <2>2. ~(phase = "enter" /\ cursor = w)
    BY <1>4, <2>1 DEF Composite
  <2>3. phase = "back" /\ cursor = m
    BY <2>2 DEF ReplyInv, EmittedLeads
  <2>4. StopAtChild(p) \/ AdvanceChild(p)
    BY <2>3 DEF EnterComposite, Ticking
  <2>5. last[m] # "running"
    BY <2>1 DEF ActionInv
  <2> QED
    BY <1>1, <2>1, <2>3, <2>4, <2>5, AskReaches DEF ReplyInv
<1> QED
  BY <1>5, <1>6, <1>7, <1>8 DEF ReplyInv

\* A step of a leaf keeps ReplyInv: the first leaf the walk reaches is the
\* question whose reply has come.
LEMMA ReplyLeaf ==
    ASSUME EventTypeOK, StackInv, BranchInv, ReplyInv,
           NEW n \in Node, NodeStep(n), LeafStep(n),
           UNCHANGED <<announced, replied>>
    PROVE  ReplyInv'
<1>1. TypeOK
  BY DEF EventTypeOK
<1>2. PICK status \in {"running", "success", "failure"} : Return(n, status)
  BY DEF LeafStep
<1>3. /\ phase = "enter" /\ cursor = n /\ phase' = "back" /\ cursor' = n
      /\ last'[n] = status /\ \A m \in Node \ {n} : last'[m] = last[m]
  BY <1>1, <1>2 DEF LeafStep, Return, TypeOK
<1>4. emitted' \subseteq emitted \cup {n}
  BY DEF NodeStep, EnterComposite, StopAtChild, AdvanceChild, TickWait,
         TickRequireCapability, TickWaitEvent, TickEmitEvent, RefuseAction, FollowAction
<1>5. NeverFail'
  <2>1. Kind[n] = "WaitEvent" => status # "failure"
    BY <1>1, <1>3, WaitsForEvent DEF ReplyInv, NeverFail
  <2>2. Kind[n] = "EmitEvent" => status # "failure"
    <3>1. Kind[n] = "EmitEvent" => TickEmitEvent(n)
      BY <1>3, LeafFacts
         DEF NodeStep, EnterComposite, StopAtChild, AdvanceChild, TickWait, LeafStep,
             TickRequireCapability, TickWaitEvent, RefuseAction, FollowAction, Ticking, Leaf
    <3> QED
      BY <1>1, <1>3, <3>1 DEF TickEmitEvent, Return, TypeOK
  <2> QED
    BY <1>3, <2>1, <2>2 DEF ReplyInv, NeverFail
<1>6. AnnouncedAsked'
  BY <1>3 DEF ReplyInv, AnnouncedAsked, Asks
<1>7. EmittedLeads'
  BY <1>3, <1>4 DEF ReplyInv, EmittedLeads, Asks
<1>8. RepliedDone'
  <2> SUFFICES ASSUME NEW w \in replied
               PROVE  Kind[w] = "WaitEvent" /\ last'[w] = "success"
    BY DEF RepliedDone
  <2>1. w \in Node /\ Kind[w] = "WaitEvent" /\ last[w] \in {"success", "running"}
    BY DEF ReplyInv, RepliedDone, EventTypeOK
  <2>2. CASE last[w] = "success"
    <3>1. n # w
      BY <1>1, <2>2, LeafRuns DEF BranchInv
    <3> QED
      BY <1>3, <2>1, <2>2, <3>1
  <2>3. CASE last[w] = "running"
    <3>1. EventOf[w] \in events
      BY <2>3 DEF ReplyInv, RepliedDone
    <3>2. w \in RunningLeaf
      BY <2>1, <2>3, LeafFacts DEF RunningLeaf
    <3>3. w = n
      BY <1>1, <3>2, LeafRuns DEF BranchInv
    <3>4. TickWaitEvent(n)
      BY <1>3, <2>1, <3>3, LeafFacts
         DEF NodeStep, EnterComposite, StopAtChild, AdvanceChild, TickWait, LeafStep,
             TickRequireCapability, TickEmitEvent, RefuseAction, FollowAction, Ticking, Leaf
    <3> QED
      BY <1>1, <2>1, <3>1, <3>3, <3>4 DEF TickWaitEvent, Return, TypeOK
  <2> QED
    BY <2>1, <2>2, <2>3
<1> QED
  BY <1>5, <1>6, <1>7, <1>8 DEF ReplyInv

\* The accepted headers include those of the station's answers.
LEMMA AnswerIsHeard ==
    ASSUME Answerable, NEW n, NEW w \in Replies(n)
    PROVE  /\ w \in Node /\ Kind[w] = "WaitEvent" /\ EventOf[w] \in Heard(n)
           /\ \E m \in announced : Asks(m, w)
<1>1. PICK m \in announced :
        /\ Asks(m, w)
        /\ EventOf[w] \in {inbox[k].header : k \in {j \in 1..n : OfStation(inbox[j])}}
  BY DEF Replies
<1>2. w \in Node /\ Kind[w] = "WaitEvent"
  BY <1>1 DEF Replies, Asks
<1>3. PICK k \in 1..n : OfStation(inbox[k]) /\ EventOf[w] = inbox[k].header
  BY <1>1
<1>4. Rejection(inbox[k]) = "none"
  BY <1>2, <1>3 DEF Answerable, OfStation, Rejection, Whitelisted
<1>5. EventOf[w] \in Event
  BY <1>2, AttributeAssumption
<1> QED
  BY <1>1, <1>2, <1>3, <1>4, <1>5 DEF Heard, Accepted

\* Every step keeps ReplyInv.
LEMMA ReplyStep ==
    ASSUME Answerable, EventTypeOK, StackInv, BranchInv, ActionInv, ReplyInv,
           [EventNext]_eventVars
    PROVE  ReplyInv'
<1> USE DEF Answerable
<1>1. CASE EventBegin
  <2>1. PICK time \in 0..MaxNow, world \in Sense, table \in CapabilityTable, n \in Drained :
          /\ UNCHANGED announced
          /\ \/ /\ \/ TickTerminal(world, time)
                   \/ TickPaused(world, time, table)
                   \/ TickAborted(world, time, table)
                /\ UNCHANGED replied
             \/ /\ TickAllowed(world, time, table, Heard(n))
                /\ replied' = replied \cup Replies(n)
    BY <1>1 DEF EventBegin, Times
  <2>2. last' = last /\ emitted' = {} /\ phase = "out"
    BY <2>1 DEF TickTerminal, TickPaused, TickAborted, TickAllowed, nodeVars
  <2>3. NeverFail' /\ EmittedLeads' /\ AnnouncedAsked'
    BY <2>1, <2>2 DEF ReplyInv, NeverFail, EmittedLeads, AnnouncedAsked, Asks
  <2>4. RepliedDone'
    <3>1. CASE UNCHANGED replied
      BY <2>2, <3>1 DEF ReplyInv, RepliedDone
    <3>2. CASE /\ TickAllowed(world, time, table, Heard(n))
               /\ replied' = replied \cup Replies(n)
      <4>1. events' = Heard(n) /\ phase' = "enter"
        BY <3>2 DEF TickAllowed
      <4>2. ASSUME NEW w \in Replies(n)
            PROVE  /\ Kind[w] = "WaitEvent" /\ EventOf[w] \in events'
                   /\ last'[w] \in {"success", "running"}
        <5>1. /\ w \in Node /\ Kind[w] = "WaitEvent" /\ EventOf[w] \in Heard(n)
              /\ \E m \in announced : Asks(m, w)
          BY AnswerIsHeard
        <5>2. last[w] # "idle" /\ last[w] # "failure"
          BY <5>1 DEF ReplyInv, AnnouncedAsked, NeverFail
        <5> QED
          BY <2>2, <4>1, <5>1, <5>2 DEF EventTypeOK, TypeOK, NodeStatus
      <4> QED
        BY <2>2, <3>2, <4>1, <4>2 DEF ReplyInv, RepliedDone
    <3> QED
      BY <2>1, <3>1, <3>2
  <2> QED
    BY <2>3, <2>4 DEF ReplyInv
<1>2. CASE EventWalk
  <2>1. UNCHANGED replied /\ (phase' # "out" => UNCHANGED announced)
    BY <1>2 DEF EventWalk, historyVars
  <2>2. ASSUME NEW n \in Node, NodeStep(n) PROVE ReplyInv'
    <3>1. TypeOK
      BY DEF EventTypeOK
    <3>2. UNCHANGED announced
      BY <2>1, <2>2, <3>1, NodeKeeps
    <3>3. CASE EnterComposite(n) \/ StopAtChild(n) \/ AdvanceChild(n)
      BY <2>1, <3>2, <3>3, ReplyComposite
    <3>4. CASE LeafStep(n)
      BY <2>1, <2>2, <3>2, <3>4, ReplyLeaf
    <3> QED
      BY <2>2, <3>3, <3>4, LeafActions DEF NodeStep
  <2>3. CASE FinishTick
    <3>1. /\ last' = last /\ phase = "back" /\ cursor = Root /\ emitted' = emitted
      BY <2>3 DEF FinishTick, nodeVars
    <3>2. announced' \subseteq announced \cup emitted
      BY <1>2 DEF EventWalk
    <3>3. ASSUME NEW m \in emitted, NEW w \in Node, Asks(m, w) PROVE last[w] # "idle"
      <4>1. m # Root
        BY <3>3, TreeAssumption DEF Asks
      <4> QED
        BY <3>1, <3>3, <4>1 DEF ReplyInv, EmittedLeads
    <3>4. NeverFail' /\ EmittedLeads' /\ AnnouncedAsked'
      BY <3>1, <3>2, <3>3 DEF ReplyInv, NeverFail, EmittedLeads, AnnouncedAsked, Asks
    <3>5. RepliedDone'
      BY <2>1, <3>1 DEF ReplyInv, RepliedDone
    <3> QED
      BY <3>4, <3>5 DEF ReplyInv
  <2> QED
    BY <1>2, <2>2, <2>3 DEF EventWalk, Walk, NodeStep
<1>3. CASE EventReset
  <2>1. /\ announced' = {} /\ replied' = {} /\ emitted' = {}
        /\ \A n \in Node : last'[n] = "idle"
    BY <1>3 DEF EventReset, Reset
  <2> QED
    BY <2>1 DEF ReplyInv, NeverFail, EmittedLeads, AnnouncedAsked, RepliedDone
<1>4. CASE Network \/ UNCHANGED eventVars
  <2>1. UNCHANGED <<vars, announced, replied>>
    BY <1>4 DEF Network, eventVars, historyVars
  <2> QED
    BY <2>1 DEF vars, nodeVars, walkVars, tickVars, ReplyInv, NeverFail, EmittedLeads,
                AnnouncedAsked, RepliedDone, Asks
<1> QED
  BY <1>1, <1>2, <1>3, <1>4 DEF EventNext

\* In every mission without reactive nodes whose events fit an envelope, a tick
\* that takes the station's answer to an announced event off the socket, and
\* walks the tree, ends the WaitEvent node that waits for it: the announcement,
\* sent after the walk, never overtakes the question.
THEOREM RepliesHeard ==
    ASSUME Answerable
    PROVE  EventSpec => []ReplyIsHeard
<1>1. EventInit => ReplyInv
  <2> SUFFICES ASSUME EventInit PROVE ReplyInv
    OBVIOUS
  <2>1. announced = {} /\ replied = {} /\ Init
    BY DEF EventInit
  <2>2. emitted = {} /\ last = [n \in Node |-> "idle"]
    BY <2>1, Zenon DEF Init
  <2> QED
    BY <2>1, <2>2 DEF ReplyInv, NeverFail, EmittedLeads, AnnouncedAsked, RepliedDone
<1>2. ReplyInv => ReplyIsHeard
  BY DEF ReplyInv, RepliedDone, ReplyIsHeard
<1>3. EventTypeOK /\ BranchIInv /\ ReplyInv /\ [EventNext]_eventVars => ReplyInv'
  BY ReplyStep DEF BranchIInv, Answerable
<1> QED
  BY <1>1, <1>2, <1>3, EventsRefine, EventTypeCorrect, BranchCorrect, PTL DEF EventSpec
=============================================================================
