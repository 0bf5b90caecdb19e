---------------------------- MODULE EventMission ----------------------------
(***************************************************************************)
(* A mission that talks to the ground station: the part of ApplicationNode *)
(* ::tick_generic that polls GroundStationLink, hands what it accepted to  *)
(* MissionTree::tick as events, and sends what the tree emitted.  The      *)
(* executor answers anything.  The network may lose, repeat, delay and     *)
(* reorder datagrams, and others may send to the same socket.              *)
(***************************************************************************)
EXTENDS MissionTree, GroundStationLink

CONSTANTS
    Datagram,         \* what may arrive
    PayloadIsObject   \* [EmitEvent node -> its payload is a JSON object]

ASSUME DatagramAssumption ==
    \A d \in Datagram : d.form \in Forms /\ d.header \in DOMAIN HeaderLength

VARIABLES
    announced,   \* EmitEvent nodes whose datagram has left in this mission
    released,    \* history: headers the ground station has sent in an envelope
    replied      \* history: WaitEvent nodes whose reply a tick has taken

historyVars == <<released, replied>>
eventVars == <<vars, linkVars, announced, historyVars>>

\* The EmitEvent node right before n asks for the event n waits for.
Asks(m, n) ==
    /\ Kind[m] = "EmitEvent" /\ Kind[n] = "WaitEvent"
    /\ Parent[n] # NoNode /\ Parent[m] = Parent[n] /\ Kind[Parent[n]] = "Sequence"
    /\ \E k \in 2..Len(Children[Parent[n]]) :
         Children[Parent[n]][k] = n /\ Children[Parent[n]][k - 1] = m

EventTypeOK ==
    /\ TypeOK
    /\ bound \in BOOLEAN
    /\ Len(inbox) <= MaxInbox
    /\ \A k \in DOMAIN inbox : inbox[k] \in Datagram
    /\ announced \subseteq Node
    /\ released \subseteq Event
    /\ replied \subseteq Node

EventInit ==
    /\ Init /\ LinkInit
    /\ announced = {} /\ released = {} /\ replied = {}

-----------------------------------------------------------------------------

\* What of the accepted messages the tree can wait for.
Heard(n) == Accepted(n) \cap Event

\* An envelope that the ground station itself has sent.
OfStation(d) ==
    d.ip = WhitelistIp /\ d.port = WhitelistPort /\ d.form = "envelope"

\* A tick that reaches the tree after a question was asked takes its reply.
Replies(n) ==
    {w \in Node : \E m \in announced :
       Asks(m, w) /\ EventOf[w] \in
         {inbox[k].header : k \in {j \in 1..n : OfStation(inbox[j])}}}

\* One tick begins: the socket is polled first, whatever the supervisor then
\* decides, so what a paused or finished mission polls is lost.
EventBegin ==
    \E time \in Times, world \in Sense,
       table \in CapabilityTable, n \in Drained :
      /\ Poll(n)
      /\ UNCHANGED <<announced, released>>
      /\ \/ /\ \/ TickTerminal(world, time)
               \/ TickPaused(world, time, table)
               \/ TickAborted(world, time, table)
            /\ UNCHANGED replied
         \/ /\ TickAllowed(world, time, table, Heard(n))
            /\ replied' = replied \cup Replies(n)

\* The walk, then the loop that sends what was emitted: an event that cannot be
\* sent is dropped with a warning and never sent again.
EventWalk ==
    /\ Walk
    /\ IF phase' = "out"
         THEN \E sent \in SUBSET {n \in emitted : Sendable(EventOf[n], PayloadIsObject[n])} :
                announced' = announced \cup sent
         ELSE UNCHANGED announced
    /\ UNCHANGED <<linkVars, historyVars>>

\* Nothing in the process happens while datagrams arrive, so they may as well
\* arrive between two ticks.
Network ==
    \E d \in Datagram :
      /\ phase = "out" /\ Arrive(d)
      /\ released' = released \cup
           {header \in Event : OfStation(d) /\ header = d.header}
      /\ UNCHANGED <<vars, announced, replied>>

EventReset ==
    /\ Reset
    /\ announced' = {} /\ replied' = {}
    /\ UNCHANGED <<linkVars, released>>

EventNext == EventBegin \/ EventWalk \/ Network \/ EventReset

EventSpec == EventInit /\ [][EventNext]_eventVars

-----------------------------------------------------------------------------
(* Properties.                                                              *)

\* Only the ground station lets a mission pass a WaitEvent: whoever else sends
\* to the port, whatever is malformed, and whenever it arrives, a WaitEvent
\* that has succeeded heard an envelope that the whitelisted endpoint sent
\* (ground_station_link.cpp:165-185, application_node.cpp:284-286, 322-328).
ReleasedByStation ==
    \A n \in Node : Kind[n] = "WaitEvent" /\ last[n] = "success" =>
      EventOf[n] \in released

\* A reply is never taken off the socket for nothing: when the station answers
\* an announced event, the tick that polls the answer ends the WaitEvent behind
\* the EmitEvent, or the supervisor held that tick back.  The event is sent
\* after the walk (application_node.cpp:329-331), in which the tree has already
\* reached the WaitEvent, so no answer can come too early.
ReplyIsHeard ==
    phase = "out" => \A n \in replied : last[n] = "success"
=============================================================================
