-------------------------- MODULE GroundStationLink --------------------------
(***************************************************************************)
(* communication::GroundStationLink: a UDP socket that is drained without  *)
(* blocking, at most Batch datagrams at a time, and a strict JSON envelope *)
(* {header, data}.  A datagram is reduced to what decode_datagram tests:   *)
(* where it comes from, how far it parses, and its header.                 *)
(***************************************************************************)
EXTENDS Sequences, Integers

CONSTANTS
    Enabled,          \* udp.enabled
    WhitelistIp, WhitelistPort,
    Batch,            \* poll() reads at most so many datagrams (64)
    MaxHeader,        \* a header has 1..MaxHeader characters (64)
    HeaderLength,     \* [header -> its length]
    MaxInbox          \* bound: what the socket's receive buffer holds

ASSUME LinkAssumption ==
    /\ Enabled \in BOOLEAN
    /\ Batch \in Nat \ {0} /\ MaxInbox \in Nat /\ MaxHeader \in Nat
    /\ \A header \in DOMAIN HeaderLength : HeaderLength[header] \in Nat

VARIABLES
    bound,   \* socket_fd_ >= 0
    inbox    \* external: the datagrams in the socket's receive buffer

linkVars == <<bound, inbox>>

\* "bytes" are not UTF-8, "text" is not one JSON object (or names a key twice),
\* and "object" is not {header: string, data: object}.
Forms == {"bytes", "text", "object", "envelope"}

\* The constructor: the socket may fail to open or to bind, for good.
LinkInit ==
    /\ bound \in IF Enabled THEN BOOLEAN ELSE {FALSE}
    /\ inbox = <<>>

\* Fault: one of address and port is enough.
WhitelistedMutant(d) == d.ip = WhitelistIp \/ d.port = WhitelistPort

Whitelisted(d) == d.ip = WhitelistIp /\ d.port = WhitelistPort

ValidHeader(header) == HeaderLength[header] \in 1..MaxHeader

\* decode_datagram: the first test that fails gives the reason.
Rejection(d) ==
    CASE ~Whitelisted(d) -> "source_not_whitelisted"
      [] Whitelisted(d) /\ d.form = "bytes" -> "invalid_utf8"
      [] Whitelisted(d) /\ d.form = "text" -> "invalid_json"
      [] Whitelisted(d) /\ d.form = "object" -> "invalid_envelope"
      [] Whitelisted(d) /\ d.form = "envelope" ->
           IF ValidHeader(d.header) THEN "none" ELSE "invalid_header"

\* How many datagrams one poll() may take: it stops at the first error of
\* recvfrom, at an empty buffer, or at the batch limit.
Drained == IF bound THEN 0..Len(inbox) \cap 0..Batch ELSE {0}

\* Fault: one bad datagram discards the ones behind it.
AcceptedMutant(n) ==
    {inbox[k].header : k \in {j \in 1..n :
        \A i \in 1..j : Rejection(inbox[i]) = "none"}}

\* poll() and the loop of tick_generic over its results: the accepted headers
\* of the first n datagrams.
Accepted(n) == {inbox[k].header : k \in {j \in 1..n : Rejection(inbox[j]) = "none"}}

Poll(n) ==
    /\ inbox' = SubSeq(inbox, n + 1, Len(inbox))
    /\ UNCHANGED bound

\* encode() throws for a bad header or a payload that is no JSON object, and
\* send_json() fails without a socket.
Sendable(header, payloadIsObject) ==
    bound /\ ValidHeader(header) /\ payloadIsObject

\* External: a datagram reaches the socket; a full buffer loses it.
Arrive(d) ==
    /\ bound /\ Len(inbox) < MaxInbox
    /\ inbox' = Append(inbox, d)
    /\ UNCHANGED bound
=============================================================================
