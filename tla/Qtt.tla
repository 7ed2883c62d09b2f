--------------------------------- MODULE Qtt --------------------------------
(***************************************************************************)
(* Vocabulary the broker's stores share (pkg/qtt/types).                   *)
(*                                                                         *)
(* A PUBLISH packet is named by its packet id: TopicOf and QosOf give the  *)
(* topic and the QoS it was published with, so that publishing the same id *)
(* again is a retry of the same packet (ids are UUIDs).  The payload plays *)
(* no part in routing.  A list of subscriptions that replaces entries with *)
(* the same topic is a function from filters to QoS; the order of a        *)
(* client's own filters is dropped.                                        *)
(***************************************************************************)
EXTENDS Auth

CONSTANTS
    ClientIds,      \* client identifiers, by their levels (none is the empty string)
    Conns,          \* connections a broker ever accepts: each is used once
    NoConn,         \* the nil PacketConn
    PacketIds,      \* ids of PUBLISH packets
    NoPacket,       \* no packet
    Filters,        \* topic filters clients subscribe to
    TopicOf,        \* topic of a packet
    QosOf           \* QoS a packet is published with

QoS == 0..1

Unsubscribed == -1

\* What one client is subscribed to, and with which QoS.
SubMap == [Filters -> QoS \cup {Unsubscribed}]

NoSubs == [f \in Filters |-> Unsubscribed]

\* The subscriptions of one SUBSCRIBE packet: at least one, each with its QoS.
SubRequests == UNION {[fs -> QoS] : fs \in (SUBSET Filters) \ {{}}}

ASSUME QttAssumption ==
    /\ NoId \notin ClientIds
    /\ NoConn \notin Conns
    /\ NoPacket \notin PacketIds
    /\ TopicOf \in [PacketIds -> Seq(STRING) \ {<<>>}]
    /\ QosOf \in [PacketIds -> QoS]

\* Ids are sequences of levels, and nothing is assumed of a level: it may be "", "+" or
\* "#". (The proof backends do not know that a string constant is a string.)
ASSUME IdLevels ==
    /\ ClientIds \subseteq Seq(STRING)
    /\ {"", "device", "command"} \subseteq STRING

\* Replace the entries with the same topic, append the others.
Replace(old, new) ==
    [f \in Filters |-> IF f \in DOMAIN new THEN new[f] ELSE old[f]]
=============================================================================
