---------------------------- MODULE MessageStore ----------------------------
(***************************************************************************)
(* The two PostgreSQL tables of the broker (api/db/store.go) and the       *)
(* offline queue built on one of them (internal/queue/persistent).  Each   *)
(* statement is one step; the tables survive a restart of the broker.      *)
(***************************************************************************)
EXTENDS Qtt

VARIABLES
    messages,   \* table messages: packet_id -> row, by primary key packet_id
    offline,    \* table offline_messages: a set of rows, primary key packet_id
    clock       \* time.Now() for available_at: the number of rows ever inserted

NoRow == [state |-> "absent", publisher |-> NoId]

MessageRow == [state : {"unacked", "acked"}, publisher : ClientIds]

OfflineRow == [id : PacketIds, client : ClientIds, qos : QoS, at : Nat]

\* Plausible bug: ON CONFLICT DO UPDATE instead of DO NOTHING.
SaveMessageUpdate(id, c) ==
    messages' = [messages EXCEPT ![id] =
        [state |-> IF QosOf[id] = 0 THEN "acked" ELSE "unacked", publisher |-> c]]

\* INSERT ... ON CONFLICT (packet_id) DO NOTHING; QoS 0 is stored as acknowledged.
SaveMessage(id, c) ==
    messages' = IF messages[id] = NoRow
                THEN [messages EXCEPT ![id] =
                        [state |-> IF QosOf[id] = 0 THEN "acked" ELSE "unacked",
                         publisher |-> c]]
                ELSE messages

\* Plausible bug: an acknowledged message is deleted.
MarkMessageDeletes(id) == messages' = [messages EXCEPT ![id] = NoRow]

\* UPDATE messages SET acknowledged = TRUE WHERE packet_id = id.
MarkMessageAcknowledged(id) ==
    messages' = IF messages[id] = NoRow
                THEN messages
                ELSE [messages EXCEPT ![id].state = "acked"]

\* INSERT ... ON CONFLICT (packet_id) DO NOTHING: the key leaves the client out.
EnqueueOfflineMessage(id, c, qos) ==
    IF \E r \in offline : r.id = id
    THEN UNCHANGED <<offline, clock>>
    ELSE /\ offline' = offline \cup {[id |-> id, client |-> c, qos |-> qos, at |-> clock]}
         /\ clock' = clock + 1

\* Plausible bug: the WHERE clause is missing.
GetAllOfflineMessages(c) == offline

\* SELECT ... WHERE client_id = c. The rows are sent by ascending available_at.
GetOfflineMessages(c) == {r \in offline : r.client = c}

Oldest(rows) == {r \in rows : \A s \in rows : r.at <= s.at}

\* DELETE ... WHERE packet_id = id, whoever the row is for.
DeleteOfflineMessage(id) ==
    offline' = {r \in offline : r.id # id} /\ UNCHANGED clock
=============================================================================
