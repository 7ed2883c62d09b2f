------------------------ MODULE SubscriptionRegistry ------------------------
(***************************************************************************)
(* The subscription registry (internal/broker/subscription), a second map  *)
(* from clients to subscriptions with a mutex of its own.                  *)
(***************************************************************************)
EXTENDS Qtt

VARIABLE byClient

\* NewRegistry: an empty map.
NoRegistry == [c \in ClientIds |-> NoSubs]

Add(c, new) == byClient' = [byClient EXCEPT ![c] = Replace(@, new)]

Matches == [client : ClientIds, filter : Filters, qos : QoS]

\* Plausible bug: filters are matched without asking who subscribed to them.
MatchAnyone(topic) ==
    {[client |-> s[1], filter |-> s[2], qos |-> byClient[s[1]][s[2]]] :
        s \in {t \in ClientIds \X Filters : MatchTopic(t[2], topic)}}

\* One match for every subscription whose filter accepts the topic. Go walks
\* the map in any order, so the router visits the matches in any order.
Match(topic) ==
    {[client |-> s[1], filter |-> s[2], qos |-> byClient[s[1]][s[2]]] :
        s \in {t \in ClientIds \X Filters :
                 byClient[t[1]][t[2]] # Unsubscribed /\ MatchTopic(t[2], topic)}}
=============================================================================
