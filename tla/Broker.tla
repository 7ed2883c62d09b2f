------------------------------- MODULE Broker -------------------------------
(***************************************************************************)
(* The broker process (internal/broker/server, internal/broker/router):    *)
(* one goroutine per connection runs handleConnection against the session  *)
(* store, the subscription registry and the database, and sends packets on *)
(* its own connection and, while routing, on those of other clients.       *)
(*                                                                         *)
(* A step of a handler is one operation on shared state: a store operation *)
(* under its mutex, one SQL statement, one Send.  Between two steps any    *)
(* other handler, client, or a crash of the broker may run.                *)
(*                                                                         *)
(* The wire to a client carries CONNACK and PUBLISH.  SUBACK, PONG and     *)
(* ERROR replies are left out: no client of this module reacts to them,    *)
(* and apart from PONG the broker ignores the outcome of sending them.     *)
(***************************************************************************)
EXTENDS SessionStore, SubscriptionRegistry, MessageStore

CONSTANTS
    ConnectOf,      \* CONNECT packets the client behind a connection may send
    Subscribes,     \* SUBSCRIBE requests a client may send
    Publishes,      \* ids of the packets a client may publish
    MaxPublish      \* bound: how often one packet is published (retries)

VARIABLES
    pc,         \* where the handler of a connection is
    client,     \* its clientID
    claims,     \* its claims
    present,    \* sessionPresent, to be sent in CONNACK
    pend,       \* deliverOffline: rows read and not yet sent
    cur,        \* the packet it is publishing or acknowledging
    todo,       \* Route: matches still to be served
    target,     \* Route: the match being served
    tconn,      \* Route: the connection sessions.Get returned for it
    newsubs,    \* handleSubscribe: the request
    net,        \* transport state of a connection, see below
    wire,       \* packets sent to the client and not yet read by it
    acks,       \* ids the client has read with QoS 1 and not yet acknowledged
    published,  \* how often each packet was published
    pubacked,   \* history: packets whose publisher was sent PUBACK
    queued,     \* history: <<id, client>> for which Enqueue reported success
    ackSeen     \* history: <<id, client>> for which a PUBACK was handled

memory == <<sessions, byClient>>
database == <<messages, offline, clock>>
identity == <<client, claims, present>>
routing == <<cur, todo, target, tconn>>
transport == <<net, wire, acks>>
history == <<pubacked, queued, ackSeen>>
vars == <<memory, database, pc, identity, pend, routing, newsubs, transport,
          published, history>>

ClaimSet == [clientId : Seq(STRING), deviceId : Seq(STRING), role : STRING]
Tokens == [valid : BOOLEAN, claims : ClaimSet]

ASSUME BrokerAssumption ==
    /\ \A k \in Conns : \A p \in ConnectOf[k] :
          /\ p.clientId \in ClientIds \cup {NoId}
          /\ p.token \in Tokens
          /\ p.token.claims.clientId \in ClientIds \cup {NoId}
    /\ \A c \in ClientIds : Subscribes[c] \subseteq SubRequests
    /\ \A c \in ClientIds : Publishes[c] \subseteq PacketIds
    /\ MaxPublish \in Nat

(***************************************************************************)
(* Transport.  "up": both directions work.  "mute": a write timed out; the *)
(* JSON encoder keeps its first error, so every later Send fails, while    *)
(* packets from the client still arrive.  "dead": the client is gone and   *)
(* the broker has not noticed; a Send may still succeed locally.           *)
(* "closed": the broker closed the connection.                             *)
(***************************************************************************)
ConnAckPacket == [type |-> "CONNACK", id |-> NoPacket, qos |-> 0]
PublishPacket(id, qos) == [type |-> "PUBLISH", id |-> id, qos |-> qos]
Packets == {ConnAckPacket} \cup [type : {"PUBLISH"}, id : PacketIds, qos : QoS]

\* Send returned nil.
SendOk(k, p) ==
    /\ net[k] \in {"up", "dead"}
    /\ wire' = IF net[k] = "up" THEN [wire EXCEPT ![k] = Append(@, p)] ELSE wire
    /\ UNCHANGED net

\* Send returned an error: time-out, reset, closed, or an encoder that failed before.
SendErr(k) ==
    /\ net' = IF net[k] = "up" THEN [net EXCEPT ![k] = "mute"] ELSE net
    /\ UNCHANGED wire

\* A handler that is not in handleSubscribe holds no request.
NoRequest == <<>>

Receiving(k) == pc[k] = "loop" /\ net[k] \in {"up", "mute"}

Goto(k, label) == pc' = [pc EXCEPT ![k] = label]

-----------------------------------------------------------------------------
(***************************************************************************)
(* authenticate                                                            *)
(***************************************************************************)

\* No packet arrives, it is not CONNECT, or it is not accepted: refuse and close.
AuthFail(k) ==
    /\ pc[k] = "idle"
    /\ Goto(k, "done")
    /\ UNCHANGED <<memory, database, identity, pend, routing, newsubs, transport,
                   published, history>>

\* The CONNECT packet is accepted and the session becomes online.
Authenticate(k) ==
    /\ pc[k] = "idle"
    /\ \E p \in ConnectOf[k] :
          LET c == RequestedId(p)
          IN  /\ Accepts(p)
              /\ client' = [client EXCEPT ![k] = c]
              /\ claims' = [claims EXCEPT ![k] = p.token.claims]
              /\ present' = [present EXCEPT ![k] = sessions[c].present]
              /\ UpsertConnected(c, k)
    /\ Goto(k, "connack")
    /\ net' = [net EXCEPT ![k] = "up"]
    /\ UNCHANGED <<byClient, database, pend, routing, newsubs, wire, acks,
                   published, history>>

ConnAck(k) ==
    /\ pc[k] = "connack"
    /\ SendOk(k, ConnAckPacket)
    /\ Goto(k, "pending")
    /\ UNCHANGED <<memory, database, identity, pend, routing, newsubs, acks,
                   published, history>>

\* conn.Close: what the client has not read is lost.
CloseConn(k) ==
    /\ net' = [net EXCEPT ![k] = "closed"]
    /\ wire' = [wire EXCEPT ![k] = <<>>]
    /\ acks' = [acks EXCEPT ![k] = {}]

\* CONNACK cannot be sent. authenticate returns an error before the handler has
\* deferred sessions.Disconnect, so the session stays as it is.
ConnAckFail(k) ==
    /\ pc[k] = "connack"
    /\ Goto(k, "done")
    /\ CloseConn(k)
    /\ UNCHANGED <<memory, database, identity, pend, routing, newsubs,
                   published, history>>

(***************************************************************************)
(* deliverOffline                                                          *)
(***************************************************************************)

\* Reads the rows queued for the client. An error of the query is only logged.
Pending(k) ==
    /\ pc[k] = "pending"
    /\ \E rows \in {GetOfflineMessages(client[k]), {}} :
          /\ pend' = [pend EXCEPT ![k] = rows]
          /\ Goto(k, IF rows = {} THEN "loop" ELSE "replay")
    /\ UNCHANGED <<memory, database, identity, routing, newsubs, transport,
                   published, history>>

\* Plausible bug: a row is deleted as soon as it has been sent.
ReplayDeletes(k) ==
    /\ pc[k] = "replay"
    /\ \E r \in Oldest(pend[k]) :
          /\ SendOk(k, PublishPacket(r.id, r.qos))
          /\ DeleteOfflineMessage(r.id)
          /\ pend' = [pend EXCEPT ![k] = @ \ {r}]
          /\ Goto(k, IF pend[k] = {r} THEN "loop" ELSE "replay")
    /\ UNCHANGED <<memory, messages, identity, routing, newsubs, acks,
                   published, history>>

\* Sends the oldest row that was read. The row stays in the table.
Replay(k) ==
    /\ pc[k] = "replay"
    /\ \E r \in Oldest(pend[k]) :
          /\ SendOk(k, PublishPacket(r.id, r.qos))
          /\ pend' = [pend EXCEPT ![k] = @ \ {r}]
          /\ Goto(k, IF pend[k] = {r} THEN "loop" ELSE "replay")
    /\ UNCHANGED <<memory, database, identity, routing, newsubs, acks,
                   published, history>>

\* A Send fails: the replay is given up and the handler serves the client all the same.
ReplayFail(k) ==
    /\ pc[k] = "replay"
    /\ SendErr(k)
    /\ pend' = [pend EXCEPT ![k] = {}]
    /\ Goto(k, "loop")
    /\ UNCHANGED <<memory, database, identity, routing, newsubs, acks,
                   published, history>>

(***************************************************************************)
(* handleSubscribe.  A request the ACL refuses changes nothing.            *)
(***************************************************************************)
Subscribe(k) ==
    /\ Receiving(k)
    /\ \E new \in Subscribes[client[k]] :
          /\ \A f \in DOMAIN new : CanSubscribe(claims[k], f)
          /\ Add(client[k], new)
          /\ newsubs' = [newsubs EXCEPT ![k] = new]
    /\ Goto(k, "subscribe")
    /\ UNCHANGED <<sessions, database, identity, pend, routing, transport,
                   published, history>>

\* The session store is told next, under its own mutex; then SUBACK.
SubscribeSession(k) ==
    /\ pc[k] = "subscribe"
    /\ AddSubscriptions(client[k], newsubs[k])
    /\ newsubs' = [newsubs EXCEPT ![k] = NoRequest]
    /\ Goto(k, "loop")
    /\ UNCHANGED <<byClient, database, identity, pend, routing, transport,
                   published, history>>

(***************************************************************************)
(* handlePublish and Route.  A packet that is refused (no topic, ACL) or   *)
(* that SaveMessage cannot store is answered with ERROR and changes        *)
(* nothing, as does any packet but PUBACK the rate limiter turns away.     *)
(***************************************************************************)
Publish(k) ==
    /\ Receiving(k)
    /\ \E id \in Publishes[client[k]] :
          /\ published[id] < MaxPublish
          /\ TopicOf[id] # EmptyTopic
          /\ CanPublish(claims[k], TopicOf[id])
          /\ SaveMessage(id, client[k])
          /\ cur' = [cur EXCEPT ![k] = id]
          /\ published' = [published EXCEPT ![id] = @ + 1]
    /\ Goto(k, "match")
    /\ UNCHANGED <<memory, offline, clock, identity, pend, todo, target, tconn, newsubs,
                   transport, history>>

RouteMatch(k) ==
    /\ pc[k] = "match"
    /\ todo' = [todo EXCEPT ![k] = Match(TopicOf[cur[k]])]
    /\ Goto(k, "route")
    /\ UNCHANGED <<memory, database, identity, pend, cur, target, tconn, newsubs,
                   transport, published, history>>

\* The outbound copy has the smaller QoS of the packet and the subscription.
OutboundQoS(id, match) == IF QosOf[id] > match.qos THEN match.qos ELSE QosOf[id]

\* sessions.Get for the next match: a copy of the session, used after the lock is
\* released. No session: skip. Online: send. Offline: queue QoS 1, drop QoS 0.
RouteNext(k) ==
    /\ pc[k] = "route"
    /\ \E m \in todo[k] :
          LET s == sessions[m.client]
              live == s.online /\ s.conn # NoConn
          IN  /\ todo' = [todo EXCEPT ![k] = @ \ {m}]
              /\ IF s.present /\ (live \/ OutboundQoS(cur[k], m) > 0)
                 THEN /\ Goto(k, IF live THEN "send" ELSE "queue")
                      /\ target' = [target EXCEPT ![k] = m]
                      /\ tconn' = [tconn EXCEPT ![k] = s.conn]
                 ELSE UNCHANGED <<pc, target, tconn>>
    /\ UNCHANGED <<memory, database, identity, pend, cur, newsubs, transport,
                   published, history>>

NoTarget == [client |-> NoId, filter |-> EmptyTopic, qos |-> 0]

\* On to the next match.
Served(k) ==
    /\ Goto(k, "route")
    /\ target' = [target EXCEPT ![k] = NoTarget]
    /\ tconn' = [tconn EXCEPT ![k] = NoConn]

RouteSend(k) ==
    /\ pc[k] = "send"
    /\ SendOk(tconn[k], PublishPacket(cur[k], OutboundQoS(cur[k], target[k])))
    /\ Served(k)
    /\ UNCHANGED <<memory, database, identity, pend, cur, todo, newsubs, acks,
                   published, history>>

\* Plausible bug: the Send is tried again until it succeeds.
RouteSendRetry(k) ==
    /\ pc[k] = "send"
    /\ SendErr(tconn[k])
    /\ UNCHANGED <<memory, database, pc, identity, pend, routing, newsubs, acks,
                   published, history>>

\* The Send failed: a QoS 1 packet is queued, a QoS 0 packet dropped.
RouteSendFail(k) ==
    /\ pc[k] = "send"
    /\ SendErr(tconn[k])
    /\ IF OutboundQoS(cur[k], target[k]) > 0
       THEN Goto(k, "queue") /\ UNCHANGED <<target, tconn>>
       ELSE Served(k)
    /\ UNCHANGED <<memory, database, identity, pend, cur, todo, newsubs, acks,
                   published, history>>

RouteQueue(k) ==
    /\ pc[k] = "queue"
    /\ EnqueueOfflineMessage(cur[k], target[k].client, OutboundQoS(cur[k], target[k]))
    /\ queued' = queued \cup {<<cur[k], target[k].client>>}
    /\ Served(k)
    /\ UNCHANGED <<memory, messages, identity, pend, cur, todo, newsubs, transport,
                   published, pubacked, ackSeen>>

\* The handler is back in its loop and keeps nothing of the packet.
ForgetPacket(k) ==
    /\ Goto(k, "loop")
    /\ cur' = [cur EXCEPT ![k] = NoPacket]
    /\ todo' = [todo EXCEPT ![k] = {}]
    /\ target' = [target EXCEPT ![k] = NoTarget]
    /\ tconn' = [tconn EXCEPT ![k] = NoConn]

\* The INSERT failed: Route gives up the remaining matches, no PUBACK is sent.
RouteQueueFail(k) ==
    /\ pc[k] = "queue"
    /\ ForgetPacket(k)
    /\ UNCHANGED <<memory, database, identity, pend, newsubs, transport,
                   published, history>>

\* Every match is served. The publisher of a QoS 1 packet is sent PUBACK, unless
\* that Send fails, which changes nothing else here.
PublishDone(k) ==
    /\ pc[k] = "route" /\ todo[k] = {}
    /\ \/ /\ QosOf[cur[k]] > 0 /\ net[k] \in {"up", "dead"}
          /\ pubacked' = pubacked \cup {cur[k]}
       \/ UNCHANGED pubacked
    /\ ForgetPacket(k)
    /\ UNCHANGED <<memory, database, identity, pend, newsubs, transport,
                   published, queued, ackSeen>>

(***************************************************************************)
(* PUBACK from a subscriber: two statements, an error of either is logged. *)
(***************************************************************************)
PubAck(k) ==
    /\ Receiving(k)
    /\ \E id \in acks[k] :
          /\ MarkMessageAcknowledged(id) \/ UNCHANGED messages
          /\ acks' = [acks EXCEPT ![k] = @ \ {id}]
          /\ cur' = [cur EXCEPT ![k] = id]
          /\ ackSeen' = ackSeen \cup {<<id, client[k]>>}
    /\ Goto(k, "ack")
    /\ UNCHANGED <<memory, offline, clock, identity, pend, todo, target, tconn, newsubs,
                   net, wire, published, pubacked, queued>>

\* queue.Ack, whose error is only logged.
AckQueue(k) ==
    /\ pc[k] = "ack"
    /\ DeleteOfflineMessage(cur[k]) \/ UNCHANGED <<offline, clock>>
    /\ ForgetPacket(k)
    /\ UNCHANGED <<memory, messages, identity, pend, newsubs, transport,
                   published, history>>

\* The rate limiter turns a PUBACK away: it is lost, the client will not repeat it.
RateLimitPubAck(k) ==
    /\ Receiving(k)
    /\ \E id \in acks[k] : acks' = [acks EXCEPT ![k] = @ \ {id}]
    /\ UNCHANGED <<memory, database, pc, identity, pend, routing, newsubs, net, wire,
                   published, history>>

\* A reply (SUBACK, PUBACK, ERROR) times out; its error is ignored.
ReplyFail(k) ==
    /\ Receiving(k) /\ net[k] = "up"
    /\ SendErr(k)
    /\ UNCHANGED <<memory, database, pc, identity, pend, routing, newsubs, acks,
                   published, history>>

(***************************************************************************)
(* The end of a connection: Receive fails (closed, time-out, bad packet),  *)
(* PONG cannot be sent, or DISCONNECT arrives.  The deferred calls run in  *)
(* reverse order: sessions.Disconnect(clientID), then conn.Close.          *)
(***************************************************************************)

\* Plausible bug: no read deadline, only DISCONNECT ends the loop.
LeaveOnDisconnect(k) ==
    /\ Receiving(k)
    /\ Disconnect(client[k])
    /\ Goto(k, "closing")
    /\ UNCHANGED <<byClient, database, identity, pend, routing, newsubs, transport,
                   published, history>>

Leave(k) ==
    /\ pc[k] = "loop"
    /\ Disconnect(client[k])
    /\ Goto(k, "closing")
    /\ UNCHANGED <<byClient, database, identity, pend, routing, newsubs, transport,
                   published, history>>

Close(k) ==
    /\ pc[k] = "closing"
    /\ CloseConn(k)
    /\ Goto(k, "done")
    /\ UNCHANGED <<memory, database, identity, pend, routing, newsubs,
                   published, history>>

(***************************************************************************)
(* The client's end: it reads packets in order and owes a PUBACK for each  *)
(* QoS 1 PUBLISH (bridge.go, crabmq-sim); it may vanish at any time.       *)
(***************************************************************************)
ClientRead(k) ==
    /\ net[k] \in {"up", "mute"} /\ wire[k] # <<>>
    /\ wire' = [wire EXCEPT ![k] = Tail(@)]
    /\ acks' = IF Head(wire[k]).qos > 0
               THEN [acks EXCEPT ![k] = @ \cup {Head(wire[k]).id}] ELSE acks
    /\ UNCHANGED <<memory, database, pc, identity, pend, routing, newsubs, net,
                   published, history>>

ClientGone(k) ==
    /\ net[k] \in {"up", "mute"}
    /\ net' = [net EXCEPT ![k] = "dead"]
    /\ wire' = [wire EXCEPT ![k] = <<>>]
    /\ acks' = [acks EXCEPT ![k] = {}]
    /\ UNCHANGED <<memory, database, pc, identity, pend, routing, newsubs,
                   published, history>>

(***************************************************************************)
(* The broker process stops and is started again: New builds empty stores, *)
(* the database keeps its tables, every connection is gone.                *)
(***************************************************************************)
NoHandler(v) == [k \in Conns |-> v]

Restart ==
    /\ pc' = [k \in Conns |-> IF pc[k] = "idle" THEN "idle" ELSE "done"]
    /\ sessions' = NoSessions
    /\ byClient' = NoRegistry
    /\ client' = NoHandler(NoId) /\ claims' = NoHandler(NoClaims)
    /\ present' = NoHandler(FALSE) /\ pend' = NoHandler({}) /\ newsubs' = NoHandler(NoRequest)
    /\ cur' = NoHandler(NoPacket) /\ todo' = NoHandler({})
    /\ target' = NoHandler(NoTarget) /\ tconn' = NoHandler(NoConn)
    /\ net' = NoHandler("closed") /\ wire' = NoHandler(<<>>) /\ acks' = NoHandler({})
    /\ UNCHANGED <<database, published, history>>

Init ==
    /\ sessions = NoSessions
    /\ byClient = NoRegistry
    /\ messages = [id \in PacketIds |-> NoRow] /\ offline = {} /\ clock = 0
    /\ pc = NoHandler("idle")
    /\ client = NoHandler(NoId) /\ claims = NoHandler(NoClaims)
    /\ present = NoHandler(FALSE) /\ pend = NoHandler({}) /\ newsubs = NoHandler(NoRequest)
    /\ cur = NoHandler(NoPacket) /\ todo = NoHandler({})
    /\ target = NoHandler(NoTarget) /\ tconn = NoHandler(NoConn)
    /\ net = NoHandler("closed") /\ wire = NoHandler(<<>>) /\ acks = NoHandler({})
    /\ published = [id \in PacketIds |-> 0]
    /\ pubacked = {} /\ queued = {} /\ ackSeen = {}

HandlerStep(k) ==
    \/ AuthFail(k) \/ Authenticate(k) \/ ConnAck(k) \/ ConnAckFail(k)
    \/ Pending(k) \/ Replay(k) \/ ReplayFail(k)
    \/ Subscribe(k) \/ SubscribeSession(k)
    \/ Publish(k) \/ RouteMatch(k) \/ RouteNext(k)
    \/ RouteSend(k) \/ RouteSendFail(k)
    \/ RouteQueue(k) \/ RouteQueueFail(k) \/ PublishDone(k)
    \/ PubAck(k) \/ AckQueue(k) \/ RateLimitPubAck(k) \/ ReplyFail(k)
    \/ Leave(k) \/ Close(k)

ClientStep(k) == ClientRead(k) \/ ClientGone(k)

Next == Restart \/ \E k \in Conns : HandlerStep(k) \/ ClientStep(k)

Spec == Init /\ [][Next]_vars
\* A handler that does not wait for its client is scheduled again, and Receive on a
\* dead connection ends with the read time-out. Clients owe the broker nothing.
FairSpec ==
    /\ Spec
    /\ \A k \in Conns :
          WF_vars(HandlerStep(k) /\ (pc[k] \notin {"idle", "loop"} \/ net[k] = "dead"))

-----------------------------------------------------------------------------
(***************************************************************************)
(* Properties                                                              *)
(***************************************************************************)
\* The positions of a handler.
Labels == {"idle", "connack", "pending", "replay", "loop", "subscribe", "match", "route",
           "send", "queue", "ack", "closing", "done"}

TypeStores ==
    /\ sessions \in [ClientIds -> Session]
    /\ byClient \in [ClientIds -> SubMap]
    /\ messages \in [PacketIds -> MessageRow \cup {NoRow}]
    /\ offline \subseteq OfflineRow
    /\ clock \in Nat

TypeHandlers ==
    /\ pc \in [Conns -> Labels]
    /\ client \in [Conns -> ClientIds \cup {NoId}]
    /\ claims \in [Conns -> ClaimSet]
    /\ present \in [Conns -> BOOLEAN]
    /\ pend \in [Conns -> SUBSET OfflineRow]
    /\ cur \in [Conns -> PacketIds \cup {NoPacket}]
    /\ todo \in [Conns -> SUBSET Matches]
    /\ target \in [Conns -> Matches \cup {NoTarget}]
    /\ tconn \in [Conns -> Conns \cup {NoConn}]
    /\ newsubs \in [Conns -> SubRequests \cup {NoRequest}]

TypeTransport ==
    /\ net \in [Conns -> {"up", "mute", "dead", "closed"}]
    /\ wire \in [Conns -> Seq(Packets)]
    /\ acks \in [Conns -> SUBSET PacketIds]

TypeHistory ==
    /\ published \in [PacketIds -> Nat]
    /\ pubacked \subseteq PacketIds
    /\ queued \subseteq PacketIds \X ClientIds
    /\ ackSeen \subseteq PacketIds \X ClientIds

\* Every variable has the shape its comment gives it.
TypeOK == TypeStores /\ TypeHandlers /\ TypeTransport /\ TypeHistory

\* The claims with which some connection may become a session of client c.
ClaimsOf(c) ==
    {p.token.claims : p \in {q \in UNION {ConnectOf[k] : k \in Conns} :
                                Accepts(q) /\ RequestedId(q) = c}}

DeviceOnly(c) == \A cl \in ClaimsOf(c) : cl.role = "device"

DeviceClients == {c \in ClientIds : DeviceOnly(c)}

\* The ids of the PUBLISH packets on the wire to a connection's client.
OnWire(k) == {wire[k][i].id : i \in {j \in 1..Len(wire[k]) : wire[k][j].type = "PUBLISH"}}

\* A client that only ever connects with device tokens is never sent anything but
\* commands addressed to it: not through a stale copy of a session (router.go:46),
\* not through the replay of queued rows (server.go:275), not after a restart. An id
\* with a wildcard level makes its command topic a filter, and what it matches is the
\* most the device is sent (acl/service.go:47, helpers.go:40).
DeviceIsolation ==
    \A k \in Conns : client[k] \in DeviceClients =>
        \A id \in OnWire(k) :
            /\ MatchTopic(CommandTopic(client[k]), TopicOf[id])
            /\ ~HasLevel(client[k], "+") /\ ~HasLevel(client[k], "#")
                 => TopicOf[id] = CommandTopic(client[k])

\* Commands come from operators: a device that receives a packet receives one that
\* a client with an admin token has published (acl/service.go:31). Its id has no level
\* "#": device/#/command would match what devices may publish.
DevicesObeyAdmins ==
    \A k \in Conns : client[k] \in DeviceClients /\ ~HasLevel(client[k], "#") =>
        \A id \in OnWire(k) :
            \E cl \in ClaimsOf(messages[id].publisher) : cl.role = "admin"

\* Whoever is subscribed has a session, so the router never skips a match for want
\* of one (router.go:47), whatever connections of the client come and go.
SubscribedHasSession ==
    \A c \in ClientIds : byClient[c] # NoSubs => sessions[c].present

\* A client that has no session yet is sent nothing before CONNACK, although its new
\* session is visible to every router before CONNACK is sent (server.go:177-188) and
\* routers may still be at work on what they matched before.
NewClientConnAckFirst ==
    \A k \in Conns : pc[k] = "connack" /\ ~present[k] => wire[k] = <<>>

\* The registry and the session store hold the same filters for a client whenever
\* none of its connections is between the two updates of handleSubscribe
\* (server.go:213-214), even if several of its connections subscribe at once.
SubscriptionsAgree ==
    \A c \in ClientIds :
        (\A k \in Conns : client[k] = c => pc[k] # "subscribe") =>
            \A f \in Filters : byClient[c][f] = Unsubscribed
                                   <=> sessions[c].subs[f] = Unsubscribed

\* A packet is stored before it goes anywhere: whatever is on a wire, in the offline
\* queue or acknowledged to its publisher has a row in messages (server.go:246),
\* although rows, wires and handlers are lost and recovered independently.
StoredBeforeRouted ==
    /\ \A k \in Conns : \A id \in OnWire(k) : messages[id] # NoRow
    /\ \A r \in offline : messages[r.id] # NoRow
    /\ \A id \in pubacked : messages[id] # NoRow

\* A packet whose Enqueue succeeded stays queued until somebody acknowledges it:
\* replaying it, losing the connection or restarting the broker does not remove it
\* (docs/qtt-spec.md:106).
QueuedUntilPubAck ==
    \A q \in queued :
        (\E r \in offline : r.id = q[1]) \/ (\E c \in ClientIds : <<q[1], c>> \in ackSeen)

\* A stored message is never taken over or reopened: a retry of the same packet
\* leaves the publisher and a recorded acknowledgement as they are (store.go:197).
MessagesOnlyAdvance ==
    [][\A id \in PacketIds : messages[id] # NoRow =>
          /\ messages'[id].publisher = messages[id].publisher
          /\ messages[id].state = "acked" => messages'[id].state = "acked"]_vars

\* A session refers to a connection exactly when it is online, and that connection
\* was authenticated for this client: the router never writes to somebody else's.
SessionOwnsConn ==
    \A c \in ClientIds :
        /\ sessions[c].online <=> sessions[c].conn # NoConn
        /\ sessions[c].conn # NoConn => client[sessions[c].conn] = c

\* Routing comes to an end: a handler that starts to route a packet serves its
\* client again, whatever the targets of the packet do (router.go:45-79).
RoutingEnds ==
    \A k \in Conns : pc[k] = "match" ~> pc[k] \in {"loop", "done"}

\* A connection whose client vanished is closed and its handler ends (quic/server.go:156),
\* also when it vanished during authentication, replay or routing.
DeadIsReaped ==
    \A k \in Conns : net[k] = "dead" ~> net[k] = "closed" /\ pc[k] = "done"

(***************************************************************************)
(* The inductive invariant: what ties the handlers' local copies to the    *)
(* shared state.  Its parts are proved in BrokerProofs.                    *)
(***************************************************************************)

\* A handler has what its position in the code needs.
HandlerHolds ==
    \A k \in Conns :
        /\ pc[k] = "idle" => client[k] = NoId
        /\ pc[k] \notin {"idle", "done"} => client[k] \in ClientIds
        /\ pc[k] \in {"match", "route", "send", "queue", "ack"} => cur[k] \in PacketIds
        /\ pc[k] \in {"send", "queue"} => target[k] \in Matches
        /\ pc[k] = "send" => tconn[k] \in Conns
        /\ pc[k] = "subscribe" => newsubs[k] \in SubRequests

(***************************************************************************)
(* The broker implements the Ledger.                                       *)
(***************************************************************************)
Accepted == {id \in PacketIds : messages[id] # NoRow}

\* What a client has been sent and has neither lost nor acknowledged.
Copies == UNION {OnWire(k) \cup acks[k] : k \in Conns}

L == INSTANCE Ledger WITH
         accepted <- Accepted,
         copies <- Copies,
         told <- pubacked,
         waiting <- {r.id : r \in offline},
         seen <- {q[1] : q \in ackSeen}

\* With all its connections, takeovers, failing statements and restarts the broker
\* keeps the promise of module Ledger: a packet is accepted once and for all before a
\* copy leaves, its publisher is told or it is queued (server.go:246-266), and its row
\* goes only after a client acknowledged a copy it was sent (server.go:134-142).
ImplementsLedger == L!Spec

(***************************************************************************)
(* What the documents and comments of the repository say and the broker    *)
(* does not do.  Each is checked by a run of its own that must violate it. *)
(***************************************************************************)

\* "QoS 1 packets are persisted for offline delivery until acknowledged." (README.md:162):
\* each subscriber Enqueue succeeded for has a row, until it acknowledges the packet.
EachOfflineSubscriberQueued ==
    \A q \in queued :
        (\E r \in offline : r.id = q[1] /\ r.client = q[2]) \/ q \in ackSeen

\* "Current number of online client sessions." (internal/metrics/metrics.go:76): a
\* client whose handler is serving it has an online session.
ConnectedIsOnline ==
    \A k \in Conns : pc[k] = "loop" => sessions[client[k]].online

\* "expected CONNACK, got %s" (pkg/qtt/client/client.go:97): the client counts on
\* CONNACK being the first packet, so nothing is on the wire before it.
ConnAckFirst ==
    \A k \in Conns : pc[k] = "connack" => wire[k] = <<>>
=============================================================================
