----------------------------- MODULE Subscriber -----------------------------
(***************************************************************************)
(* A persistent QoS 1 subscriber and its broker: the reconnect loop of the *)
(* API's bridge (api/services/bridge.go) or of the simulator               *)
(* (cmd/crabmq-sim) over the QTT client (pkg/qtt/client), against the      *)
(* handler of each of its connections, the router and the offline queue,   *)
(* seen from this one subscriber.  The CLI's subscribe command is one turn *)
(* of the simulator's loop, repeated by whoever runs it.                   *)
(*                                                                         *)
(* The bridge is strict: the packet after SUBSCRIBE must be SUBACK.  The   *)
(* simulator takes whatever comes.  A failed dial is a stuttering step:    *)
(* the loop sleeps and tries again.  Replies to packets the subscriber     *)
(* itself publishes are left out, consume ignores them.                    *)
(*                                                                         *)
(* The table of queued packets is not this subscriber's alone: its key is  *)
(* the packet id, whoever the row is for.  Other subscribers of the same   *)
(* topics take part through the rows they have and the PUBACKs they send.  *)
(***************************************************************************)
EXTENDS Integers, Sequences, Functions

CONSTANTS
    Msgs,       \* QoS 1 packets others publish to a topic it subscribes to
    Shared,     \* those of them that others subscribe to as well
    Slots,      \* connections that may exist at the same time
    NoSlot,     \* no connection
    MaxFaults   \* bound: connections lost, statements failed, packets turned away by
                \* the rate limiter and packets published again

ASSUME SubscriberAssumption ==
    /\ Msgs \cap {"CONNECT", "SUBSCRIBE", "CONNACK", "SUBACK", "ERROR"} = {}
    /\ Shared \subseteq Msgs
    /\ NoSlot \notin Slots

VARIABLES
    strict,     \* which client it is: does it insist on SUBACK?
    cpc,        \* the client: "idle" (not connected), "connack", "suback" (waiting
                \* for that packet), "consume", "ack" (about to send PUBACK)
    cs,         \* its connection
    got,        \* "ack": the packet to acknowledge
    net,        \* a connection: "free", "open", "gone" (either side may not know)
    up, down,   \* packets on their way to the broker, to the client
    hpc,        \* the connection's handler
    pend,       \* deliverOffline: packets read from the queue and not yet sent
    registered, \* is the subscription in the registry?
    session,    \* the connection the client's session is online on, or NoSlot
    rows,       \* offline_messages of this client, oldest first
    elsewhere,  \* packets whose row in offline_messages is another client's
    acked,      \* history: packets whose row another client's PUBACK deleted
    job,        \* routing of a packet: "new", "send" to a connection, "queue", "done"
    jobConn,    \* "send": the connection
    faults,     \* faults so far
    delivered,  \* history: packets the application was given
    queued      \* history: packets for which Enqueue reported success

clientVars == <<strict, cpc, cs, got>>
wires == <<net, up, down>>
handlerVars == <<hpc, pend>>
othersVars == <<elsewhere, acked>>
brokerVars == <<registered, session, rows, othersVars>>
routeVars == <<job, jobConn>>
history == <<delivered, queued>>
vars == <<clientVars, wires, handlerVars, brokerVars, routeVars, faults, history>>

Init ==
    /\ strict \in BOOLEAN
    /\ cpc = "idle" /\ cs = NoSlot /\ got = NoSlot
    /\ net = [s \in Slots |-> "free"]
    /\ up = [s \in Slots |-> <<>>] /\ down = [s \in Slots |-> <<>>]
    /\ hpc = [s \in Slots |-> "none"] /\ pend = [s \in Slots |-> <<>>]
    /\ registered = FALSE /\ session = NoSlot /\ rows = <<>>
    /\ elsewhere = {} /\ acked = {}
    /\ job = [m \in Msgs |-> "new"] /\ jobConn = [m \in Msgs |-> NoSlot]
    /\ faults = 0
    /\ delivered = {} /\ queued = {}

-----------------------------------------------------------------------------
(***************************************************************************)
(* The client                                                              *)
(***************************************************************************)

\* A connection object nobody refers to: slots stand for distinct connections.
Fresh(s) ==
    /\ net[s] = "free" /\ session # s
    /\ \A m \in Msgs : jobConn[m] # s

\* Dial succeeds and Connect sends CONNECT.
Dial ==
    /\ cpc = "idle"
    /\ \E s \in Slots :
          /\ Fresh(s)
          /\ cs' = s
          /\ net' = [net EXCEPT ![s] = "open"]
          /\ up' = [up EXCEPT ![s] = <<"CONNECT">>]
          /\ hpc' = [hpc EXCEPT ![s] = "auth"]
    /\ cpc' = "connack"
    /\ UNCHANGED <<strict, got, down, pend, brokerVars, routeVars, faults, history>>

CanRead == cs # NoSlot /\ net[cs] = "open" /\ down[cs] # <<>>

\* The connection ends, what is on its way is lost.
Gone(s) ==
    /\ net' = [net EXCEPT ![s] = "gone"]
    /\ up' = [up EXCEPT ![s] = <<>>]
    /\ down' = [down EXCEPT ![s] = <<>>]

\* Plausible bug: the connection is kept and the packet left for the next read.
KeepWaiting == UNCHANGED <<clientVars, wires>>

\* client.Close, sleep, and back to the top of the loop.
Retry ==
    /\ Gone(cs)
    /\ cpc' = "idle" /\ cs' = NoSlot /\ got' = NoSlot
    /\ UNCHANGED strict

\* The packet read while waiting for CONNACK or SUBACK is the wrong one.
Unexpected ==
    /\ CanRead
    /\ \/ cpc = "connack" /\ Head(down[cs]) # "CONNACK"
       \/ cpc = "suback" /\ strict /\ Head(down[cs]) # "SUBACK"
    /\ Retry
    /\ UNCHANGED <<handlerVars, brokerVars, routeVars, faults, history>>

\* Reads a packet, sends another one or none, and goes to a label.
ReadAndSend(reply, label) ==
    /\ down' = [down EXCEPT ![cs] = Tail(@)]
    /\ up' = [up EXCEPT ![cs] = @ \o reply]
    /\ cpc' = label
    /\ UNCHANGED <<strict, cs, net, handlerVars, brokerVars, routeVars, faults>>

ReadConnAck ==
    /\ cpc = "connack" /\ CanRead /\ Head(down[cs]) = "CONNACK"
    /\ ReadAndSend(<<"SUBSCRIBE">>, "suback")
    /\ UNCHANGED <<got, history>>

\* Plausible bug: the packet taken for SUBACK is acknowledged.
ReadSubAckAcks ==
    /\ cpc = "suback" /\ CanRead /\ (strict => Head(down[cs]) = "SUBACK")
    /\ ReadAndSend(IF Head(down[cs]) \in Msgs THEN <<Head(down[cs])>> ELSE <<>>, "consume")
    /\ UNCHANGED <<got, history>>

\* Plausible bug: the bridge does not look at the packet either.
ReadSubAckAny ==
    /\ cpc = "suback" /\ CanRead
    /\ ReadAndSend(<<>>, "consume")
    /\ UNCHANGED <<got, history>>

\* The simulator and the CLI do not look at the packet they read here.
ReadSubAck ==
    /\ cpc = "suback" /\ CanRead /\ (strict => Head(down[cs]) = "SUBACK")
    /\ ReadAndSend(<<>>, "consume")
    /\ UNCHANGED <<got, history>>

\* Plausible bug: every packet is acknowledged, not only a PUBLISH.
ConsumeAcksAll ==
    /\ cpc = "consume" /\ CanRead
    /\ ReadAndSend(<<>>, "ack")
    /\ got' = Head(down[cs])
    /\ delivered' = delivered \cup ({Head(down[cs])} \cap Msgs)
    /\ UNCHANGED queued

\* A PUBLISH is given to the application; a SUBACK is ignored.
Consume ==
    /\ cpc = "consume" /\ CanRead
    /\ LET p == Head(down[cs])
       IN  /\ ReadAndSend(<<>>, IF p \in Msgs THEN "ack" ELSE "consume")
           /\ got' = IF p \in Msgs THEN p ELSE NoSlot
           /\ delivered' = delivered \cup ({p} \cap Msgs)
    /\ UNCHANGED queued

SendPubAck ==
    /\ cpc = "ack" /\ net[cs] = "open"
    /\ up' = [up EXCEPT ![cs] = Append(@, got)]
    /\ cpc' = "consume" /\ got' = NoSlot
    /\ UNCHANGED <<strict, cs, net, down, handlerVars, brokerVars, routeVars, faults, history>>

\* A read or a write fails because the connection is gone.
Broken ==
    /\ cpc # "idle" /\ net[cs] # "open"
    /\ cpc' = "idle" /\ cs' = NoSlot /\ got' = NoSlot
    /\ UNCHANGED <<strict, wires, handlerVars, brokerVars, routeVars, faults, history>>

ClientStep == Dial \/ Unexpected \/ ReadConnAck \/ ReadSubAck \/ Consume \/ SendPubAck \/ Broken

(***************************************************************************)
(* The network                                                             *)
(***************************************************************************)
Fault == faults < MaxFaults /\ faults' = faults + 1

Lose ==
    /\ Fault
    /\ \E s \in Slots : net[s] = "open" /\ Gone(s)
    /\ UNCHANGED <<clientVars, handlerVars, brokerVars, routeVars, history>>

\* Nothing to read for ReadTimeout while consuming: no client of the repository pings.
Silence ==
    /\ cpc = "consume" /\ net[cs] = "open"
    /\ up[cs] = <<>> /\ down[cs] = <<>> /\ hpc[cs] = "loop"
    /\ Gone(cs)
    /\ UNCHANGED <<clientVars, handlerVars, brokerVars, routeVars, faults, history>>

-----------------------------------------------------------------------------
(***************************************************************************)
(* The handler of a connection (internal/broker/server)                    *)
(***************************************************************************)

\* Send returned nil. On a connection that is gone the packet vanishes.
Sent(s, p) ==
    /\ net[s] # "free"
    /\ down' = IF net[s] = "open" THEN [down EXCEPT ![s] = Append(@, p)] ELSE down

HandlerAt(s, from, to) == hpc[s] = from /\ hpc' = [hpc EXCEPT ![s] = to]

HAuthenticate(s) ==
    /\ HandlerAt(s, "auth", "connack")
    /\ net[s] = "open"
    /\ up' = [up EXCEPT ![s] = Tail(@)]
    /\ session' = s
    /\ UNCHANGED <<clientVars, net, down, pend, registered, rows, othersVars, routeVars, faults, history>>

HConnAck(s) ==
    /\ HandlerAt(s, "connack", "pending")
    /\ Sent(s, "CONNACK")
    /\ UNCHANGED <<clientVars, net, up, pend, brokerVars, routeVars, faults, history>>

\* Before the handler is in its loop, a connection that is gone ends it without
\* sessions.Disconnect.
HAuthFail(s) ==
    /\ hpc[s] \in {"auth", "connack"} /\ net[s] = "gone"
    /\ hpc' = [hpc EXCEPT ![s] = "none"]
    /\ net' = [net EXCEPT ![s] = "free"]
    /\ UNCHANGED <<clientVars, up, down, pend, brokerVars, routeVars, faults, history>>

\* Plausible bug: only the oldest row is read.
HPendingOldest(s) ==
    /\ HandlerAt(s, "pending", "replay")
    /\ pend' = [pend EXCEPT ![s] = IF rows = <<>> THEN <<>> ELSE <<Head(rows)>>]
    /\ UNCHANGED <<clientVars, wires, brokerVars, routeVars, faults, history>>

HPending(s) ==
    /\ HandlerAt(s, "pending", "replay")
    /\ pend' = [pend EXCEPT ![s] = rows]
    /\ UNCHANGED <<clientVars, wires, brokerVars, routeVars, faults, history>>

\* The query fails: the handler enters its loop with nothing replayed.
HPendingFails(s) ==
    /\ HandlerAt(s, "pending", "loop")
    /\ Fault
    /\ UNCHANGED <<clientVars, wires, pend, brokerVars, routeVars, history>>

HReplay(s) ==
    /\ hpc[s] = "replay" /\ pend[s] # <<>>
    /\ Sent(s, Head(pend[s]))
    /\ pend' = [pend EXCEPT ![s] = Tail(@)]
    /\ UNCHANGED <<clientVars, net, up, hpc, brokerVars, routeVars, faults, history>>

\* All rows are sent, or a Send failed.
HReplayed(s) ==
    /\ pend[s] = <<>> \/ net[s] = "gone"
    /\ HandlerAt(s, "replay", "loop")
    /\ pend' = [pend EXCEPT ![s] = <<>>]
    /\ UNCHANGED <<clientVars, wires, brokerVars, routeVars, faults, history>>

CanReceive(s) == hpc[s] = "loop" /\ net[s] = "open" /\ up[s] # <<>>

\* The registry is told first, SUBACK is sent afterwards.
HSubscribe(s) ==
    /\ CanReceive(s) /\ Head(up[s]) = "SUBSCRIBE"
    /\ HandlerAt(s, "loop", "suback")
    /\ registered' = TRUE
    /\ up' = [up EXCEPT ![s] = Tail(@)]
    /\ UNCHANGED <<clientVars, net, down, pend, session, rows, othersVars, routeVars, faults, history>>

HSubAck(s) ==
    /\ HandlerAt(s, "suback", "loop")
    /\ Sent(s, "SUBACK")
    /\ UNCHANGED <<clientVars, net, up, pend, brokerVars, routeVars, faults, history>>

\* DELETE ... WHERE packet_id = m: the row may be this client's, another's or nobody's.
DeleteRow(m) ==
    /\ elsewhere' = elsewhere \ {m}
    /\ \/ m \notin Range(rows) /\ UNCHANGED rows
       \/ \E i \in DOMAIN rows :
             /\ rows[i] = m
             /\ rows' = SubSeq(rows, 1, i - 1) \o SubSeq(rows, i + 1, Len(rows))

HPubAck(s) ==
    /\ CanReceive(s) /\ Head(up[s]) \in Msgs
    /\ DeleteRow(Head(up[s]))
    /\ up' = [up EXCEPT ![s] = Tail(@)]
    /\ UNCHANGED <<clientVars, net, down, handlerVars, registered, session, acked,
                   routeVars, faults, history>>

\* The statement fails, which is only logged.
HPubAckFails(s) ==
    /\ CanReceive(s) /\ Head(up[s]) \in Msgs
    /\ Fault
    /\ up' = [up EXCEPT ![s] = Tail(@)]
    /\ UNCHANGED <<clientVars, net, down, handlerVars, brokerVars, routeVars, history>>

\* The limiter turns a packet away, SUBSCRIBE or PUBACK.
HLimited(s) ==
    /\ CanReceive(s)
    /\ Fault
    /\ up' = [up EXCEPT ![s] = Tail(@)]
    /\ Sent(s, "ERROR")
    /\ UNCHANGED <<clientVars, net, handlerVars, brokerVars, routeVars, history>>

\* Receive fails: sessions.Disconnect by client id, conn.Close.
HLeave(s) ==
    /\ net[s] = "gone"
    /\ HandlerAt(s, "loop", "none")
    /\ session' = NoSlot
    /\ net' = [net EXCEPT ![s] = "free"]
    /\ UNCHANGED <<clientVars, up, down, pend, registered, rows, othersVars, routeVars, faults, history>>

HandlerStep(s) ==
    \/ HAuthenticate(s) \/ HConnAck(s) \/ HAuthFail(s) \/ HPending(s) \/ HReplay(s)
    \/ HReplayed(s) \/ HSubscribe(s) \/ HSubAck(s) \/ HPubAck(s) \/ HLeave(s)
    \/ HPendingFails(s) \/ HPubAckFails(s) \/ HLimited(s)

(***************************************************************************)
(* The router (internal/broker/router), serving a packet of somebody else  *)
(***************************************************************************)

\* The match with this client, if there is one, and its session.
Match(m) ==
    /\ job' = [job EXCEPT ![m] = IF ~registered THEN "done"
                                 ELSE IF session = NoSlot THEN "queue" ELSE "send"]
    /\ jobConn' = [jobConn EXCEPT ![m] = IF registered THEN session ELSE NoSlot]
    /\ UNCHANGED <<clientVars, wires, handlerVars, brokerVars, history>>

Lookup(m) ==
    /\ job[m] = "new"
    /\ Match(m)
    /\ UNCHANGED faults

\* Its publisher saw no PUBACK and publishes it again.
LookupAgain(m) ==
    /\ job[m] = "done"
    /\ Fault
    /\ Match(m)

RouteTo(m, label) ==
    /\ job' = [job EXCEPT ![m] = label]
    /\ jobConn' = [jobConn EXCEPT ![m] = NoSlot]

RouteSend(m) ==
    /\ job[m] = "send"
    /\ Sent(jobConn[m], m)
    /\ RouteTo(m, "done")
    /\ UNCHANGED <<clientVars, net, up, handlerVars, brokerVars, faults, history>>

RouteSendFail(m) ==
    /\ job[m] = "send" /\ net[jobConn[m]] # "open"
    /\ RouteTo(m, "queue")
    /\ UNCHANGED <<clientVars, wires, handlerVars, brokerVars, faults, history>>

\* Plausible bug: a row is inserted whatever there is.
RouteQueueTwice(m) ==
    /\ job[m] = "queue"
    /\ rows' = Append(rows, m)
    /\ queued' = queued \cup {m}
    /\ RouteTo(m, "done")
    /\ UNCHANGED <<clientVars, wires, handlerVars, registered, session, othersVars, faults,
                   delivered>>

\* INSERT ... ON CONFLICT (packet_id) DO NOTHING: a packet has one row, whoever it is for.
RouteQueue(m) ==
    /\ job[m] = "queue"
    /\ rows' = IF m \in Range(rows) \cup elsewhere THEN rows ELSE Append(rows, m)
    /\ queued' = queued \cup {m}
    /\ RouteTo(m, "done")
    /\ UNCHANGED <<clientVars, wires, handlerVars, registered, session, othersVars, faults,
                   delivered>>

\* The INSERT fails.  For a subscriber served earlier that ends the fan-out, which is for
\* this client as if the packet had not been published.
RouteQueueFails(m) ==
    /\ job[m] = "queue"
    /\ Fault
    /\ RouteTo(m, "done")
    /\ UNCHANGED <<clientVars, wires, handlerVars, brokerVars, history>>

RouteStep(m) == RouteSend(m) \/ RouteSendFail(m) \/ RouteQueue(m)

(***************************************************************************)
(* The other subscribers of a shared packet.  It makes no difference here  *)
(* whether the router serves them before this client or after it.          *)
(***************************************************************************)
OtherQueued(m) ==
    /\ job[m] # "new" /\ m \notin Range(rows) \cup elsewhere
    /\ Fault
    /\ elsewhere' = elsewhere \cup {m}
    /\ UNCHANGED <<clientVars, wires, handlerVars, registered, session, rows, acked,
                   routeVars, history>>

\* One of them acknowledges the packet, and its handler deletes the row.  A DELETE that
\* finds no row changes nothing.
OtherPubAck(m) ==
    /\ m \in Range(rows) \cup elsewhere
    /\ acked' = acked \cup {m}
    /\ DeleteRow(m)
    /\ UNCHANGED <<clientVars, wires, handlerVars, registered, session, routeVars, faults,
                   history>>

Next ==
    \/ ClientStep \/ Lose \/ Silence
    \/ \E s \in Slots : HandlerStep(s)
    \/ \E m \in Msgs : Lookup(m) \/ LookupAgain(m) \/ RouteStep(m) \/ RouteQueueFails(m)
    \/ \E m \in Shared : OtherQueued(m) \/ OtherPubAck(m)

Spec == Init /\ [][Next]_vars

\* Goroutines with something to do are scheduled; nobody is obliged to publish, the
\* other subscribers are obliged to nothing and no fault has to happen.
FairSpec ==
    /\ Spec
    /\ WF_vars(ClientStep)
    /\ \A s \in Slots : WF_vars(HandlerStep(s))
    /\ \A m \in Msgs : WF_vars(RouteStep(m))

-----------------------------------------------------------------------------
Packets == Msgs \cup {"CONNACK", "SUBACK", "ERROR"}

\* Every variable has the shape its comment gives it.
TypeOK ==
    /\ strict \in BOOLEAN
    /\ cpc \in {"idle", "connack", "suback", "consume", "ack"}
    /\ cs \in Slots \cup {NoSlot} /\ got \in Msgs \cup {NoSlot}
    /\ net \in [Slots -> {"free", "open", "gone"}]
    /\ up \in [Slots -> Seq(Msgs \cup {"CONNECT", "SUBSCRIBE"})]
    /\ down \in [Slots -> Seq(Packets)]
    /\ hpc \in [Slots -> {"none", "auth", "connack", "pending", "replay", "loop", "suback"}]
    /\ pend \in [Slots -> Seq(Msgs)]
    /\ registered \in BOOLEAN /\ session \in Slots \cup {NoSlot} /\ rows \in Seq(Msgs)
    /\ elsewhere \subseteq Shared /\ acked \subseteq Shared
    /\ job \in [Msgs -> {"new", "send", "queue", "done"}]
    /\ jobConn \in [Msgs -> Slots \cup {NoSlot}]

\* A packet that Enqueue reported as queued has a row, or the application was given it,
\* or another subscriber acknowledged it.  It is not lost by being replayed into a
\* connection that fails, by being taken for a SUBACK, by a row somebody else has under
\* its id or by a PUBACK the limiter turns away (bridge.go:148-163,
\* crabmq-sim/main.go:153-169, store.go:268, 326, server.go:114-141, 275-289).
RemovedAfterDelivery == queued \subseteq Range(rows) \cup elsewhere \cup delivered \cup acked

\* A packet has one row, of this client or of another, although publishers retry and a
\* packet is queued for every subscriber that is away (store.go:264-280): the price is
\* that somebody has none.
OneRowPerPacket ==
    /\ Range(rows) \cap elsewhere = {}
    /\ \A i, j \in DOMAIN rows : rows[i] = rows[j] => i = j

\* The bridge comes back: if from some time on nothing is queued for it, it is
\* consuming again and again, whatever happened to its connections before and
\* although old handlers may take its session offline (bridge.go:44-117).  The
\* simulator comes back whatever is queued for it (crabmq-sim/main.go:58-120).
ComesBack ==
    ~strict \/ <>[](rows = <<>>) => []<>(cpc = "consume")

\* The bridge hands every packet it reads from a connection it keeps to the hub: it
\* takes no replayed packet for the SUBACK it is waiting for (bridge.go:94).
ReadIsDelivered ==
    [][\A m \in Msgs :
          /\ strict /\ cs # NoSlot /\ cs' = cs /\ net'[cs] = "open"
          /\ m \in Range(down[cs]) \ Range(down'[cs])
          => m \in delivered']_vars

\* A simulator that reconnects again and again is given every packet queued for it,
\* unless another subscriber's PUBACK deletes the row first, or the packet becomes the
\* oldest one, which is read in place of SUBACK: if statements fail and PUBACKs are
\* turned away finitely often, what goes wrong with the oldest row does not hold up the
\* rows behind it (server.go:275-289, crabmq-sim/main.go:102).
RowsBehindAreDelivered ==
    ~strict /\ []<>(cpc = "idle") =>
        \A m \in Msgs :
            m \in Range(rows) ~> \/ m \in delivered \cup acked
                                 \/ rows # <<>> /\ Head(rows) = m

(***************************************************************************)
(* What the documents say and the system does not do.  A run of its own    *)
(* violates it.                                                            *)
(***************************************************************************)

\* "Pending packets are replayed when the client reconnects" (docs/qtt-spec.md:105):
\* what is queued for the bridge reaches it if it reconnects again and again.
PendingDelivered ==
    strict /\ []<>(cpc = "idle") => \A m \in Msgs : m \in Range(rows) ~> m \in delivered
=============================================================================
