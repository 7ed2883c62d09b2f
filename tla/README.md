# CrabMQ: a TLA+ model of the broker and its clients

CrabMQ is an MQTT-like message broker over QUIC ("QTT", JSON packets). This
directory models its Go code in TLA+: TLC checks small instances, TLAPS proves
the main safety properties for every instance. Paths below are relative to the
repository.

## 1. Inventory

| Part | State | Operations | Interacts with |
|---|---|---|---|
| broker server (`internal/broker/server`) | one goroutine per connection | authenticate, deliverOffline, the packet loop, handleSubscribe, handlePublish, deferred Disconnect and Close | every store, the router, the transport |
| router (`internal/broker/router`) | none of its own | Route: Match, then Get / Send / Enqueue per match | session store, registry, queue, other clients' connections |
| session store (`internal/broker/session`) | map client id -> session, one RWMutex | UpsertConnected, AddSubscriptions, Touch, Disconnect, Get, OnlineCount | server, router |
| subscription registry (`internal/broker/subscription`) | map client id -> subscriptions, another RWMutex | Add, Match, List (no caller) | server, router |
| offline queue (`internal/queue/persistent`, `api/db/store.go`) | table `offline_messages` | Enqueue, Pending, Ack | server, router |
| messages (`api/db/store.go`) | table `messages` | SaveMessage, MarkMessageAcknowledged, queries | server, API |
| topics (`pkg/qtt/utils`) | - | MatchTopic | registry |
| tokens and ACL (`internal/auth`) | - | issue, Parse, CanPublish, CanSubscribe | server, API |
| rate limiter (`internal/broker/server/limiter.go`) | map client id -> window | Allow | server |
| transport (`internal/transport/quic`, `internal/protocol`) | stream, JSON encoder and decoder, deadlines | Send, Receive, Close | server, router |
| QTT client (`pkg/qtt/client`) | stream, encoder, decoder | Dial, Connect, Subscribe, Publish, SendPubAck, ReadPacket, Close | bridge, simulator, CLI |
| API bridge (`api/services/bridge.go`) | `b.client` under an RWMutex | Start, consume, PublishCommand, setClient, clearClient | client, hub, HTTP handlers |
| WebSocket hub (`api/services/hub.go`) | set of sockets, RWMutex | ServeWS, Broadcast | bridge, dashboards |
| HTTP API, device service (`api/handlers`, `api/services/devices.go`) | table `devices` | sendCommand, registerDevice, issueToken, queries | bridge, database |
| simulator, CLI (`cmd/crabmq-sim`, `cmd/crabmq-cli`) | reconnect loop, a reader per connection | ensureToken, runDevice, runTelemetryLoop, readCommands, runSubscribe | client, API, broker |
| daemon (`cmd/crabmqd`) | goroutines that report on a channel, the signal context | main, runBroker, runAPI, runAll | everything it starts |
| metrics (`internal/metrics`) | counters and gauges | Inc, Dec, Set | server, router |
| configuration, in-memory queue, Rust parser/CLI, legacy Rust scaffold | - | - | not modelled, see section 8 |

What is hard to test here: two connections of the same client at once; a session
copied under a lock and used after it; a PUBLISH that overtakes CONNACK or SUBACK;
partial failure of a fan-out; a crash between two SQL statements; PUBACKs lost to
the rate limiter; an encoder that keeps its first error; a lock held during network
writes; a wall clock that is set back; a failure and a signal that race in nested
selects; a token that expires during a reconnect. `PROJECT.json` lists these hazards at their
lines, with the properties that would catch each going wrong.

## 2. Modules

| Module | Models | Kind |
|---|---|---|
| `Topics` | `MatchTopic` and `TopicOwner` over sequences of levels | operators |
| `Auth` | tokens, ACL, identity of a CONNECT; an id is the sequence of its levels, since the ACL puts it into a topic unchecked | operators |
| `Qtt` | constants shared by the stores, subscription maps | operators |
| `SessionStore`, `SubscriptionRegistry`, `MessageStore` | the two in-memory maps, the two tables; one operator per operation | components |
| `Broker` | extends the three stores with the handlers, the router, the transport, clients and restarts | state machine |
| `Ledger` | what the broker promises about a packet, without connections, sessions or handlers | abstract specification |
| `CommandFate` | what the command endpoint promises about a command, without the bridge or its clients | abstract specification |
| `RateLimiter` | `limiter.go` with its wall clock | state machine |
| `Subscriber` | one reconnecting subscriber (bridge or simulator) against its handlers, the router, the queue and the queue's other users | state machine |
| `Commands` | command requests against the bridge's loop and `b.client` | state machine |
| `Hub` | the hub, its RWMutex and peers | state machine |
| `Daemon` | `crabmqd`: main and its goroutines, signals, crashes, restarts | component |
| `Device` | a simulated device: registration, token, connection, telemetry loop, reader | component |
| `Fleet` | `Daemon` and `Device` together | state machine |
| `MCTopics`, `MCBroker`, `MCRateLimiter` | values for the constants; `MCTopics` enumerates filters and topics | TLC |
| `BrokerProofs` | what each store operation does; types, sessions, subscriptions and CONNACK in `Broker` | proofs |
| `BrokerMessageProofs` | where a packet of `Broker` can be: tables, wires, queue, access; the refinement of `Ledger` | proofs |
| `TopicsProofs`, `RateLimiterProofs`, `SubscriberProofs`, `HubProofs`, `CommandsProofs`, `FleetProofs` | theorems about the module each is named after (`TopicsProofs`: about `MCTopics`) | proofs |

### How `Broker` corresponds to the code

A connection `k` has a program counter `pc[k]`; its labels are the points of
`handleConnection` between two operations on shared state. One step is one store
operation under its mutex, one SQL statement or one `Send`.

| Label | Where the handler is | Actions |
|---|---|---|
| `idle` | waiting for CONNECT | `Authenticate`, `AuthFail` |
| `connack` | session upserted, CONNACK not sent | `ConnAck`, `ConnAckFail` |
| `pending`, `replay` | deliverOffline | `Pending`, `Replay`, `ReplayFail` |
| `loop` | `Receive` | `Subscribe`, `Publish`, `PubAck`, `RateLimitPubAck`, `ReplyFail`, `Leave` |
| `subscribe` | registry told, session store not yet | `SubscribeSession` |
| `match`, `route`, `send`, `queue` | Route | `RouteMatch`, `RouteNext`, `RouteSend`, `RouteSendFail`, `RouteQueue`, `RouteQueueFail`, `PublishDone` |
| `ack` | between the two statements of a PUBACK | `AckQueue` |
| `closing`, `done` | deferred calls, end | `Close` |

Abstractions: a PUBLISH packet is its id (`TopicOf` and `QosOf` give the rest; ids
are UUIDs, so the same id again is a retry). Payloads, timestamps and replies
nobody reacts to (SUBACK, PONG, ERROR) are left out, except that sending a reply
may time out (`ReplyFail`). `available_at` is the insertion order. Go's map order
is a free choice of the next match. Every SQL statement may fail where the code
handles the error. `net[k]` is the transport: `up`; `mute`, after a write timed out
and `json.Encoder` keeps the error; `dead`, the client is gone and the broker does
not know, so a `Send` may still return nil; `closed`. `Restart` empties what lives
in memory and keeps the tables. The variables `pubacked`, `queued` and `ackSeen` are
history and guard nothing.

`Subscriber` repeats the server's steps as one subscriber sees them, with SUBACK and
both directions of the wire, because there the order CONNACK, replay, SUBACK is the
subject. Connections are slots that are used again once nobody refers to them, so
the reconnect loop is unbounded. The table of queued packets is shared: `rows` are this
subscriber's, `elsewhere` are packets whose one row is another client's, and the PUBACK
of any client deletes a row whoever it is for. Statements fail, the limiter turns packets
away and publishers retry, `MaxFaults` times in all. `Commands` keeps the pointer, the
requests, the writes, and where the bridge is: dialling, waiting for SUBACK, reading, in
Broadcast, or acknowledging. What the broker would send in place of SUBACK is abstracted to
`backlog`: while something is queued for the bridge it does not get past SUBACK. In `Hub`
the write lock is held for one map operation only, so acquiring it, the operation and
Unlock are one step; the read lock is held across writes.

### `Daemon`, `Device` and `Fleet`

`ret[g]` is what a goroutine of `crabmqd` has returned: the accept loop (`listen`), the
bridge, the HTTP server (`serve`) and `runAPI`, which itself waits for the other two.
`errCh` has room for both of its senders, so a report never waits. `Fails` is a port
that is taken, an Accept that fails or an admin token that cannot be issued; `Stops`
is the return after the context is done; `MetricsFails` is only logged. `Exit` ends
every goroutine. The supervisor is the `restart: unless-stopped` of
`docker-compose.yml`.

`dpc` is where `runDevice` is. `Register` and `IssueToken` are HTTP requests with
their handlers and SQL statements; a request that fails may have written its row.
`reader[k]` is the goroutine that reads commands on connection `k` and outlives the
loop that started it by its last error. A token is fresh or expired; it is checked at
CONNECT only. `Fleet` tells the device which server is up (`apiUp`, `brokerUp`) and
ends all connections with the daemon; the table `devices` survives.

### The abstract specifications and what implements them

`Ledger` has five sets of packets and no processes. `Broker!L` maps them: `accepted`
are the rows of `messages`; `copies` is what is on a wire or was read from one and may
be acknowledged; `told` is `pubacked`; `waiting` the packets with a row in
`offline_messages`; `seen` the packets of `ackSeen`. `ImplementsLedger` says that every step of
every handler, client and restart is one step of the ledger or none: no packet is sent,
confirmed or queued before it was accepted, acceptance is never undone, and a packet is
taken from the queue only after a client acknowledged a copy that was sent. The last clause
is about the clients of the repository, which acknowledge only what they read: the handler
does not check what a PUBACK names (`server.go:134-142`). The run `broker` checks it and
`LedgerImplemented` proves it.

`CommandFate` has a set per answer and per fate of a command. `Commands!F` maps the
answers from `rpc`, `under` from all wires together and `served` from the order of arrival.
`OneFate` says that a request is answered once, that a refused command is never sent, and
that an accepted one is sent once and then served, turned away or lost for good: a command
that leaves one wire must be on no other, and one that was lost cannot arrive later.

## 3. Runs that must pass

| Run (cfg) | Checks | Instance and why it is enough |
|---|---|---|
| `topics` (`MCTopics.cfg`) | `MatchIsDenotation`: MatchTopic against a denotational reference; `DevicesCannotReachDevices`: ACL and matching together; `LabelIsPublisher`: what the bridge shows as a device's telemetry was published by that device | filters and topics of at most 4 levels: a `#` at, before and past the end of the topic, `+` at both ends; a device id, one below it (`d1/d1`), the wildcard `+` and the keyword `command` as ids |
| `broker` (`MCBroker.cfg`) | `DeviceIsolation`, `DevicesObeyAdmins`, `StoredBeforeRouted`, `QueuedUntilPubAck`; `SessionOwnsConn`, `SubscribedHasSession`, `SubscriptionsAgree`: the two stores against each other and the connections; `NewClientConnAckFirst`; `ImplementsLedger` | an operator, two devices, one QoS 1 command; the third connection is a second one of the first device, so that old and new handler overlap in every order, or the first of the second device, or presents another device's token; the second device's id lies below the first's (`d1/x`), so that prefixes matter; devices also try to subscribe and publish where they may not |
| `broker_retry` | `TypeOK`, `MessagesOnlyAdvance`, `RoutingEnds`, `DeadIsReaped` | an operator and a device, packets published twice, fair handlers |
| `limiter` | `WindowsKeepBudget`, `BurstBound`, `RefusedHadBudget` | one client (clients share nothing), limit 2, window 2, time to 8: up to three windows in a row; the clock steps by +1 or -2, and `steady` records whether it was ever set back |
| `subscriber` | `TypeOK`, `RemovedAfterDelivery`, `OneRowPerPacket`, `ComesBack`, `ReadIsDelivered`, `RowsBehindAreDelivered`: the row read in place of SUBACK does not hold up those behind it | the bridge and the simulator (`strict`, chosen initially: does the client insist on SUBACK), two packets, one of which others subscribe to as well, two connections at a time, one fault (a lost connection, a failed statement, a refused packet, a retry or another's row) plus any number of time-outs and of PUBACKs of others |
| `commands` | `TypeOK`, `RefusedNotSent`, `AcceptedIsAccountedFor`, `OneFate`, `CommandsComeBack` | three requests, two clients, two faults: an old client, a new one, and a request holding either; telemetry is queued for the bridge and removed at any time |
| `hub` | `SeesEveryEvent`, `BroadcastReturns`, `BrokenIsRemoved` | two sockets, three events, one stall; sockets and events run out, so deadlock is not checked |
| `fleet` (`MCFleet.cfg`) | `TypeOK`, `ExitCodeTells`, `ProcessEnds`, `DeviceComesBack`, `SimulatorStops`, `ReadersEnd` | each command of `crabmqd` and an unknown one, one device (devices share only the context), two connections so that an old reader and handler overlap with new ones, two faults out of two failures, one loss and one expiry; a stopped container and a stopped simulator may stop, so deadlock is not checked |

Bounds: `MaxPublish` (retries of a packet), `MaxLosses`, `MaxFaults`, `MaxFailures`,
`MaxExpiries`, `MaxStalls`, `MaxEvents`, `MaxTime` stand in the guards. `Conns` bounds the connections a broker
ever accepts. Each action of every next-state relation is taken in some run. The
`topics` run ends when the sequences have their full length.

For each of these properties a definition whose comment starts with "Plausible bug"
stands beside the definition it would replace; with it, TLC finds the property
violated.

### Fairness

Handlers, requests and loops that can go on are scheduled (weak fairness per
goroutine): Go's scheduler is preemptive and every `Send` has a write deadline.
`Broker!FairSpec` demands nothing of a handler that waits for its client
(`idle`, `loop`), except on a `dead` connection, where `Receive` ends with the read
deadline (`quic/server.go:156`) or QUIC's idle timeout. Clients, publishers, the
network, peers and restarts have no fairness. `Subscriber!FairSpec` lets the client's
loop, the handlers and routers go on; a dial succeeds eventually, i.e. the broker is
there. Its packets are finitely many, so a bridge whose every SUBACK is overtaken by yet
another live PUBLISH is left out; faults are finitely many too. `Commands!FairSpec` takes
the same for granted with strong fairness of `SubAck`: a bridge that tries again and again
with nothing queued for it is sent SUBACK first at some time. It also takes for granted that on a connection that can no
longer be written to, telemetry with QoS 1 arrives (the simulator publishes no other)
or nothing does for `ReadTimeout`; with nothing but QoS 0 telemetry, less than 45 s
apart, the bridge would not notice. `CommandsComeBack` also assumes that no dashboard
keeps the bridge in Broadcast for ever (`DashboardsRead`) and that from some time on nothing
is queued for the bridge: while something is, the bridge does not get past SUBACK and every
command is refused (section 4, `bad_pending_delivered`). `RowsBehindAreDelivered`
assumes that the simulator reconnects again and again. `Fleet!FairSpec` schedules the
daemon's goroutines, the device, its readers and the handlers, lets sleeps end and the
supervisor restart; requests are answered or fail, although `http.DefaultClient` has no
timeout of its own; the bridge's return is not promised, as it may be in Broadcast.
`DeviceComesBack` is stated for a daemon that runs both servers and that nobody stops.
`BroadcastReturns` and `BrokenIsRemoved` assume
that no peer stalls for ever (`PeersDrain`): `WriteJSON` has no deadline.

## 4. Where the code and its documents disagree

Each line is a run that checks one statement of the repository and ends with a
counterexample.

| Run | The repository says | The code does |
|---|---|---|
| `bad_each_offline_subscriber_queued` | "QoS 1 packets are persisted for offline delivery until acknowledged." (README.md:162) | the primary key is `packet_id`: a second offline subscriber has no row, and a PUBACK deletes the row of whichever client it is for |
| `bad_connected_is_online` | "Current number of online client sessions." (metrics.go:76) | an old handler's Disconnect takes the new session offline |
| `bad_connack_first` | "expected CONNACK, got %s" (client.go:97) | the session is routable before CONNACK is sent; `NewClientConnAckFirst` is what does hold: a client without a session gets CONNACK first |
| `bad_pending_delivered` | "Pending packets are replayed when the client reconnects" (docs/qtt-spec.md:105) | the bridge takes the replayed packet for a bad SUBACK and reconnects for ever; `ComesBack` is what does hold: with nothing queued it gets through |

Behaviours of the model that no run states: a failed CONNACK leaves an online session
on a closed connection; `sessionPresent` says that a session existed, not that
subscriptions were restored; subscriptions live in memory and end with a restart;
the simulator discards the first packet after SUBSCRIBE, whatever it is; the daemon ends
without waiting for its handlers, which `Broker` has as a restart; a packet
sent to a connection that is then lost is queued nowhere.

## 5. What is proved

TLAPS checks these for every value of the constants that satisfies the assumptions.

| Theorem | Statement |
|---|---|
| `BrokerProofs!TypeCorrect` | `Spec => []TypeOK` |
| `BrokerProofs!SessionOwnsConnAlways`, `SubscribedHasSessionAlways`, `SubscriptionsAgreeAlways`, `NewClientConnAckFirstAlways` | `Spec => []P` for the property each is named after |
| `BrokerMessageProofs!StoredBeforeRoutedAlways`, `QueuedUntilPubAckAlways`, `DeviceIsolationAlways`, `DevicesObeyAdminsAlways` | invariants, likewise |
| `BrokerMessageProofs!MessagesOnlyAdvanceAlways` | an action property |
| `BrokerMessageProofs!LedgerImplemented` | `Spec => ImplementsLedger`, a refinement |
| `TopicsProofs!MatchIsDenotationAlways`, `DevicesCannotReachDevicesAlways`, `LabelIsPublisherAlways` | `Spec => []P`, for filters and topics of every length and every set of ids |
| `RateLimiterProofs!LimiterCorrect` | `Spec => [](TypeOK /\ WindowsKeepBudget)` |
| `RateLimiterProofs!BurstBoundAlways`, `RefusedHadBudgetAlways` | invariants, for every limit and window length |
| `SubscriberProofs!SubscriberTypes`, `RemovedAfterDeliveryAlways`, `OneRowPerPacketAlways` | invariants |
| `SubscriberProofs!ReadIsDeliveredAlways` | an action property |
| `HubProofs!HubCorrect` | `Spec => [](TypeOK /\ SeesEveryEvent)` |
| `CommandsProofs!CommandsTypeCorrect`, `RefusedNotSentAlways`, `AcceptedIsAccountedForAlways` | invariants |
| `CommandsProofs!OneFateAlways` | `Spec => OneFate`, a refinement |
| `FleetProofs!FleetTypeCorrect`, `ExitCodeTellsAlways` | invariants |

Assumptions: `QttAssumption` (the null values are none of the real ones, topics are
non-empty sequences of strings, QoS is 0 or 1); `BrokerAssumption` (CONNECT packets,
requests and publications are built from the declared sets); `IdLevels` and
`TopicsAssumption` (ids are sequences of strings); `SubscriberAssumption`
(a PUBLISH is no other kind of packet, the null connection no connection);
`LimiterAssumption`, `HubAssumption`, `DaemonAssumption`, `DeviceAssumption` (bounds are numbers,
null values none of the real ones). `Commands` needs none.

No assumption restricts what an id is made of, because nothing in the code does. A device's
command topic is also the filter it subscribes with, so an id with a level `+` or `#` gives
its device a pattern. The properties say what remains: `DeviceIsolation` bounds what any
device receives by its own command topic as a pattern, and by that very topic if the id has
no wildcard; `DevicesObeyAdmins` and `DevicesCannotReachDevices` hold with `+` in ids and
leave out by name a receiver with `#` in its id, whose filter may reach other devices'
topics.

The arguments:

- *Types.* `TypeOK` is not inductive: a handler at `send` uses `tconn`, at `queue`
  its target. `HandlerHolds` says that a handler holds what its label needs.
- *Sessions.* `SessionInv == HandlerHasSession /\ SessionOwnsConn /\
  SubscribedHasSession`: a handler past authentication has a session in the store, so
  AddSubscriptions and Add agree on who exists; a connection keeps its client until a
  restart, which empties the store.
- *Stored before routed.* `StoreInv` adds that the packet a handler carries
  (`CurStored`) and the rows it read (`PendStored`) are stored. Rows of `messages`
  never disappear (`StoredKept`), and wires only get what a handler carries.
- *Agreement.* `AgreeInv` splits `SubscriptionsAgree` in two directions:
  what a session has is in the registry (`SessionRegistered`), and what the registry has
  and the session lacks is carried by a handler at `subscribe` (`RegistryExplained`).
  Neither is inductive alone: what such a handler carries is in the registry
  (`RequestRegistered`).
- *CONNACK first.* A connection is `Fresh` when its client had no session at
  authentication and CONNACK is still to be sent. While the session names it, its client
  has no subscription and is in no router's matches (`FreshAlone`), so no other handler
  writes to it (`FreshUntouched`); `SendsToConnected` and `IdleIsEmpty` say that this was
  so before it authenticated.
- *Ledger.* Each action maps to the ledger's step of the same meaning; `StoreInv` gives
  the guards of Emit, Tell and PutAside, `QueueInv` the guard of Remove.
- *Queue.* `QueueInv` adds that a handler about to delete a row has recorded the
  PUBACK (`AckingIsSeen`): that is the only step that deletes.
- *Isolation.* `AccessInv` follows a packet from the registry to the wire: claims were
  accepted for the client (`ClaimsKnown`), so a device-only client is subscribed to its
  command topic only (`SubsAllowed`), matches in flight (`RoutesAllowed`), queued rows
  and rows being replayed (`RowsAllowed`) and wires (`WireAllowed`) carry topics which that
  topic matches as a filter. Without a wildcard level a filter matches itself only
  (`CommandMatch`).
  `SessionOwnsConn` takes it from the target client to the connection written to.
  `DevicesObeyAdmins` adds `AuthorAllowed`: whoever stored a message could publish it,
  and a device cannot publish what ends in `command`, while whatever matches a command
  topic without `#` ends so.
- *Topics.* MatchTopic is not recursive in the model, so matching and denotation are
  compared level by level: a filter without a final `#` matches topics of its own length
  only, one with it those that agree on the levels before. A filter a device may
  subscribe to is its command topic; if `#` does not occur in it, what it matches ends in
  `command`, which a device may not publish. A topic the bridge's filter matches has three
  levels, so a device that may publish it has an id of one level, and that is its label.
- *Limiter.* The map's entry is the last window of the history (`EntryIsLast`).
- *Bursts.* Counting packets needs no induction once each has a place: `admitted` records
  the window of a packet and its position in it. `PacketsInv` says that windows are more
  than a window's length apart (`WindowsApart`), that a packet's place lies within its
  window's count and its instant before the window's end (`PacketsCounted`), that no two
  packets share a place (`PlacesDistinct`), that every counted place is taken
  (`PlacesTaken`), and, while the clock is steady, that no packet came before its window's
  start and nothing lies in the future (`PacketsInTime`). For `BurstBound`, two packets at
  most a window's length apart are in the same window or in adjacent ones (`CloseTogether`),
  so the packets of a span map one to one into two windows times the budget. For
  `RefusedHadBudget`, the places of a full last window map one to one into the packets of
  the last window's length.
- *Subscriber.* `SubscriberInv` follows a packet from the queue to the application and
  back: what the client is about to acknowledge (`AckIsDelivered`) or has acknowledged
  (`UpIsDelivered`) was delivered, so the row its PUBACK deletes, its own or another's, is of
  a delivered packet; every other deletion is recorded in `acked`. `OneRowPerPacket` is what
  makes one deletion take all of a packet's rows. `ReadIsDelivered` then goes through the
  steps that take something off a wire.
- *Hub.* `Registered` ties the map to the goroutines, `Position` says which event a
  socket has while a sweep is under way.
- *Commands.* `OnlyAcceptedSent` says that a command is written only with its 202,
  `WrittenOnce` that it is then in one place: on one wire, at one position, or with the
  broker. Together they make `AcceptedIsAccountedFor` inductive; sequences enter through
  three lemmas on Append, Head and Tail. `WrittenOnce` is also what `OneFate` rests on:
  the wires are disjoint and repeat nothing, so taking a command off one takes it out of
  `under`, and dropping a wire drops exactly what was on it.
- *Exit codes.* `ReturnsTell`: a goroutine that has returned nil did so after the
  signal, one that has returned an error after a failure, and `runAPI` passes on what it
  was told.

`BrokerProofs` begins with the effect of each store operation, so that the later proofs
about `Broker` never expand a nested EXCEPT.

## 6. Only model-checked

Liveness (`RoutingEnds`, `DeadIsReaped`, `ComesBack`, `RowsBehindAreDelivered`,
`BroadcastReturns`, `BrokenIsRemoved`, `CommandsComeBack`, `ProcessEnds`,
`DeviceComesBack`, `SimulatorStops`, `ReadersEnd`) is outside what the prover handles.
Every safety property, action property and refinement that a passing run checks is proved.

The violations of section 4 are found by TLC and have no proof.

## 7. Running it

    tlc -workers 2 -config MCBroker.cfg MCBroker
    tlapm BrokerMessageProofs.tla

The longest runs are `broker` (about 640,000 distinct states), `subscriber` (about 267,000,
with liveness) and `fleet` (about 96,000, with liveness), two to three minutes each.

Each proof module checks from nothing in three to four minutes or less. Leaves that need no
arithmetic cite `Zenon`: the SMT translation of tlapm slows down with every obligation of
a module, and a long module that uses it throughout times out on leaves that are easy
alone.

## 8. Not modelled

- The Rust parser and CLI: field extraction and one-shot commands without shared state.
- The legacy Rust scaffold under `src/`: no member of the Cargo workspace includes it, and the
  Go broker does not use it.
- The in-memory queue: it has no caller.
- Configuration: `MaxClients`, `ConnectTimeout` and `OfflineQueueTTL` are parsed and read
  by nothing; a non-positive simulator interval would make `time.NewTicker` panic.
- TLS set-up, signatures of tokens, the dashboard's own code.
- The read-only endpoints (`ListDevices`, `ListMessages`, `GetMetricsSummary`, raw
  metrics): one query each, and the four counts of the summary are not one snapshot.
- Counters and gauges: the broker writes and never reads them. `ActiveSessions` is
  counted and set in two steps, `OfflineQueue` is decremented for every PUBACK; neither
  claims more than the session store and the queue, about which properties are stated.
- `GetTelemetry`, a query too. Its LIKE pattern works on the characters of a device id, of
  which the model keeps the levels only: `%` and `_` in an id are wildcards there, and the
  topics of an id that continues another's after a slash lie in the other's subtree.
