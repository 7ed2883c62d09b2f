------------------------ MODULE BrokerMessageProofs -------------------------
(***************************************************************************)
(* What the broker promises about packets and the rows it keeps, for every *)
(* value of the constants: what is routed was stored, a queued packet      *)
(* stays queued until it is acknowledged, a stored message is never taken  *)
(* over or reopened, the broker implements the Ledger, and what a client   *)
(* is sent it may receive.                                                 *)
(***************************************************************************)
EXTENDS BrokerProofs

-----------------------------------------------------------------------------
(***************************************************************************)
(* What is on a wire.  A Send adds at most its packet, reading and closing *)
(* add nothing.                                                            *)
(***************************************************************************)
\* A Send that returned nil.
LEMMA WireSend ==
    ASSUME wire \in [Conns -> Seq(Packets)], NEW k \in Conns, NEW p \in Packets, SendOk(k, p)
    PROVE  \A j \in Conns : \A id \in OnWire(j)' :
              id \in OnWire(j) \/ (j = k /\ p.type = "PUBLISH" /\ id = p.id)
<1> SUFFICES ASSUME NEW j \in Conns, NEW id \in OnWire(j)'
             PROVE  id \in OnWire(j) \/ (j = k /\ p.type = "PUBLISH" /\ id = p.id)
  OBVIOUS
<1>1. CASE wire'[j] = wire[j]
  BY <1>1, Zenon DEF OnWire
<1>2. CASE j = k /\ wire'[k] = Append(wire[k], p)
  <2>1. /\ Len(wire'[k]) = Len(wire[k]) + 1 /\ Len(wire[k]) \in Nat
        /\ wire'[k][Len(wire[k]) + 1] = p
        /\ \A i \in 1..Len(wire[k]) : wire'[k][i] = wire[k][i]
    BY <1>2
  <2>2. PICK i \in 1..Len(wire'[k]) : wire'[k][i].type = "PUBLISH" /\ id = wire'[k][i].id
    BY <1>2, Zenon DEF OnWire
  <2>3. CASE i = Len(wire[k]) + 1
    BY <1>2, <2>1, <2>2, <2>3, Zenon
  <2>4. CASE i # Len(wire[k]) + 1
    <3>1. i \in 1..Len(wire[k])
      BY <2>1, <2>4
    <3> QED
      BY <1>2, <2>1, <2>2, <3>1, Zenon DEF OnWire
  <2> QED
    BY <2>3, <2>4, Zenon
<1> QED
  BY <1>1, <1>2, Zenon DEF SendOk

\* A PUBLISH on a wire carries the id of a packet.
LEMMA OnWireType ==
    ASSUME TypeInv PROVE \A k \in Conns : \A id \in OnWire(k) : id \in PacketIds
<1> SUFFICES ASSUME NEW k \in Conns, NEW i \in 1..Len(wire[k]), wire[k][i].type = "PUBLISH"
             PROVE  wire[k][i].id \in PacketIds
  BY Zenon DEF OnWire
<1>1. wire[k][i] \in Packets
  BY DEF TypeInv, TypeOK, TypeTransport
<1> QED
  BY <1>1 DEF Packets, ConnAckPacket

\* Reading a packet leaves the others.
LEMMA WireRead ==
    ASSUME wire \in [Conns -> Seq(Packets)], NEW k \in Conns, wire[k] # <<>>,
           wire' = [wire EXCEPT ![k] = Tail(@)]
    PROVE  \A j \in Conns : OnWire(j)' \subseteq OnWire(j)
<1> SUFFICES ASSUME NEW j \in Conns, NEW id \in OnWire(j)' PROVE id \in OnWire(j)
  OBVIOUS
<1>1. CASE j # k
  BY <1>1, Zenon DEF OnWire
<1>2. CASE j = k
  <2>1. /\ Len(wire'[k]) = Len(wire[k]) - 1 /\ Len(wire[k]) \in Nat
        /\ \A i \in 1..(Len(wire[k]) - 1) : wire'[k][i] = wire[k][i + 1]
    OBVIOUS
  <2>2. PICK i \in 1..Len(wire'[k]) : wire'[k][i].type = "PUBLISH" /\ id = wire'[k][i].id
    BY <1>2, Zenon DEF OnWire
  <2>3. i + 1 \in 1..Len(wire[k])
    BY <2>1
  <2> QED
    BY <1>2, <2>1, <2>2, <2>3 DEF OnWire
<1> QED
  BY <1>1, <1>2, Zenon

\* Closing drops what was not read.
LEMMA WireClose ==
    ASSUME wire \in [Conns -> Seq(Packets)], NEW k \in Conns,
           wire' = [wire EXCEPT ![k] = <<>>]
    PROVE  \A j \in Conns : OnWire(j)' \subseteq OnWire(j)
BY DEF OnWire

(***************************************************************************)
(* Messages are stored before they are routed                              *)
(***************************************************************************)

\* Where a handler carries a packet it has saved.
Carrying == {"match", "route", "send", "queue"}

\* The packet a handler routes is in the table.
CurStored == \A k \in Conns : pc[k] \in Carrying => messages[cur[k]] # NoRow

\* So is every packet a handler has read for replay.
PendStored == \A k \in Conns : \A r \in pend[k] : messages[r.id] # NoRow

StoreInv == CurStored /\ PendStored /\ StoredBeforeRouted

\* Nothing has been published at first.
LEMMA StoreInit == Init => StoreInv
BY DEF Init, NoHandler, StoreInv, CurStored, PendStored, StoredBeforeRouted, Carrying, OnWire

\* A step that leaves the table alone and puts nothing new anywhere.
LEMMA StoreFrame ==
    ASSUME StoreInv, UNCHANGED <<messages, pubacked>>, offline' \subseteq offline,
           \A j \in Conns : pend'[j] \subseteq pend[j],
           \A j \in Conns : OnWire(j)' \subseteq OnWire(j),
           \A j \in Conns : pc'[j] \in Carrying => pc[j] \in Carrying /\ cur'[j] = cur[j]
    PROVE  StoreInv'
BY Zenon DEF StoreInv, CurStored, PendStored, StoredBeforeRouted

\* A step that only adds to the table.
LEMMA StoredKept ==
    ASSUME TypeInv, StoreInv, UNCHANGED <<offline, pend, wire, pubacked>>,
           \A i \in PacketIds : messages[i] # NoRow => messages'[i] # NoRow
    PROVE  PendStored' /\ StoredBeforeRouted'
<1> USE DEF TypeInv, TypeOK
<1>1. \A k \in Conns : \A r \in pend[k] : r.id \in PacketIds
  BY DEF TypeHandlers, OfflineRow
<1>2. \A r \in offline : r.id \in PacketIds
  BY Zenon DEF TypeStores, OfflineRow
<1>3. \A k \in Conns : \A id \in OnWire(k) : id \in PacketIds
  BY OnWireType, Zenon
<1>4. \A id \in pubacked : id \in PacketIds
  BY Zenon DEF TypeHistory
<1>5. \A k \in Conns : OnWire(k)' = OnWire(k)
  BY Zenon DEF OnWire
<1>6. PendStored'
  BY <1>1, Zenon DEF StoreInv, PendStored
<1>7. StoredBeforeRouted'
  BY <1>2, <1>3, <1>4, <1>5, Zenon DEF StoreInv, StoredBeforeRouted
<1> QED
  BY <1>6, <1>7, Zenon

\* Saving, sending, queueing and replaying keep it so.
LEMMA StoreStep == TypeInv /\ StoreInv /\ [Next]_vars => StoreInv'
<1> SUFFICES ASSUME TypeInv, StoreInv, [Next]_vars PROVE StoreInv'
  OBVIOUS
<1> USE QttAssumption DEF TypeInv, TypeOK
<1>1. CASE UNCHANGED vars
  BY <1>1, StoreFrame, Zenon DEF vars, memory, database, identity, routing, transport, history,
      OnWire
<1>2. CASE Restart
  <2>1. \A j \in Conns : OnWire(j)' = {}
    <3>1. \A j \in Conns : wire'[j] = <<>>
      BY <1>2, Zenon DEF Restart, NoHandler
    <3>2. \A j \in Conns : Len(wire'[j]) = 0
      BY <3>1
    <3> QED
      BY <3>2 DEF OnWire
  <2> QED
    BY <1>2, <2>1, Zenon DEF Restart, NoHandler, StoreInv, CurStored, PendStored,
        StoredBeforeRouted, database, history, TypeHandlers, Carrying
<1>3. ASSUME NEW k \in Conns, HandlerStep(k) PROVE StoreInv'
  <2> USE DEF memory, database, identity, routing, transport, history
  <2>1. CASE AuthFail(k)
    BY <2>1, StoreFrame, Zenon DEF AuthFail, Goto, TypeHandlers, OnWire, Carrying
  <2>2. CASE Authenticate(k)
    BY <2>2, StoreFrame, Zenon DEF Authenticate, Goto, TypeHandlers, OnWire, Carrying
  <2>3. CASE ConnAck(k)
    <3>1. \A j \in Conns : OnWire(j)' \subseteq OnWire(j)
      BY <2>3, WireSend DEF ConnAck, ConnAckPacket, Packets, TypeTransport
    <3> QED
      BY <2>3, <3>1, StoreFrame, Zenon DEF ConnAck, Goto, SendOk, TypeHandlers, Carrying
  <2>4. CASE ConnAckFail(k)
    <3>1. \A j \in Conns : OnWire(j)' \subseteq OnWire(j)
      BY <2>4, WireClose, Zenon DEF ConnAckFail, CloseConn, TypeTransport
    <3> QED
      BY <2>4, <3>1, StoreFrame, Zenon DEF ConnAckFail, Goto, CloseConn, TypeHandlers, Carrying
  <2>5. CASE Pending(k)
    <3>1. \A j \in Conns : \A r \in pend'[j] : r \in pend[j] \/ r \in offline
      BY <2>5 DEF Pending, GetOfflineMessages, TypeHandlers
    <3>2. /\ UNCHANGED <<messages, offline, wire, pubacked, cur>>
          /\ \A j \in Conns : pc'[j] \in Carrying => pc[j] \in Carrying
      BY <2>5, Zenon DEF Pending, Goto, TypeHandlers, Carrying
    <3> QED
      BY <3>1, <3>2, ZenonT(30) DEF StoreInv, CurStored, PendStored, StoredBeforeRouted, OnWire
  <2>6. CASE Replay(k)
    <3>1. PICK r \in pend[k] : /\ SendOk(k, PublishPacket(r.id, r.qos))
                               /\ pend' = [pend EXCEPT ![k] = @ \ {r}]
      BY <2>6, Zenon DEF Replay, Oldest
    <3>2. r \in OfflineRow /\ messages[r.id] # NoRow
      BY Zenon DEF TypeHandlers, StoreInv, PendStored
    <3>3. PublishPacket(r.id, r.qos) \in Packets
      BY <3>2, Zenon DEF PublishPacket, Packets, OfflineRow
    <3>4. \A j \in Conns : OnWire(j)' \subseteq OnWire(j) \cup {r.id}
      BY <3>1, <3>3, WireSend DEF PublishPacket, TypeTransport
    <3>5. /\ UNCHANGED <<messages, offline, pubacked, cur>>
          /\ \A j \in Conns : pc'[j] \in Carrying => pc[j] \in Carrying
          /\ \A j \in Conns : pend'[j] \subseteq pend[j]
      BY <2>6, <3>1, Zenon DEF Replay, Goto, TypeHandlers, Carrying
    <3> QED
      BY <3>2, <3>4, <3>5, Zenon DEF StoreInv, CurStored, PendStored, StoredBeforeRouted
  <2>7. CASE ReplayFail(k)
    BY <2>7, StoreFrame, Zenon DEF ReplayFail, Goto, SendErr, TypeHandlers, OnWire, Carrying
  <2>8. CASE Subscribe(k)
    BY <2>8, StoreFrame, ZenonT(30) DEF Subscribe, Goto, Receiving, TypeHandlers, OnWire, Carrying
  <2>9. CASE SubscribeSession(k)
    BY <2>9, StoreFrame, Zenon DEF SubscribeSession, Goto, TypeHandlers, OnWire, Carrying
  <2>10. CASE Publish(k)
    <3> USE <2>10 DEF Publish, Goto, Receiving
    <3>1. client[k] \in ClientIds
      BY Zenon DEF HandlerHolds
    <3>2. PICK id \in PacketIds : /\ SaveMessage(id, client[k])
                                  /\ cur' = [cur EXCEPT ![k] = id]
      BY <3>1, BrokerAssumption, Zenon
    <3>3. /\ messages'[id] # NoRow
          /\ \A i \in PacketIds : messages[i] # NoRow => messages'[i] # NoRow
      BY <3>1, <3>2, SaveMessageEffect, Zenon DEF TypeStores
    <3>4. CurStored'
      BY <3>2, <3>3, Zenon DEF StoreInv, CurStored, Carrying, TypeHandlers, HandlerHolds
    <3>5. PendStored' /\ StoredBeforeRouted'
      BY <3>3, StoredKept, Zenon DEF StoreInv
    <3> QED
      BY <3>4, <3>5, Zenon DEF StoreInv
  <2>11. CASE RouteMatch(k)
    BY <2>11, StoreFrame, Zenon DEF RouteMatch, Goto, TypeHandlers, OnWire, Carrying
  <2>12. CASE RouteNext(k)
    <3>1. UNCHANGED <<messages, offline, pend, cur, wire, pubacked>>
      BY <2>12, Zenon DEF RouteNext
    <3>2. pc[k] = "route" /\ \A j \in Conns \ {k} : pc'[j] = pc[j]
      BY <2>12, Zenon DEF RouteNext, Goto, TypeHandlers
    <3>3. \A j \in Conns : OnWire(j)' = OnWire(j)
      BY <3>1, Zenon DEF OnWire
    <3> QED
      BY <3>1, <3>2, <3>3, StoreFrame, Zenon DEF Carrying
  <2>13. CASE RouteSend(k)
    <3>1. /\ cur[k] \in PacketIds /\ messages[cur[k]] # NoRow
          /\ target[k] \in Matches /\ tconn[k] \in Conns
      BY <2>13, Zenon DEF RouteSend, HandlerHolds, StoreInv, CurStored, Carrying
    <3>2. PublishPacket(cur[k], OutboundQoS(cur[k], target[k])) \in Packets
      BY <3>1, OutboundType, Zenon DEF PublishPacket, Packets
    <3>3. \A j \in Conns : OnWire(j)' \subseteq OnWire(j) \cup {cur[k]}
      <4> DEFINE p == PublishPacket(cur[k], OutboundQoS(cur[k], target[k]))
      <4>1. p.id = cur[k]
        BY Zenon DEF PublishPacket
      <4>2. SendOk(tconn[k], p) /\ wire \in [Conns -> Seq(Packets)]
        BY <2>13, Zenon DEF RouteSend, TypeTransport
      <4> HIDE DEF p
      <4>3. \A j \in Conns : \A id \in OnWire(j)' : id \in OnWire(j) \/ id = p.id
        BY <3>1, <3>2, <4>2, WireSend, Zenon DEF p
      <4> QED
        BY <4>1, <4>3, Zenon
    <3>4. /\ UNCHANGED <<messages, offline, pubacked, cur, pend>>
          /\ \A j \in Conns : pc'[j] \in Carrying => pc[j] \in Carrying
      BY <2>13, Zenon DEF RouteSend, Goto, Served, TypeHandlers, Carrying
    <3> QED
      BY <3>1, <3>3, <3>4, Zenon DEF StoreInv, CurStored, PendStored, StoredBeforeRouted
  <2>14. CASE RouteSendFail(k)
    BY <2>14, StoreFrame DEF RouteSendFail, Goto, Served, SendErr, TypeHandlers, OnWire,
        Carrying
  <2>15. CASE RouteQueue(k)
    <3>1. cur[k] \in PacketIds /\ messages[cur[k]] # NoRow
      BY <2>15, Zenon DEF RouteQueue, HandlerHolds, StoreInv, CurStored, Carrying
    <3>2. \A r \in offline' : r \in offline \/ r.id = cur[k]
      BY <2>15, EnqueueEffect, Zenon DEF RouteQueue
    <3>3. /\ UNCHANGED <<messages, wire, pubacked, cur, pend>>
          /\ \A j \in Conns : pc'[j] \in Carrying => pc[j] \in Carrying
      BY <2>15, Zenon DEF RouteQueue, Goto, Served, TypeHandlers, Carrying
    <3>w. \A j \in Conns : OnWire(j)' = OnWire(j)
      BY <3>3, Zenon DEF OnWire
    <3>4. CurStored' /\ PendStored'
      BY <3>2, <3>3, Zenon DEF StoreInv, CurStored, PendStored
    <3>5. StoredBeforeRouted'
      BY <3>1, <3>2, <3>3, <3>w, Zenon DEF StoreInv, StoredBeforeRouted
    <3> QED
      BY <3>4, <3>5, Zenon DEF StoreInv
  <2>16. CASE RouteQueueFail(k)
    BY <2>16, StoreFrame, Zenon DEF RouteQueueFail, Goto, ForgetPacket, TypeHandlers, OnWire,
        Carrying
  <2>17. CASE PublishDone(k)
    <3>1. cur[k] \in PacketIds /\ messages[cur[k]] # NoRow
      BY <2>17, Zenon DEF PublishDone, HandlerHolds, StoreInv, CurStored, Carrying
    <3>2. /\ UNCHANGED <<messages, offline, wire, pend>>
          /\ pubacked' \subseteq pubacked \cup {cur[k]}
      BY <2>17, Zenon DEF PublishDone
    <3>3. \A j \in Conns : pc'[j] \in Carrying => pc[j] \in Carrying /\ cur'[j] = cur[j]
      BY <2>17, Zenon DEF PublishDone, Goto, ForgetPacket, TypeHandlers, Carrying
    <3>w. \A j \in Conns : OnWire(j)' = OnWire(j)
      BY <3>2, Zenon DEF OnWire
    <3>4. CurStored' /\ PendStored'
      BY <3>2, <3>3, Zenon DEF StoreInv, CurStored, PendStored
    <3>5. StoredBeforeRouted'
      BY <3>1, <3>2, <3>3, <3>w DEF StoreInv, StoredBeforeRouted
    <3> QED
      BY <3>4, <3>5, Zenon DEF StoreInv
  <2>18. CASE PubAck(k)
    <3>1. PICK id \in acks[k] : /\ MarkMessageAcknowledged(id) \/ UNCHANGED messages
                                /\ cur' = [cur EXCEPT ![k] = id]
      BY <2>18, Zenon DEF PubAck
    <3>2. id \in PacketIds
      BY Zenon DEF TypeTransport
    <3>3. \A i \in PacketIds : messages[i] # NoRow => messages'[i] # NoRow
      BY <3>1, <3>2, MarkMessageEffect, Zenon DEF TypeStores
    <3>4. \A j \in Conns : pc'[j] \in Carrying => pc[j] \in Carrying /\ cur'[j] = cur[j]
      BY <2>18, <3>1, Zenon DEF PubAck, Goto, TypeHandlers, Carrying
    <3>5. CurStored'
      BY <3>3, <3>4, Zenon DEF StoreInv, CurStored, Carrying, HandlerHolds
    <3>6. PendStored' /\ StoredBeforeRouted'
      BY <2>18, <3>3, StoredKept, Zenon DEF StoreInv, PubAck
    <3> QED
      BY <3>5, <3>6, Zenon DEF StoreInv
  <2>19. CASE AckQueue(k)
    BY <2>19, StoreFrame, Zenon DEF AckQueue, Goto, ForgetPacket, DeleteOfflineMessage,
        TypeHandlers, OnWire, Carrying
  <2>20. CASE RateLimitPubAck(k)
    BY <2>20, StoreFrame, Zenon DEF RateLimitPubAck, Receiving, TypeHandlers, OnWire, Carrying
  <2>21. CASE ReplyFail(k)
    BY <2>21, StoreFrame, Zenon DEF ReplyFail, Receiving, SendErr, TypeHandlers, OnWire, Carrying
  <2>22. CASE Leave(k)
    BY <2>22, StoreFrame, Zenon DEF Leave, Goto, TypeHandlers, OnWire, Carrying
  <2>23. CASE Close(k)
    <3>1. \A j \in Conns : OnWire(j)' \subseteq OnWire(j)
      BY <2>23, WireClose, Zenon DEF Close, CloseConn, TypeTransport
    <3> QED
      BY <2>23, <3>1, StoreFrame, Zenon DEF Close, Goto, CloseConn, TypeHandlers, Carrying
  <2> QED
    BY <1>3, <2>1, <2>2, <2>3, <2>4, <2>5, <2>6, <2>7, <2>8, <2>9, <2>10, <2>11, <2>12,
        <2>13, <2>14, <2>15, <2>16, <2>17, <2>18, <2>19, <2>20, <2>21, <2>22, <2>23, Zenon
    DEF HandlerStep
<1>4. ASSUME NEW k \in Conns, ClientStep(k) PROVE StoreInv'
  <2> USE DEF memory, database, identity, routing, transport, history
  <2>1. CASE ClientRead(k)
    <3>1. \A j \in Conns : OnWire(j)' \subseteq OnWire(j)
      BY <2>1, WireRead, Zenon DEF ClientRead, TypeTransport
    <3> QED
      BY <2>1, <3>1, StoreFrame, Zenon DEF ClientRead
  <2>2. CASE ClientGone(k)
    <3>1. \A j \in Conns : OnWire(j)' \subseteq OnWire(j)
      BY <2>2, WireClose, Zenon DEF ClientGone, TypeTransport
    <3> QED
      BY <2>2, <3>1, StoreFrame, Zenon DEF ClientGone
  <2> QED
    BY <1>4, <2>1, <2>2, Zenon DEF ClientStep
<1> QED
  BY <1>1, <1>2, <1>3, <1>4, Zenon DEF Next

\* Nothing is on a wire, queued or acknowledged to its publisher without a row in
\* messages, across lost connections and restarts (server.go:246-270).
THEOREM StoredBeforeRoutedAlways == Spec => []StoredBeforeRouted
<1>1. StoreInv => StoredBeforeRouted
  BY Zenon DEF StoreInv
<1> QED
  BY TypeInit, TypeStep, StoreInit, StoreStep, <1>1, PTL DEF Spec

-----------------------------------------------------------------------------
(***************************************************************************)
(* A queued packet stays queued until it is acknowledged                   *)
(***************************************************************************)

\* A handler about to clear the queue has recorded the acknowledgement first.
AckingIsSeen == \A k \in Conns : pc[k] = "ack" => <<cur[k], client[k]>> \in ackSeen

QueueInv == QueuedUntilPubAck /\ AckingIsSeen

\* Nothing is queued at first.
LEMMA QueueInit == Init => QueueInv
BY Zenon DEF Init, NoHandler, QueueInv, QueuedUntilPubAck, AckingIsSeen

\* A step that neither queues, clears nor acknowledges.
LEMMA QueueFrame ==
    ASSUME QueueInv, UNCHANGED <<offline, queued, ackSeen>>,
           \A j \in Conns : pc'[j] = "ack" =>
               pc[j] = "ack" /\ cur'[j] = cur[j] /\ client'[j] = client[j]
    PROVE  QueueInv'
BY Zenon DEF QueueInv, QueuedUntilPubAck, AckingIsSeen

\* Only queue.Ack removes a row, and only after the PUBACK was recorded.
LEMMA QueueStep == TypeInv /\ QueueInv /\ [Next]_vars => QueueInv'
<1> SUFFICES ASSUME TypeInv, QueueInv, [Next]_vars PROVE QueueInv'
  OBVIOUS
<1> USE QttAssumption DEF TypeInv, TypeOK
<1>1. CASE UNCHANGED vars
  BY <1>1, QueueFrame, Zenon DEF vars, memory, database, identity, routing, transport, history
<1>2. CASE Restart
  BY <1>2, Zenon DEF Restart, NoHandler, QueueInv, QueuedUntilPubAck, AckingIsSeen, database,
      history, TypeHandlers
<1>3. ASSUME NEW k \in Conns, HandlerStep(k) PROVE QueueInv'
  <2> USE DEF memory, database, identity, routing, transport, history
  <2>1. CASE AuthFail(k)
    BY <2>1, QueueFrame, Zenon DEF AuthFail, Goto, TypeHandlers
  <2>2. CASE Authenticate(k)
    BY <2>2, QueueFrame, Zenon DEF Authenticate, Goto, TypeHandlers
  <2>3. CASE ConnAck(k)
    BY <2>3, QueueFrame, Zenon DEF ConnAck, Goto, SendOk, TypeHandlers
  <2>4. CASE ConnAckFail(k)
    BY <2>4, QueueFrame, Zenon DEF ConnAckFail, Goto, CloseConn, TypeHandlers
  <2>5. CASE Pending(k)
    BY <2>5, QueueFrame, Zenon DEF Pending, Goto, TypeHandlers
  <2>6. CASE Replay(k)
    BY <2>6, QueueFrame, Zenon DEF Replay, Goto, SendOk, TypeHandlers
  <2>7. CASE ReplayFail(k)
    BY <2>7, QueueFrame, Zenon DEF ReplayFail, Goto, SendErr, TypeHandlers
  <2>8. CASE Subscribe(k)
    BY <2>8, QueueFrame, Zenon DEF Subscribe, Goto, Receiving, TypeHandlers
  <2>9. CASE SubscribeSession(k)
    BY <2>9, QueueFrame, Zenon DEF SubscribeSession, Goto, TypeHandlers
  <2>10. CASE Publish(k)
    BY <2>10, QueueFrame, Zenon DEF Publish, Goto, Receiving, TypeHandlers
  <2>11. CASE RouteMatch(k)
    BY <2>11, QueueFrame, Zenon DEF RouteMatch, Goto, TypeHandlers
  <2>12. CASE RouteNext(k)
    BY <2>12, QueueFrame DEF RouteNext, Goto, TypeHandlers
  <2>13. CASE RouteSend(k)
    BY <2>13, QueueFrame, Zenon DEF RouteSend, Goto, Served, SendOk, TypeHandlers
  <2>14. CASE RouteSendFail(k)
    BY <2>14, QueueFrame, Zenon DEF RouteSendFail, Goto, Served, SendErr, TypeHandlers
  <2>15. CASE RouteQueue(k)
    <3>1. cur[k] \in PacketIds /\ target[k].client \in ClientIds
      BY <2>15, Zenon DEF RouteQueue, HandlerHolds, Matches
    <3>2. /\ offline \subseteq offline'
          /\ \E r \in offline' : r.id = cur[k]
      <4> DEFINE row == [id |-> cur[k], client |-> target[k].client,
                         qos |-> OutboundQoS(cur[k], target[k]), at |-> clock]
      <4>1. row.id = cur[k]
        OBVIOUS
      <4>2. \/ (\E r \in offline : r.id = cur[k]) /\ offline' = offline
            \/ offline' = offline \cup {row}
        BY <2>15, Zenon DEF RouteQueue, EnqueueOfflineMessage
      <4> HIDE DEF row
      <4> QED
        BY <4>1, <4>2, Zenon
    <3>3. /\ \A q \in queued' : q \in queued \/ q[1] = cur[k]
          /\ UNCHANGED <<ackSeen, cur, client>>
          /\ \A j \in Conns : pc'[j] = "ack" => pc[j] = "ack"
      BY <2>15 DEF RouteQueue, Served, Goto, TypeHandlers
    <3>4. QueuedUntilPubAck'
      BY <3>2, <3>3, Zenon DEF QueueInv, QueuedUntilPubAck
    <3> QED
      BY <3>3, <3>4, Zenon DEF QueueInv, AckingIsSeen
  <2>16. CASE RouteQueueFail(k)
    BY <2>16, QueueFrame, Zenon DEF RouteQueueFail, Goto, ForgetPacket, TypeHandlers
  <2>17. CASE PublishDone(k)
    BY <2>17, QueueFrame, Zenon DEF PublishDone, Goto, ForgetPacket, TypeHandlers
  <2>18. CASE PubAck(k)
    <3>1. PICK id \in acks[k] : /\ cur' = [cur EXCEPT ![k] = id]
                                /\ ackSeen' = ackSeen \cup {<<id, client[k]>>}
      BY <2>18, Zenon DEF PubAck
    <3>2. QueuedUntilPubAck'
      BY <2>18, <3>1, Zenon DEF PubAck, QueueInv, QueuedUntilPubAck
    <3>3. AckingIsSeen'
      BY <2>18, <3>1, Zenon DEF PubAck, Goto, QueueInv, AckingIsSeen, TypeHandlers
    <3> QED
      BY <3>2, <3>3, Zenon DEF QueueInv
  <2>19. CASE AckQueue(k)
    <3>1. client[k] \in ClientIds /\ <<cur[k], client[k]>> \in ackSeen
      BY <2>19, Zenon DEF AckQueue, HandlerHolds, QueueInv, AckingIsSeen
    <3>2. /\ \A r \in offline : r \in offline' \/ r.id = cur[k]
          /\ UNCHANGED <<queued, ackSeen, client>>
          /\ \A j \in Conns : pc'[j] = "ack" => pc[j] = "ack" /\ cur'[j] = cur[j]
      BY <2>19, Zenon DEF AckQueue, DeleteOfflineMessage, ForgetPacket, Goto, TypeHandlers
    <3>3. QueuedUntilPubAck'
      BY <3>1, <3>2, Zenon DEF QueueInv, QueuedUntilPubAck
    <3> QED
      BY <3>2, <3>3, Zenon DEF QueueInv, AckingIsSeen
  <2>20. CASE RateLimitPubAck(k)
    BY <2>20, QueueFrame, Zenon DEF RateLimitPubAck, Receiving, TypeHandlers
  <2>21. CASE ReplyFail(k)
    BY <2>21, QueueFrame, Zenon DEF ReplyFail, Receiving, SendErr, TypeHandlers
  <2>22. CASE Leave(k)
    BY <2>22, QueueFrame, Zenon DEF Leave, Goto, TypeHandlers
  <2>23. CASE Close(k)
    BY <2>23, QueueFrame, Zenon DEF Close, Goto, CloseConn, TypeHandlers
  <2> QED
    BY <1>3, <2>1, <2>2, <2>3, <2>4, <2>5, <2>6, <2>7, <2>8, <2>9, <2>10, <2>11, <2>12,
        <2>13, <2>14, <2>15, <2>16, <2>17, <2>18, <2>19, <2>20, <2>21, <2>22, <2>23, Zenon
    DEF HandlerStep
<1>4. ASSUME NEW k \in Conns, ClientStep(k) PROVE QueueInv'
  <2> USE DEF memory, database, identity, routing, transport, history
  <2>1. CASE ClientRead(k)
    BY <2>1, QueueFrame, Zenon DEF ClientRead, TypeHandlers
  <2>2. CASE ClientGone(k)
    BY <2>2, QueueFrame, Zenon DEF ClientGone, TypeHandlers
  <2> QED
    BY <1>4, <2>1, <2>2, Zenon DEF ClientStep
<1> QED
  BY <1>1, <1>2, <1>3, <1>4, Zenon DEF Next

\* A packet whose Enqueue succeeded stays queued until somebody acknowledges it,
\* through replays, lost connections and restarts (server.go:134-142, 275-289).
THEOREM QueuedUntilPubAckAlways == Spec => []QueuedUntilPubAck
<1>1. QueueInv => QueuedUntilPubAck
  BY Zenon DEF QueueInv
<1> QED
  BY TypeInit, TypeStep, QueueInit, QueueStep, <1>1, PTL DEF Spec

-----------------------------------------------------------------------------
\* What a step may do to the table of messages.
Advance ==
    \A id \in PacketIds : messages[id] # NoRow =>
        /\ messages'[id].publisher = messages[id].publisher
        /\ messages[id].state = "acked" => messages'[id].state = "acked"

\* PUBLISH and PUBACK are the only packets that make the broker write to messages.
LEMMA MessagesFrame ==
    ASSUME [Next]_vars, \A k \in Conns : ~Publish(k) /\ ~PubAck(k)
    PROVE  UNCHANGED messages
<1>1. ASSUME NEW k \in Conns, HandlerStep(k) PROVE UNCHANGED messages
  BY <1>1, Zenon DEF HandlerStep, AuthFail, Authenticate, ConnAck, ConnAckFail, Pending, Replay,
      ReplayFail, Subscribe, SubscribeSession, RouteMatch, RouteNext, RouteSend,
      RouteSendFail, RouteQueue, RouteQueueFail, PublishDone, AckQueue, RateLimitPubAck,
      ReplyFail, Leave, Close, database
<1>2. CASE UNCHANGED vars \/ Restart \/ \E k \in Conns : ClientStep(k)
  BY <1>2, Zenon DEF vars, Restart, ClientStep, ClientRead, ClientGone, database
<1> QED
  BY <1>1, <1>2, Zenon DEF Next

\* Saving leaves an existing row alone, acknowledging it only sets its state.
LEMMA AdvanceStep == TypeInv /\ [Next]_vars => Advance
<1> SUFFICES ASSUME TypeInv, [Next]_vars PROVE Advance
  OBVIOUS
<1> USE QttAssumption DEF TypeInv, TypeOK
<1>1. CASE UNCHANGED messages
  BY <1>1, Zenon DEF Advance
<1>2. ASSUME NEW k \in Conns, Publish(k) PROVE Advance
  <2>1. client[k] \in ClientIds
    BY <1>2, Zenon DEF Publish, Receiving, HandlerHolds
  <2>2. PICK id \in PacketIds : SaveMessage(id, client[k])
    BY <1>2, <2>1, BrokerAssumption, Zenon DEF Publish
  <2> QED
    BY <2>1, <2>2, SaveMessageEffect, Zenon DEF Advance, TypeStores
<1>3. ASSUME NEW k \in Conns, PubAck(k) PROVE Advance
  <2>1. PICK id \in acks[k] : MarkMessageAcknowledged(id) \/ UNCHANGED messages
    BY <1>3, Zenon DEF PubAck
  <2>2. CASE UNCHANGED messages
    BY <2>2, Zenon DEF Advance
  <2>3. CASE MarkMessageAcknowledged(id)
    <3>1. id \in PacketIds
      BY Zenon DEF TypeTransport
    <3>2. \A i \in PacketIds \ {id} : messages'[i] = messages[i]
      BY <2>3, <3>1, MarkMessageEffect, Zenon DEF TypeStores
    <3>3. messages[id] # NoRow => messages'[id].state = "acked"
      BY <2>3, <3>1, MarkMessageEffect, Zenon DEF TypeStores
    <3>4. messages'[id].publisher = messages[id].publisher
      BY <2>3, <3>1, MarkMessageEffect, Zenon DEF TypeStores
    <3> QED
      BY <3>2, <3>3, <3>4, Zenon DEF Advance
  <2> QED
    BY <2>1, <2>2, <2>3, Zenon
<1> QED
  BY <1>1, <1>2, <1>3, MessagesFrame, Zenon

\* A stored message keeps its publisher, and an acknowledged one stays acknowledged,
\* however often it is published again (api/db/store.go:197, 221).
THEOREM MessagesOnlyAdvanceAlways == Spec => MessagesOnlyAdvance
<1>1. TypeInv /\ [Next]_vars => [Advance]_vars
  BY AdvanceStep, Zenon
<1>2. Spec => [][Advance]_vars
  BY TypeInit, TypeStep, <1>1, PTL DEF Spec
<1> QED
  BY <1>2, Zenon DEF MessagesOnlyAdvance, Advance

-----------------------------------------------------------------------------
(***************************************************************************)
(* The broker implements the Ledger                                        *)
(***************************************************************************)

\* A Send takes nothing from any wire.
LEMMA WireSendKeeps ==
    ASSUME wire \in [Conns -> Seq(Packets)], NEW k \in Conns, NEW p \in Packets, SendOk(k, p)
    PROVE  \A j \in Conns : OnWire(j) \subseteq OnWire(j)'
<1> SUFFICES ASSUME NEW j \in Conns, NEW id \in OnWire(j) PROVE id \in OnWire(j)'
  OBVIOUS
<1>1. CASE wire'[j] = wire[j]
  BY <1>1, Zenon DEF OnWire
<1>2. CASE j = k /\ wire'[k] = Append(wire[k], p)
  <2>1. /\ Len(wire'[k]) = Len(wire[k]) + 1 /\ Len(wire[k]) \in Nat
        /\ \A i \in 1..Len(wire[k]) : wire'[k][i] = wire[k][i]
    BY <1>2
  <2>2. PICK i \in 1..Len(wire[k]) : wire[k][i].type = "PUBLISH" /\ id = wire[k][i].id
    BY <1>2, Zenon DEF OnWire
  <2>3. i \in 1..Len(wire'[k])
    BY <2>1
  <2> QED
    BY <1>2, <2>1, <2>2, <2>3, Zenon DEF OnWire
<1> QED
  BY <1>1, <1>2, Zenon DEF SendOk

\* A step of the Ledger that at most loses copies.
LEMMA LedgerFrame ==
    ASSUME Accepted' = Accepted, UNCHANGED <<pubacked, offline, ackSeen>>,
           \A j \in Conns : OnWire(j)' \cup acks'[j] \subseteq OnWire(j) \cup acks[j]
    PROVE  L!Next
<1>1. Copies' \subseteq Copies
  BY Zenon DEF Copies
<1> QED
  BY <1>1, Zenon DEF L!Next, L!Lose

\* A Send of an accepted packet is an Emit, or changes nothing when the packet is lost.
LEMMA LedgerSend ==
    ASSUME wire \in [Conns -> Seq(Packets)], NEW k \in Conns, NEW id \in PacketIds,
           NEW qos \in QoS, SendOk(k, PublishPacket(id, qos)), messages[id] # NoRow,
           UNCHANGED <<messages, pubacked, offline, ackSeen, acks>>
    PROVE  L!Next
<1> DEFINE p == PublishPacket(id, qos)
<1>1. p \in Packets /\ p.id = id
  BY Zenon DEF PublishPacket, Packets
<1>2. SendOk(k, p)
  OBVIOUS
<1> HIDE DEF p
<1>3. \A j \in Conns : OnWire(j)' \subseteq OnWire(j) \cup {id}
  BY <1>1, <1>2, WireSend, Zenon
<1>4. \A j \in Conns : OnWire(j) \subseteq OnWire(j)'
  BY <1>1, <1>2, WireSendKeeps, Zenon
<1>5. Copies' = Copies \/ Copies' = Copies \cup {id}
  BY <1>3, <1>4 DEF Copies
<1>6. id \in Accepted /\ Accepted' = Accepted
  BY Zenon DEF Accepted
<1> QED
  BY <1>5, <1>6, Zenon DEF L!Next, L!Lose, L!Emit

\* What the Ledger needs to know of the broker.
LedgerInv == TypeInv /\ StoreInv /\ AckingIsSeen

\* Every step of the broker, a client or a restart is a step of the Ledger.
LEMMA LedgerStep == LedgerInv /\ [Next]_vars => [L!Next]_(L!vars)
<1> SUFFICES ASSUME LedgerInv, [Next]_vars PROVE [L!Next]_(L!vars)
  OBVIOUS
<1> USE QttAssumption DEF LedgerInv, TypeInv, TypeOK
<1>1. CASE UNCHANGED vars
  <2>1. UNCHANGED <<messages, offline, wire, acks, pubacked, queued, ackSeen>>
    BY <1>1, Zenon DEF vars, memory, database, identity, routing, transport, history
  <2>2. Accepted' = Accepted
    BY <2>1, Zenon DEF Accepted
  <2>3. Copies' = Copies
    BY <2>1 DEF Copies, OnWire
  <2> QED
    BY <2>1, <2>2, <2>3, Zenon DEF L!vars
<1>2. CASE Restart
  <2>1. \A j \in Conns : OnWire(j)' = {} /\ acks'[j] = {}
    <3>1. \A j \in Conns : wire'[j] = <<>> /\ acks'[j] = {}
      BY <1>2, Zenon DEF Restart, NoHandler
    <3>2. \A j \in Conns : Len(wire'[j]) = 0
      BY <3>1
    <3> QED
      BY <3>1, <3>2 DEF OnWire
  <2> QED
    BY <1>2, <2>1, LedgerFrame, Zenon DEF Restart, database, history, Accepted
<1>3. ASSUME NEW k \in Conns, HandlerStep(k) PROVE L!Next
  <2> USE DEF memory, database, identity, routing, transport, history
  <2>1. CASE UNCHANGED <<messages, pubacked, offline, ackSeen, wire, acks>>
    BY <2>1, LedgerFrame, Zenon DEF Accepted, OnWire
  <2>2. CASE ConnAck(k)
    <3>1. \A j \in Conns : OnWire(j)' \subseteq OnWire(j)
      BY <2>2, WireSend DEF ConnAck, ConnAckPacket, Packets, TypeTransport
    <3> QED
      BY <2>2, <3>1, LedgerFrame, Zenon DEF ConnAck, Accepted
  <2>3. CASE ConnAckFail(k) \/ Close(k)
    <3>1. CloseConn(k) /\ UNCHANGED <<messages, pubacked, offline, ackSeen>>
      BY <2>3, Zenon DEF ConnAckFail, Close
    <3>2. \A j \in Conns : OnWire(j)' \subseteq OnWire(j) /\ acks'[j] \subseteq acks[j]
      BY <3>1, WireClose, Zenon DEF CloseConn, TypeTransport
    <3> QED
      BY <3>1, <3>2, LedgerFrame, Zenon DEF Accepted
  <2>4. CASE Replay(k)
    <3>1. PICK r \in pend[k] : SendOk(k, PublishPacket(r.id, r.qos))
      BY <2>4, Zenon DEF Replay, Oldest
    <3>2. r.id \in PacketIds /\ r.qos \in QoS /\ messages[r.id] # NoRow
      BY DEF TypeHandlers, OfflineRow, StoreInv, PendStored
    <3> QED
      BY <2>4, <3>1, <3>2, LedgerSend, Zenon DEF Replay, TypeTransport
  <2>5. CASE Publish(k)
    <3>1. client[k] \in ClientIds
      BY <2>5, Zenon DEF Publish, Receiving, HandlerHolds
    <3>2. PICK id \in PacketIds : SaveMessage(id, client[k])
      BY <2>5, <3>1, BrokerAssumption, Zenon DEF Publish
    <3>3. Accepted' = Accepted \cup {id}
      BY <3>1, <3>2, SaveMessageEffect, Zenon DEF TypeStores, Accepted
    <3>4. UNCHANGED <<pubacked, offline, ackSeen, wire, acks>>
      BY <2>5, Zenon DEF Publish
    <3>5. Copies' = Copies
      BY <3>4 DEF Copies, OnWire
    <3> QED
      BY <3>3, <3>4, <3>5, Zenon DEF L!Next, L!Accept
  <2>6. CASE RouteSend(k)
    <3>1. /\ cur[k] \in PacketIds /\ messages[cur[k]] # NoRow
          /\ target[k] \in Matches /\ tconn[k] \in Conns
      BY <2>6, Zenon DEF RouteSend, HandlerHolds, StoreInv, CurStored, Carrying
    <3>2. OutboundQoS(cur[k], target[k]) \in QoS
      BY <3>1, OutboundType, Zenon
    <3> QED
      BY <2>6, <3>1, <3>2, LedgerSend, Zenon DEF RouteSend, TypeTransport
  <2>7. CASE RouteQueue(k)
    <3>1. cur[k] \in Accepted
      BY <2>7, Zenon DEF RouteQueue, HandlerHolds, StoreInv, CurStored, Carrying, Accepted
    <3>2. {r.id : r \in offline}' = {r.id : r \in offline} \cup {cur[k]}
      <4> DEFINE row == [id |-> cur[k], client |-> target[k].client,
                         qos |-> OutboundQoS(cur[k], target[k]), at |-> clock]
      <4>1. row.id = cur[k]
        OBVIOUS
      <4>2. \/ (\E r \in offline : r.id = cur[k]) /\ offline' = offline
            \/ offline' = offline \cup {row}
        BY <2>7, Zenon DEF RouteQueue, EnqueueOfflineMessage
      <4> HIDE DEF row
      <4> QED
        BY <4>1, <4>2, Zenon
    <3>3. UNCHANGED <<messages, pubacked, ackSeen, wire, acks>>
      BY <2>7, Zenon DEF RouteQueue
    <3>4. Accepted' = Accepted /\ Copies' = Copies
      BY <3>3 DEF Accepted, Copies, OnWire
    <3>5. cur[k] \in PacketIds
      BY <3>1, Zenon DEF Accepted
    <3> QED
      BY <3>1, <3>2, <3>3, <3>4, <3>5, Zenon DEF L!Next, L!PutAside
  <2>8. CASE PublishDone(k)
    <3>1. cur[k] \in Accepted
      BY <2>8, Zenon DEF PublishDone, HandlerHolds, StoreInv, CurStored, Carrying, Accepted
    <3>2. /\ UNCHANGED <<messages, offline, ackSeen, wire, acks>>
          /\ pubacked' = pubacked \cup {cur[k]} \/ pubacked' = pubacked
      BY <2>8, Zenon DEF PublishDone
    <3>3. Accepted' = Accepted /\ Copies' = Copies
      BY <3>2 DEF Accepted, Copies, OnWire
    <3> QED
      BY <3>1, <3>2, <3>3, Zenon DEF L!Next, L!Tell, L!Lose, Accepted
  <2>9. CASE PubAck(k)
    <3>1. PICK id \in acks[k] : /\ MarkMessageAcknowledged(id) \/ UNCHANGED messages
                                /\ acks' = [acks EXCEPT ![k] = @ \ {id}]
                                /\ ackSeen' = ackSeen \cup {<<id, client[k]>>}
      BY <2>9, Zenon DEF PubAck
    <3>2. id \in PacketIds /\ UNCHANGED <<pubacked, offline, wire>>
      BY <2>9, Zenon DEF PubAck, TypeTransport
    <3>3. Accepted' = Accepted
      BY <3>1, <3>2, MarkMessageEffect, Zenon DEF TypeStores, Accepted
    <3>4. {q[1] : q \in ackSeen}' = {q[1] : q \in ackSeen} \cup {id}
      <4> DEFINE pair == <<id, client[k]>>
      <4>1. pair[1] = id /\ ackSeen' = ackSeen \cup {pair}
        BY <3>1, Zenon
      <4> HIDE DEF pair
      <4> QED
        BY <4>1, Zenon
    <3>5. /\ \A j \in Conns : OnWire(j)' = OnWire(j)
          /\ acks'[k] = acks[k] \ {id} /\ \A j \in Conns \ {k} : acks'[j] = acks[j]
      BY <3>1, <3>2 DEF OnWire, TypeTransport
    <3>6. id \in Copies /\ Copies' \in {Copies, Copies \ {id}}
      <4> DEFINE on(j) == OnWire(j) \cup acks[j]
                 on2(j) == OnWire(j)' \cup acks'[j]
      <4>1. Copies = UNION {on(j) : j \in Conns} /\ Copies' = UNION {on2(j) : j \in Conns}
        BY Zenon DEF Copies
      <4>2. /\ id \in on(k)
            /\ \A j \in Conns : \A x : x \in on2(j) => x \in on(j)
            /\ \A j \in Conns : \A x : x \in on(j) /\ x # id => x \in on2(j)
        BY <3>1, <3>5
      <4> HIDE DEF on, on2
      <4>3. id \in Copies /\ \A x : x \in Copies' => x \in Copies
        BY <4>1, <4>2
      <4>4. \A x : x \in Copies /\ x # id => x \in Copies'
        BY <4>1, <4>2
      <4>5. CASE id \in Copies'
        <5>1. Copies' = Copies
          BY <4>3, <4>4, <4>5
        <5> QED
          BY <4>3, <5>1, Zenon
      <4>6. CASE id \notin Copies'
        <5>1. Copies' = Copies \ {id}
          BY <4>3, <4>4, <4>6
        <5> QED
          BY <4>3, <5>1, Zenon
      <4> QED
        BY <4>5, <4>6, Zenon
    <3> QED
      BY <3>2, <3>3, <3>4, <3>6, Zenon DEF L!Next, L!Acknowledge
  <2>10. CASE AckQueue(k) /\ DeleteOfflineMessage(cur[k])
    <3>1. cur[k] \in PacketIds /\ cur[k] \in {q[1] : q \in ackSeen}
      <4> DEFINE pair == <<cur[k], client[k]>>
      <4>1. cur[k] \in PacketIds /\ pair[1] = cur[k] /\ pair \in ackSeen
        BY <2>10, Zenon DEF AckQueue, HandlerHolds, AckingIsSeen
      <4> HIDE DEF pair
      <4> QED
        BY <4>1, Zenon
    <3>2. {r.id : r \in offline}' = {r.id : r \in offline} \ {cur[k]}
      BY <2>10, Zenon DEF DeleteOfflineMessage
    <3>3. UNCHANGED <<messages, pubacked, ackSeen, wire, acks>>
      BY <2>10, Zenon DEF AckQueue
    <3>4. Accepted' = Accepted /\ Copies' = Copies
      BY <3>3 DEF Accepted, Copies, OnWire
    <3> QED
      BY <3>1, <3>2, <3>3, <3>4, Zenon DEF L!Next, L!Remove
  <2>11. CASE RateLimitPubAck(k)
    <3>1. /\ UNCHANGED <<messages, pubacked, offline, ackSeen, wire>>
          /\ \E id \in acks[k] : acks' = [acks EXCEPT ![k] = @ \ {id}]
      BY <2>11, Zenon DEF RateLimitPubAck
    <3>2. \A j \in Conns : acks'[j] \subseteq acks[j]
      BY <3>1, Zenon DEF TypeTransport
    <3>3. Accepted' = Accepted
      BY <3>1, Zenon DEF Accepted
    <3>4. \A j \in Conns : OnWire(j)' = OnWire(j)
      BY <3>1, Zenon DEF OnWire
    <3> QED
      BY <3>1, <3>2, <3>3, <3>4, LedgerFrame, Zenon
  <2>12. AuthFail(k) \/ Authenticate(k) \/ Pending(k) \/ ReplayFail(k) \/ Subscribe(k)
            \/ SubscribeSession(k) \/ RouteMatch(k) \/ RouteNext(k) \/ RouteSendFail(k)
            \/ RouteQueueFail(k) \/ (AckQueue(k) /\ ~DeleteOfflineMessage(cur[k]))
            \/ ReplyFail(k) \/ Leave(k)
         => UNCHANGED <<messages, pubacked, offline, ackSeen, wire, acks>>
    BY Zenon DEF AuthFail, Authenticate, Pending, ReplayFail, Subscribe, SubscribeSession,
        RouteMatch, RouteNext, RouteSendFail, RouteQueueFail, AckQueue, ReplyFail, Leave,
        SendErr
  <2> QED
    BY <1>3, <2>1, <2>2, <2>3, <2>4, <2>5, <2>6, <2>7, <2>8, <2>9, <2>10, <2>11, <2>12, Zenon
    DEF HandlerStep
<1>4. ASSUME NEW k \in Conns, ClientStep(k) PROVE L!Next
  <2> USE DEF memory, database, identity, routing, transport, history
  <2>1. CASE ClientRead(k)
    <3>1. /\ UNCHANGED <<messages, pubacked, offline, ackSeen>>
          /\ wire[k] # <<>> /\ wire' = [wire EXCEPT ![k] = Tail(@)]
          /\ wire \in [Conns -> Seq(Packets)]
      BY <2>1, Zenon DEF ClientRead, TypeTransport
    <3>2. \A j \in Conns : OnWire(j)' \subseteq OnWire(j)
      BY <3>1, WireRead, Zenon
    <3>3. Head(wire[k]) = wire[k][1] /\ 1 \in 1..Len(wire[k]) /\ wire[k][1] \in Packets
      BY <3>1
    <3>4. Head(wire[k]).qos > 0 => Head(wire[k]).id \in OnWire(k)
      BY <3>3 DEF Packets, ConnAckPacket, OnWire
    <3>5. \A j \in Conns : acks'[j] \subseteq OnWire(j) \cup acks[j]
      BY <2>1, <3>4, Zenon DEF ClientRead, TypeTransport
    <3> QED
      BY <3>1, <3>2, <3>5, LedgerFrame, Zenon DEF Accepted
  <2>2. CASE ClientGone(k)
    <3>1. \A j \in Conns : OnWire(j)' \subseteq OnWire(j) /\ acks'[j] \subseteq acks[j]
      BY <2>2, WireClose, Zenon DEF ClientGone, TypeTransport
    <3> QED
      BY <2>2, <3>1, LedgerFrame, Zenon DEF ClientGone, Accepted
  <2> QED
    BY <1>4, <2>1, <2>2, Zenon DEF ClientStep
<1> QED
  BY <1>1, <1>2, <1>3, <1>4, Zenon DEF Next

\* With all its connections, takeovers, failing statements and restarts the broker
\* keeps the promise of the Ledger (server.go:246-266, 134-142).
THEOREM LedgerImplemented == Spec => ImplementsLedger
<1>1. Init => L!Init
  <2> SUFFICES ASSUME Init PROVE L!Init
    OBVIOUS
  <2>1. \A k \in Conns : OnWire(k) = {} /\ acks[k] = {}
    <3>1. \A k \in Conns : wire[k] = <<>> /\ acks[k] = {}
      BY Zenon DEF Init, NoHandler
    <3>2. \A k \in Conns : Len(wire[k]) = 0
      BY <3>1
    <3> QED
      BY <3>1, <3>2 DEF OnWire
  <2>2. Accepted = {} /\ Copies = {}
    BY <2>1, Zenon DEF Init, Accepted, Copies
  <2> QED
    BY <2>2, Zenon DEF Init, L!Init
<1>2. QueueInv => AckingIsSeen
  BY Zenon DEF QueueInv
<1>3. Spec => []LedgerInv
  BY TypeInit, TypeStep, StoreInit, StoreStep, QueueInit, QueueStep, <1>2, PTL
  DEF Spec, LedgerInv
<1> QED
  BY <1>1, <1>3, LedgerStep, PTL DEF Spec, ImplementsLedger, L!Spec

-----------------------------------------------------------------------------
(***************************************************************************)
(* Access control holds end to end: what a client with device tokens is    *)
(* sent is a command addressed to it, published by an operator.  The ACL   *)
(* is consulted only at SUBSCRIBE and PUBLISH; the proof follows the       *)
(* permission from the claims of a handler through the registry, the copy  *)
(* of the matches a router holds, the offline rows and the wire.           *)
(***************************************************************************)

Routing(k) == pc[k] \in {"route", "send", "queue"}

Serving(k) == pc[k] \in {"send", "queue"}

\* What client c may be sent.
MayReceive(c, id) == DeviceOnly(c) => MatchTopic(CommandTopic(c), TopicOf[id])

\* A handler's claims are claims its client connects with.
ClaimsKnown ==
    \A k \in Conns : pc[k] \notin {"idle", "done"} => claims[k] \in ClaimsOf(client[k])

\* The registry holds for a device only its command topic.
SubsAllowed ==
    \A c \in ClientIds : DeviceOnly(c) =>
        \A f \in Filters : byClient[c][f] # Unsubscribed => f = CommandTopic(c)

\* A router serves clients that may receive its packet, on their own connections.
RoutesAllowed ==
    \A k \in Conns :
        /\ Routing(k) => \A m \in todo[k] : MayReceive(m.client, cur[k])
        /\ Serving(k) => MayReceive(target[k].client, cur[k])
        /\ pc[k] = "send" => client[tconn[k]] = target[k].client

\* Rows are queued, and read for replay, for clients that may receive them.
RowsAllowed ==
    /\ \A r \in offline : MayReceive(r.client, r.id)
    /\ \A k \in Conns : pc[k] = "replay" => \A r \in pend[k] : MayReceive(client[k], r.id)

\* So are packets sent, and nothing is sent before a connection has a client.
WireAllowed ==
    \A k \in Conns :
        /\ client[k] \in ClientIds => \A id \in OnWire(k) : MayReceive(client[k], id)
        /\ pc[k] = "idle" => OnWire(k) = {}

AccessInv == ClaimsKnown /\ SubsAllowed /\ RoutesAllowed /\ RowsAllowed /\ WireAllowed

-----------------------------------------------------------------------------
\* A device that may subscribe to a filter subscribes to its own command topic,
\* since authenticate ties the client id to the device of the token
\* (acl/service.go:38, server.go:171).
LEMMA DeviceSubscribesCommands ==
    ASSUME NEW c \in ClientIds, DeviceOnly(c), NEW cl \in ClaimsOf(c), NEW f,
           CanSubscribe(cl, f)
    PROVE  f = CommandTopic(c)
<1>1. cl.role = "device"
  BY Zenon DEF DeviceOnly
<1>2. cl.deviceId = c
  BY <1>1, Zenon DEF ClaimsOf, Accepts
<1> QED
  BY <1>1, <1>2, Zenon DEF CanSubscribe

\* The levels of a device's command topic.
LEMMA CommandLevels ==
    ASSUME NEW c \in ClientIds
    PROVE  /\ Len(c) \in Nat
           /\ CommandTopic(c) \in Seq(STRING)
           /\ Len(CommandTopic(c)) = Len(c) + 2
           /\ CommandTopic(c)[1] = "device"
           /\ \A i \in 1..Len(c) : CommandTopic(c)[i + 1] = c[i]
           /\ CommandTopic(c)[Len(c) + 2] = "command"
<1>1. c \in Seq(STRING)
  BY IdLevels, Zenon
<1>2. CommandTopic(c) \in Seq(STRING)
  <2>1. ASSUME NEW S, NEW x \in S PROVE <<x>> \in Seq(S)
    OBVIOUS
  <2>2. <<"device">> \in Seq(STRING) /\ <<"command">> \in Seq(STRING)
    <3>1. "device" \in STRING /\ "command" \in STRING
      BY IdLevels, Zenon
    <3> QED
      BY <2>1, <3>1, Zenon
  <2>3. ASSUME NEW S, NEW s \in Seq(S), NEW t \in Seq(S) PROVE s \o t \in Seq(S)
    OBVIOUS
  <2> QED
    BY <1>1, <2>2, <2>3, Zenon DEF CommandTopic
<1> QED
  BY <1>1, <1>2 DEF CommandTopic

\* A level of the command topic that is a wildcard is a level of the id.
LEMMA CommandWildcards ==
    ASSUME NEW c \in ClientIds, NEW w \in {"+", "#"}, ~HasLevel(c, w),
           NEW i \in 1..Len(CommandTopic(c))
    PROVE  CommandTopic(c)[i] # w
<1>1. CASE i = 1 \/ i = Len(c) + 2
  BY <1>1, CommandLevels
<1>2. CASE i # 1 /\ i # Len(c) + 2
  <2>1. i - 1 \in 1..Len(c) /\ (i - 1) + 1 = i
    BY <1>2, CommandLevels
  <2>2. CommandTopic(c)[(i - 1) + 1] = c[i - 1]
    BY <2>1, CommandLevels, Zenon
  <2>3. c[i - 1] # w
    BY <2>1, Zenon DEF HasLevel
  <2> QED
    BY <2>1, <2>2, <2>3
<1> QED
  BY <1>1, <1>2, Zenon

\* Without "#", a command topic as a filter matches topics of its own length, level by
\* level (helpers.go:40).
LEMMA CommandMatch ==
    ASSUME NEW c \in ClientIds, ~HasLevel(c, "#"), NEW t, MatchTopic(CommandTopic(c), t)
    PROVE  /\ Len(t) = Len(CommandTopic(c))
           /\ \A i \in 1..Len(t) : CommandTopic(c)[i] \in {"+", t[i]}
<1>1. \A i \in 1..Len(CommandTopic(c)) : CommandTopic(c)[i] # "#"
  BY CommandWildcards, Zenon
<1>2. /\ \A i \in 1..Len(CommandTopic(c)) : ~StopsAt(CommandTopic(c), t, i)
      /\ Len(t) = Len(CommandTopic(c))
  BY <1>1, Zenon DEF MatchTopic
<1> QED
  BY <1>2, Zenon DEF StopsAt

\* With no wildcard at all it matches itself only.
LEMMA CommandMatchesItself ==
    ASSUME NEW c \in ClientIds, ~HasLevel(c, "+"), ~HasLevel(c, "#"),
           NEW t \in Seq(STRING), MatchTopic(CommandTopic(c), t)
    PROVE  t = CommandTopic(c)
<1> DEFINE f == CommandTopic(c)
<1>1. f \in Seq(STRING) /\ Len(t) = Len(f)
  BY CommandLevels, CommandMatch, Zenon
<1>2. \A i \in 1..Len(f) : f[i] # "+"
  BY CommandWildcards, Zenon
<1>3. \A i \in 1..Len(t) : t[i] = f[i]
  BY <1>1, <1>2, CommandMatch, Zenon
<1> HIDE DEF f
<1>4. t = f
  BY <1>1, <1>3
<1> QED
  BY <1>4 DEF f

\* A match for a device is for a packet its command topic matches.
LEMMA MatchAllowed ==
    ASSUME SubsAllowed, NEW id \in PacketIds
    PROVE  \A m \in Match(TopicOf[id]) : MayReceive(m.client, id)
<1> SUFFICES ASSUME NEW m \in Match(TopicOf[id]), DeviceOnly(m.client)
             PROVE  MatchTopic(CommandTopic(m.client), TopicOf[id])
  BY Zenon DEF MayReceive
<1>1. PICK c \in ClientIds, f \in Filters :
         /\ m = [client |-> c, filter |-> f, qos |-> byClient[c][f]]
         /\ byClient[c][f] # Unsubscribed /\ MatchTopic(f, TopicOf[id])
  BY Zenon DEF Match
<1>2. m.client = c /\ f = CommandTopic(c)
  BY <1>1, Zenon DEF SubsAllowed
<1> QED
  BY <1>1, <1>2, Zenon

\* Nobody is connected, nothing subscribed, queued or sent at first.
LEMMA AccessInit == Init => AccessInv
<1> SUFFICES ASSUME Init PROVE AccessInv
  OBVIOUS
<1>1. ClaimsKnown /\ SubsAllowed /\ RoutesAllowed /\ RowsAllowed
  BY Zenon DEF Init, NoHandler, ClaimsKnown, SubsAllowed, RoutesAllowed, RowsAllowed, NoRegistry,
      NoSubs, Routing, Serving
<1>2. WireAllowed
  BY DEF Init, NoHandler, WireAllowed, OnWire
<1> QED
  BY <1>1, <1>2, Zenon DEF AccessInv

\* A step that grants nothing: no new subscription, match, row or packet.
LEMMA AccessFrame ==
    ASSUME AccessInv, UNCHANGED <<byClient, client, claims>>, offline' \subseteq offline,
           \A j \in Conns : OnWire(j)' \subseteq OnWire(j),
           \A j \in Conns :
               /\ pc'[j] \notin {"idle", "done"} => pc[j] \notin {"idle", "done"}
               /\ pc'[j] = "idle" => pc[j] = "idle"
               /\ pc'[j] = "replay" => pc[j] = "replay" /\ pend'[j] \subseteq pend[j]
               /\ Routing(j)' => Routing(j) /\ cur'[j] = cur[j] /\ todo'[j] \subseteq todo[j]
               /\ Serving(j)' => Serving(j) /\ cur'[j] = cur[j] /\ target'[j] = target[j]
               /\ pc'[j] = "send" => pc[j] = "send" /\ tconn'[j] = tconn[j]
                                     /\ target'[j] = target[j]
    PROVE  AccessInv'
<1>1. ClaimsKnown' /\ SubsAllowed'
  BY Zenon DEF AccessInv, ClaimsKnown, SubsAllowed
<1>2. RoutesAllowed'
  BY Zenon DEF AccessInv, RoutesAllowed
<1>3. RowsAllowed'
  BY Zenon DEF AccessInv, RowsAllowed
<1>4. WireAllowed'
  BY Zenon DEF AccessInv, WireAllowed
<1> QED
  BY <1>1, <1>2, <1>3, <1>4, Zenon DEF AccessInv

\* Every step passes permissions on and makes none up.
LEMMA AccessStep == TypeInv /\ SessionInv /\ AccessInv /\ [Next]_vars => AccessInv'
<1> SUFFICES ASSUME TypeInv, SessionInv, AccessInv, [Next]_vars PROVE AccessInv'
  OBVIOUS
<1> USE QttAssumption DEF TypeInv, TypeOK
<1>1. CASE UNCHANGED vars
  BY <1>1, AccessFrame, Zenon DEF vars, memory, database, identity, routing, transport, history,
      OnWire, Routing, Serving
<1>2. CASE Restart
  <2>1. ClaimsKnown' /\ SubsAllowed' /\ RoutesAllowed'
    BY <1>2, Zenon DEF Restart, NoHandler, ClaimsKnown, SubsAllowed, RoutesAllowed, TypeHandlers,
        NoRegistry, NoSubs, Routing, Serving
  <2>2. RowsAllowed'
    BY <1>2, Zenon DEF Restart, NoHandler, database, RowsAllowed, AccessInv
  <2>3. WireAllowed'
    BY <1>2 DEF Restart, NoHandler, WireAllowed, OnWire
  <2> QED
    BY <2>1, <2>2, <2>3, Zenon DEF AccessInv
<1>3. ASSUME NEW k \in Conns, HandlerStep(k) PROVE AccessInv'
  <2> USE DEF memory, database, identity, routing, transport, history
  <2>1. CASE AuthFail(k)
    BY <2>1, AccessFrame, Zenon DEF AuthFail, Goto, TypeHandlers, OnWire, Routing, Serving
  <2>2. CASE Authenticate(k)
    <3>1. PICK p \in ConnectOf[k] :
             /\ Accepts(p)
             /\ client' = [client EXCEPT ![k] = RequestedId(p)]
             /\ claims' = [claims EXCEPT ![k] = p.token.claims]
      BY <2>2, Zenon DEF Authenticate
    <3>2. p.token.claims \in ClaimsOf(RequestedId(p))
      BY <3>1, Zenon DEF ClaimsOf
    <3>3. /\ pc[k] = "idle" /\ client[k] = NoId /\ OnWire(k) = {}
          /\ UNCHANGED <<byClient, offline, wire, pend, cur, todo, target, tconn>>
          /\ pc' = [pc EXCEPT ![k] = "connack"]
      BY <2>2, Zenon DEF Authenticate, Goto, HandlerHolds, AccessInv, WireAllowed
    <3>4. ClaimsKnown'
      BY <3>1, <3>2, <3>3, Zenon DEF AccessInv, ClaimsKnown, TypeHandlers
    <3>5. SubsAllowed'
      BY <3>3, Zenon DEF AccessInv, SubsAllowed
    <3>6. RoutesAllowed'
      <4>1. \A j \in Conns : Serving(j) => target[j].client \in ClientIds
        BY Zenon DEF HandlerHolds, Matches, Serving
      <4>2. \A j \in Conns : pc[j] = "send" => tconn[j] # k
        BY <3>3, <4>1, Zenon DEF AccessInv, RoutesAllowed, Serving
      <4>3. \A j \in Conns : pc[j] = "send" => client'[tconn[j]] = client[tconn[j]]
        BY <3>1, <4>2, Zenon DEF HandlerHolds, TypeHandlers
      <4> QED
        BY <3>3, <4>3, Zenon DEF AccessInv, RoutesAllowed, TypeHandlers, Routing, Serving
    <3>7. RowsAllowed'
      BY <3>1, <3>3, Zenon DEF AccessInv, RowsAllowed, TypeHandlers
    <3>8. WireAllowed'
      <4>1. \A j \in Conns : OnWire(j)' = OnWire(j)
        BY <3>3, Zenon DEF OnWire
      <4> QED
        BY <3>1, <3>3, <4>1 DEF AccessInv, WireAllowed, TypeHandlers
    <3> QED
      BY <3>4, <3>5, <3>6, <3>7, <3>8, Zenon DEF AccessInv
  <2>3. CASE ConnAck(k)
    <3>0. ConnAckPacket \in Packets /\ ConnAckPacket.type # "PUBLISH"
      BY Zenon DEF ConnAckPacket, Packets
    <3>a. SendOk(k, ConnAckPacket) /\ wire \in [Conns -> Seq(Packets)]
      BY <2>3, Zenon DEF ConnAck, TypeTransport
    <3>1. \A j \in Conns : OnWire(j)' \subseteq OnWire(j)
      BY <3>0, <3>a, WireSend, Zenon
    <3> QED
      BY <2>3, <3>1, AccessFrame, Zenon DEF ConnAck, Goto, TypeHandlers, Routing, Serving
  <2>4. CASE ConnAckFail(k)
    <3>1. \A j \in Conns : OnWire(j)' \subseteq OnWire(j)
      BY <2>4, WireClose, Zenon DEF ConnAckFail, CloseConn, TypeTransport
    <3> QED
      BY <2>4, <3>1, AccessFrame, Zenon DEF ConnAckFail, Goto, CloseConn, TypeHandlers,
          Routing, Serving
  <2>5. CASE Pending(k)
    <3>1. \A r \in pend'[k] : r \in offline /\ r.client = client[k]
      BY <2>5 DEF Pending, GetOfflineMessages, TypeHandlers
    <3>2. /\ UNCHANGED <<byClient, offline, wire, client, claims, cur, todo, target, tconn>>
          /\ \A j \in Conns \ {k} : pc'[j] = pc[j] /\ pend'[j] = pend[j]
          /\ pc[k] = "pending" /\ pc'[k] \in {"loop", "replay"}
      BY <2>5, Zenon DEF Pending, Goto, TypeHandlers
    <3>3. RowsAllowed'
      BY <3>1, <3>2, Zenon DEF AccessInv, RowsAllowed
    <3>w. \A j \in Conns : OnWire(j)' = OnWire(j)
      BY <3>2, Zenon DEF OnWire
    <3>4. ClaimsKnown' /\ SubsAllowed' /\ RoutesAllowed' /\ WireAllowed'
      <4>1. ClaimsKnown'
        BY <3>2, Zenon DEF AccessInv, ClaimsKnown
      <4>2. SubsAllowed'
        BY <3>2, Zenon DEF AccessInv, SubsAllowed
      <4>3. RoutesAllowed'
        BY <3>2, Zenon DEF AccessInv, RoutesAllowed, Routing, Serving
      <4>4. WireAllowed'
        <5> SUFFICES ASSUME NEW j \in Conns
                     PROVE  /\ client[j] \in ClientIds =>
                                  \A id \in OnWire(j)' : MayReceive(client[j], id)
                            /\ pc'[j] = "idle" => OnWire(j)' = {}
          BY <3>2, Zenon DEF WireAllowed
        <5>1. OnWire(j)' = OnWire(j) /\ (pc'[j] = "idle" => pc[j] = "idle")
          BY <3>2, <3>w, Zenon
        <5> QED
          BY <5>1, Zenon DEF AccessInv, WireAllowed
      <4> QED
        BY <4>1, <4>2, <4>3, <4>4, Zenon
    <3> QED
      BY <3>3, <3>4, Zenon DEF AccessInv
  <2>6. CASE Replay(k)
    <3>1. PICK r \in pend[k] : /\ SendOk(k, PublishPacket(r.id, r.qos))
                               /\ pend' = [pend EXCEPT ![k] = @ \ {r}]
      BY <2>6, Zenon DEF Replay, Oldest
    <3>2. r \in OfflineRow /\ MayReceive(client[k], r.id) /\ pc[k] # "idle"
      BY <2>6, Zenon DEF Replay, TypeHandlers, AccessInv, RowsAllowed
    <3>3. PublishPacket(r.id, r.qos) \in Packets
      BY <3>2, Zenon DEF PublishPacket, Packets, OfflineRow
    <3>4. \A j \in Conns : \A id \in OnWire(j)' : id \in OnWire(j) \/ (j = k /\ id = r.id)
      BY <3>1, <3>3, WireSend DEF PublishPacket, TypeTransport
    <3>5. /\ UNCHANGED <<byClient, offline, client, claims, cur, todo, target, tconn>>
          /\ \A j \in Conns \ {k} : pc'[j] = pc[j]
          /\ \A j \in Conns : pend'[j] \subseteq pend[j]
          /\ pc[k] = "replay" /\ pc'[k] \in {"loop", "replay"}
      BY <2>6, <3>1, Zenon DEF Replay, Goto, TypeHandlers
    <3>6. WireAllowed'
      BY <3>2, <3>4, <3>5, Zenon DEF AccessInv, WireAllowed
    <3>7. ClaimsKnown' /\ SubsAllowed' /\ RoutesAllowed' /\ RowsAllowed'
      BY <3>5, Zenon DEF AccessInv, ClaimsKnown, SubsAllowed, RoutesAllowed, RowsAllowed,
          Routing, Serving
    <3> QED
      BY <3>6, <3>7, Zenon DEF AccessInv
  <2>7. CASE ReplayFail(k)
    BY <2>7, AccessFrame, Zenon DEF ReplayFail, Goto, SendErr, TypeHandlers, OnWire, Routing,
        Serving
  <2>8. CASE Subscribe(k)
    <3>1. PICK new \in Subscribes[client[k]] :
             /\ \A f \in DOMAIN new : CanSubscribe(claims[k], f)
             /\ Add(client[k], new)
      BY <2>8, Zenon DEF Subscribe
    <3>2. client[k] \in ClientIds /\ claims[k] \in ClaimsOf(client[k])
      BY <2>8, Zenon DEF Subscribe, Receiving, HandlerHolds, AccessInv, ClaimsKnown
    <3>3. DeviceOnly(client[k]) => \A f \in DOMAIN new : f = CommandTopic(client[k])
      BY <3>1, <3>2, DeviceSubscribesCommands, Zenon
    <3>4. SubsAllowed'
      BY <3>1, <3>2, <3>3, Zenon DEF AccessInv, SubsAllowed, Add, Replace, TypeStores
    <3>5. /\ UNCHANGED <<offline, wire, client, claims, pend, cur, todo, target, tconn>>
          /\ \A j \in Conns \ {k} : pc'[j] = pc[j]
          /\ pc[k] = "loop" /\ pc'[k] = "subscribe"
      BY <2>8, Zenon DEF Subscribe, Receiving, Goto, TypeHandlers
    <3>w. \A j \in Conns : OnWire(j)' = OnWire(j)
      BY <3>5, Zenon DEF OnWire
    <3>6. ClaimsKnown' /\ RoutesAllowed' /\ RowsAllowed' /\ WireAllowed'
      <4>1. ClaimsKnown'
        BY <3>5, Zenon DEF AccessInv, ClaimsKnown
      <4>2. RoutesAllowed'
        BY <3>5, Zenon DEF AccessInv, RoutesAllowed, Routing, Serving
      <4>3. RowsAllowed'
        BY <3>5, Zenon DEF AccessInv, RowsAllowed
      <4>4. WireAllowed'
        BY <3>5, <3>w DEF AccessInv, WireAllowed
      <4> QED
        BY <4>1, <4>2, <4>3, <4>4, Zenon
    <3> QED
      BY <3>4, <3>6, Zenon DEF AccessInv
  <2>9. CASE SubscribeSession(k)
    BY <2>9, AccessFrame, Zenon DEF SubscribeSession, Goto, TypeHandlers, OnWire, Routing, Serving
  <2>10. CASE Publish(k)
    <3>1. UNCHANGED <<byClient, offline, wire, client, claims, pend, todo, target, tconn>>
      BY <2>10, Zenon DEF Publish
    <3>2. /\ \A j \in Conns \ {k} : pc'[j] = pc[j] /\ cur'[j] = cur[j]
          /\ pc[k] = "loop" /\ pc'[k] \in {"loop", "match"}
      BY <2>10, Zenon DEF Publish, Goto, Receiving, TypeHandlers
    <3>3. \A j \in Conns : OnWire(j)' = OnWire(j)
      BY <3>1, Zenon DEF OnWire
    <3> QED
      BY <3>1, <3>2, <3>3, AccessFrame, Zenon DEF Routing, Serving
  <2>11. CASE RouteMatch(k)
    <3>1. cur[k] \in PacketIds
      BY <2>11, Zenon DEF RouteMatch, HandlerHolds
    <3>2. \A m \in Match(TopicOf[cur[k]]) : MayReceive(m.client, cur[k])
      BY <3>1, MatchAllowed, Zenon DEF AccessInv
    <3>3. /\ UNCHANGED <<byClient, offline, wire, client, claims, pend, cur, target, tconn>>
          /\ \A j \in Conns \ {k} : pc'[j] = pc[j] /\ todo'[j] = todo[j]
          /\ pc[k] = "match" /\ pc'[k] = "route" /\ todo'[k] = Match(TopicOf[cur[k]])
      BY <2>11, Zenon DEF RouteMatch, Goto, TypeHandlers
    <3>4. RoutesAllowed'
      BY <3>2, <3>3 DEF AccessInv, RoutesAllowed, Routing, Serving
    <3>w. \A j \in Conns : OnWire(j)' = OnWire(j)
      BY <3>3, Zenon DEF OnWire
    <3>5. ClaimsKnown' /\ SubsAllowed' /\ RowsAllowed' /\ WireAllowed'
      <4>1. ClaimsKnown'
        BY <3>3, Zenon DEF AccessInv, ClaimsKnown
      <4>2. SubsAllowed'
        BY <3>3, Zenon DEF AccessInv, SubsAllowed
      <4>3. RowsAllowed'
        BY <3>3, Zenon DEF AccessInv, RowsAllowed
      <4>4. WireAllowed'
        BY <3>3, <3>w DEF AccessInv, WireAllowed
      <4> QED
        BY <4>1, <4>2, <4>3, <4>4, Zenon
    <3> QED
      BY <3>4, <3>5, Zenon DEF AccessInv
  <2>12. CASE RouteNext(k)
    <3>1. PICK m \in todo[k] :
             /\ todo' = [todo EXCEPT ![k] = @ \ {m}]
             /\ \/ UNCHANGED <<pc, target, tconn>>
                \/ /\ pc' = [pc EXCEPT ![k] =
                              IF sessions[m.client].online /\ sessions[m.client].conn # NoConn
                              THEN "send" ELSE "queue"]
                   /\ target' = [target EXCEPT ![k] = m]
                   /\ tconn' = [tconn EXCEPT ![k] = sessions[m.client].conn]
      BY <2>12, Zenon DEF RouteNext, Goto
    <3>a. pc[k] = "route"
      BY <2>12, Zenon DEF RouteNext
    <3>b. m \in Matches
      BY Zenon DEF TypeHandlers
    <3>c. m.client \in ClientIds
      BY <3>b, Zenon DEF Matches
    <3>d. MayReceive(m.client, cur[k])
      BY <3>a, Zenon DEF AccessInv, RoutesAllowed, Routing
    <3>2. /\ pc[k] = "route" /\ m.client \in ClientIds /\ MayReceive(m.client, cur[k])
      BY <3>a, <3>c, <3>d, Zenon
    <3>3. sessions[m.client].conn # NoConn => client[sessions[m.client].conn] = m.client
      BY <3>2, Zenon DEF SessionInv, SessionOwnsConn
    <3>4. UNCHANGED <<byClient, offline, wire, client, claims, pend, cur>>
      BY <2>12, Zenon DEF RouteNext
    <3>5. /\ \A j \in Conns \ {k} : /\ pc'[j] = pc[j] /\ todo'[j] = todo[j]
                                     /\ target'[j] = target[j] /\ tconn'[j] = tconn[j]
          /\ pc'[k] \in {"route", "send", "queue"} /\ todo'[k] \subseteq todo[k]
      BY <3>1, <3>2 DEF TypeHandlers
    <3>6. /\ pc'[k] \in {"send", "queue"} => target'[k] = m
          /\ pc'[k] = "send" => client[tconn'[k]] = m.client
      BY <3>1, <3>2, <3>3, Zenon DEF TypeHandlers
    <3>7. RoutesAllowed'
      <4>1. ASSUME NEW j \in Conns, j # k
            PROVE  /\ Routing(j)' => \A x \in todo'[j] : MayReceive(x.client, cur[j])
                   /\ Serving(j)' => MayReceive(target'[j].client, cur[j])
                   /\ pc'[j] = "send" => client[tconn'[j]] = target'[j].client
        <5>1. /\ pc'[j] = pc[j] /\ todo'[j] = todo[j] /\ target'[j] = target[j]
              /\ tconn'[j] = tconn[j]
          BY <3>5, <4>1, Zenon
        <5> QED
          BY <5>1, Zenon DEF AccessInv, RoutesAllowed, Routing, Serving
      <4>2. \A x \in todo'[k] : MayReceive(x.client, cur[k])
        BY <3>2, <3>5, Zenon DEF AccessInv, RoutesAllowed, Routing
      <4>3. /\ Serving(k)' => MayReceive(target'[k].client, cur[k])
            /\ pc'[k] = "send" => client[tconn'[k]] = target'[k].client
        BY <3>2, <3>6, Zenon DEF Serving
      <4>4. ASSUME NEW j \in Conns
            PROVE  /\ Routing(j)' => \A x \in todo'[j] : MayReceive(x.client, cur[j])
                   /\ Serving(j)' => MayReceive(target'[j].client, cur[j])
                   /\ pc'[j] = "send" => client[tconn'[j]] = target'[j].client
        <5>1. CASE j = k
          BY <4>2, <4>3, <5>1, Zenon
        <5> QED
          BY <4>1, <5>1, Zenon
      <4> QED
        BY <3>4, <4>4, Zenon DEF RoutesAllowed
    <3>w. \A j \in Conns : OnWire(j)' = OnWire(j)
      BY <3>4, Zenon DEF OnWire
    <3>8. ClaimsKnown' /\ SubsAllowed' /\ RowsAllowed' /\ WireAllowed'
      <4>1. ClaimsKnown'
        BY <3>2, <3>4, <3>5, Zenon DEF AccessInv, ClaimsKnown
      <4>2. SubsAllowed'
        BY <3>2, <3>4, <3>5, Zenon DEF AccessInv, SubsAllowed
      <4>3. RowsAllowed'
        BY <3>2, <3>4, <3>5, Zenon DEF AccessInv, RowsAllowed
      <4>4. WireAllowed'
        <5> SUFFICES ASSUME NEW j \in Conns
                     PROVE  /\ client[j] \in ClientIds =>
                                  \A id \in OnWire(j)' : MayReceive(client[j], id)
                            /\ pc'[j] = "idle" => OnWire(j)' = {}
          BY <3>4, Zenon DEF WireAllowed
        <5>1. OnWire(j)' = OnWire(j) /\ (pc'[j] = "idle" => pc[j] = "idle")
          BY <3>5, <3>w, Zenon
        <5> QED
          BY <5>1, Zenon DEF AccessInv, WireAllowed
      <4> QED
        BY <4>1, <4>2, <4>3, <4>4, Zenon
    <3> QED
      BY <3>7, <3>8, Zenon DEF AccessInv
  <2>13. CASE RouteSend(k)
    <3>1. /\ pc[k] = "send" /\ cur[k] \in PacketIds
          /\ target[k] \in Matches /\ target[k].client \in ClientIds
          /\ tconn[k] \in Conns /\ client[tconn[k]] = target[k].client
          /\ MayReceive(target[k].client, cur[k])
      BY <2>13, Zenon DEF RouteSend, HandlerHolds, Matches, AccessInv, RoutesAllowed, Serving
    <3>2. PublishPacket(cur[k], OutboundQoS(cur[k], target[k])) \in Packets
      BY <3>1, OutboundType, Zenon DEF PublishPacket, Packets
    <3>a. /\ SendOk(tconn[k], PublishPacket(cur[k], OutboundQoS(cur[k], target[k])))
          /\ wire \in [Conns -> Seq(Packets)]
      BY <2>13, Zenon DEF RouteSend, TypeTransport
    <3>b. PublishPacket(cur[k], OutboundQoS(cur[k], target[k])).id = cur[k]
      BY Zenon DEF PublishPacket
    <3>3. \A j \in Conns : \A id \in OnWire(j)' :
             id \in OnWire(j) \/ (j = tconn[k] /\ id = cur[k])
      <4> DEFINE p == PublishPacket(cur[k], OutboundQoS(cur[k], target[k]))
      <4> HIDE DEF p
      <4>1. \A j \in Conns : \A id \in OnWire(j)' : id \in OnWire(j) \/ (j = tconn[k] /\ id = p.id)
        BY <3>1, <3>2, <3>a, WireSend, Zenon DEF p
      <4> QED
        BY <3>b, <4>1, Zenon DEF p
    <3>4. /\ UNCHANGED <<byClient, offline, client, claims, pend, cur, todo>>
          /\ \A j \in Conns \ {k} : /\ pc'[j] = pc[j] /\ target'[j] = target[j]
                                     /\ tconn'[j] = tconn[j]
          /\ pc'[k] = "route"
      BY <2>13, Zenon DEF RouteSend, Served, Goto, TypeHandlers
    <3>5. pc[tconn[k]] # "idle"
      BY <3>1, Zenon DEF HandlerHolds
    <3>6. WireAllowed'
      <4>1. \A j \in Conns : pc'[j] = "idle" => pc[j] = "idle" /\ j # tconn[k]
        BY <3>1, <3>4, <3>5, Zenon
      <4>2. \A j \in Conns : pc'[j] = "idle" => OnWire(j)' = {}
        BY <3>3, <4>1, Zenon DEF AccessInv, WireAllowed
      <4>3. ASSUME NEW j \in Conns, client[j] \in ClientIds, NEW id \in OnWire(j)'
            PROVE  MayReceive(client[j], id)
        BY <3>1, <3>3, <4>3, Zenon DEF AccessInv, WireAllowed
      <4> QED
        BY <3>4, <4>2, <4>3, Zenon DEF WireAllowed
    <3>7. ClaimsKnown' /\ SubsAllowed' /\ RoutesAllowed' /\ RowsAllowed'
      BY <3>1, <3>4, ZenonT(30) DEF AccessInv, ClaimsKnown, SubsAllowed, RoutesAllowed, RowsAllowed,
          Routing, Serving
    <3> QED
      BY <3>6, <3>7, Zenon DEF AccessInv
  <2>14. CASE RouteSendFail(k)
    <3>1. /\ UNCHANGED <<byClient, offline, wire, client, claims, pend, cur, todo>>
          /\ pc[k] = "send"
      BY <2>14, Zenon DEF RouteSendFail, SendErr
    <3>2. /\ \A j \in Conns \ {k} : /\ pc'[j] = pc[j] /\ target'[j] = target[j]
                                     /\ tconn'[j] = tconn[j]
          /\ pc'[k] = "route" \/ (pc'[k] = "queue" /\ target'[k] = target[k])
      BY <2>14, Zenon DEF RouteSendFail, Goto, Served, TypeHandlers
    <3>3. \A j \in Conns : OnWire(j)' = OnWire(j)
      BY <3>1, Zenon DEF OnWire
    <3> QED
      BY <3>1, <3>2, <3>3, AccessFrame, Zenon DEF Routing, Serving
  <2>15. CASE RouteQueue(k)
    <3>1. pc[k] = "queue" /\ MayReceive(target[k].client, cur[k])
      BY <2>15, Zenon DEF RouteQueue, AccessInv, RoutesAllowed, Serving
    <3>2. \A r \in offline' : r \in offline \/ (r.id = cur[k] /\ r.client = target[k].client)
      BY <2>15, EnqueueEffect, Zenon DEF RouteQueue
    <3>3. /\ UNCHANGED <<byClient, wire, client, claims, pend, cur, todo>>
          /\ \A j \in Conns \ {k} : /\ pc'[j] = pc[j] /\ target'[j] = target[j]
                                     /\ tconn'[j] = tconn[j]
          /\ pc'[k] = "route"
      BY <2>15, Zenon DEF RouteQueue, Served, Goto, TypeHandlers
    <3>4. RowsAllowed'
      BY <3>1, <3>2, <3>3, Zenon DEF AccessInv, RowsAllowed
    <3>w. \A j \in Conns : OnWire(j)' = OnWire(j)
      BY <3>1, <3>3, Zenon DEF OnWire
    <3>5. ClaimsKnown' /\ SubsAllowed' /\ RoutesAllowed' /\ WireAllowed'
      <4>1. ClaimsKnown'
        BY <3>1, <3>3, Zenon DEF AccessInv, ClaimsKnown
      <4>2. SubsAllowed'
        BY <3>1, <3>3, Zenon DEF AccessInv, SubsAllowed
      <4>3. RoutesAllowed'
        BY <3>1, <3>3, ZenonT(30) DEF AccessInv, RoutesAllowed, Routing, Serving
      <4>4. WireAllowed'
        BY <3>1, <3>3, <3>w DEF AccessInv, WireAllowed
      <4> QED
        BY <4>1, <4>2, <4>3, <4>4, Zenon
    <3> QED
      BY <3>4, <3>5, Zenon DEF AccessInv
  <2>16. CASE RouteQueueFail(k)
    BY <2>16, AccessFrame, Zenon DEF RouteQueueFail, Goto, ForgetPacket, TypeHandlers, OnWire,
        Routing, Serving
  <2>17. CASE PublishDone(k)
    BY <2>17, AccessFrame, Zenon DEF PublishDone, Goto, ForgetPacket, TypeHandlers, OnWire,
        Routing, Serving
  <2>18. CASE PubAck(k)
    <3>1. /\ UNCHANGED <<byClient, client, claims, offline, wire, pend, todo, target, tconn>>
          /\ \A j \in Conns \ {k} : pc'[j] = pc[j] /\ cur'[j] = cur[j]
          /\ pc[k] = "loop" /\ pc'[k] = "ack"
      BY <2>18, Zenon DEF PubAck, Receiving, Goto, TypeHandlers
    <3> QED
      BY <3>1, AccessFrame, Zenon DEF OnWire, Routing, Serving
  <2>19. CASE AckQueue(k)
    BY <2>19, AccessFrame, Zenon DEF AckQueue, Goto, ForgetPacket, DeleteOfflineMessage,
        TypeHandlers, OnWire, Routing, Serving
  <2>20. CASE RateLimitPubAck(k)
    BY <2>20, AccessFrame, Zenon DEF RateLimitPubAck, Receiving, TypeHandlers, OnWire, Routing,
        Serving
  <2>21. CASE ReplyFail(k)
    BY <2>21, AccessFrame, Zenon DEF ReplyFail, Receiving, SendErr, TypeHandlers, OnWire, Routing,
        Serving
  <2>22. CASE Leave(k)
    BY <2>22, AccessFrame, Zenon DEF Leave, Goto, TypeHandlers, OnWire, Routing, Serving
  <2>23. CASE Close(k)
    <3>1. \A j \in Conns : OnWire(j)' \subseteq OnWire(j)
      BY <2>23, WireClose, Zenon DEF Close, CloseConn, TypeTransport
    <3> QED
      BY <2>23, <3>1, AccessFrame, Zenon DEF Close, Goto, CloseConn, TypeHandlers,
          Routing, Serving
  <2> QED
    BY <1>3, <2>1, <2>2, <2>3, <2>4, <2>5, <2>6, <2>7, <2>8, <2>9, <2>10, <2>11, <2>12,
        <2>13, <2>14, <2>15, <2>16, <2>17, <2>18, <2>19, <2>20, <2>21, <2>22, <2>23, Zenon
    DEF HandlerStep
<1>4. ASSUME NEW k \in Conns, ClientStep(k) PROVE AccessInv'
  <2> USE DEF memory, database, identity, routing, transport, history
  <2>1. CASE ClientRead(k)
    <3>1. \A j \in Conns : OnWire(j)' \subseteq OnWire(j)
      BY <2>1, WireRead, Zenon DEF ClientRead, TypeTransport
    <3> QED
      BY <2>1, <3>1, AccessFrame, Zenon DEF ClientRead, TypeHandlers,
          Routing, Serving
  <2>2. CASE ClientGone(k)
    <3>1. \A j \in Conns : OnWire(j)' \subseteq OnWire(j)
      BY <2>2, WireClose, Zenon DEF ClientGone, TypeTransport
    <3> QED
      BY <2>2, <3>1, AccessFrame, Zenon DEF ClientGone, TypeHandlers,
          Routing, Serving
  <2> QED
    BY <1>4, <2>1, <2>2, Zenon DEF ClientStep
<1> QED
  BY <1>1, <1>2, <1>3, <1>4, Zenon DEF Next

\* A client that only connects with device tokens is sent nothing but commands
\* addressed to it, whatever its id, whatever other clients subscribe to and publish and
\* however their connections, its own and the broker come and go (router.go:41-82).
THEOREM DeviceIsolationAlways == Spec => []DeviceIsolation
<1>1. ASSUME TypeInv, AccessInv PROVE DeviceIsolation
  <2> SUFFICES ASSUME NEW k \in Conns, client[k] \in ClientIds, DeviceOnly(client[k]),
                      NEW id \in OnWire(k)
               PROVE  /\ MatchTopic(CommandTopic(client[k]), TopicOf[id])
                      /\ ~HasLevel(client[k], "+") /\ ~HasLevel(client[k], "#")
                           => TopicOf[id] = CommandTopic(client[k])
    BY Zenon DEF DeviceIsolation, DeviceClients
  <2>1. MatchTopic(CommandTopic(client[k]), TopicOf[id])
    BY <1>1, Zenon DEF AccessInv, WireAllowed, MayReceive
  <2>2. TopicOf[id] \in Seq(STRING)
    BY <1>1, OnWireType, QttAssumption, Zenon
  <2> QED
    BY <2>1, <2>2, CommandMatchesItself, Zenon
<1> QED
  BY TypeInit, TypeStep, SessionInit, SessionStep, AccessInit, AccessStep, <1>1, PTL DEF Spec

-----------------------------------------------------------------------------
\* The publisher of a stored message connects with claims that allow its topic.
AuthorAllowed ==
    \A id \in PacketIds : messages[id] # NoRow =>
        \E cl \in ClaimsOf(messages[id].publisher) : CanPublish(cl, TopicOf[id])

\* The table is empty at first.
LEMMA AuthorInit == Init => AuthorAllowed
BY Zenon DEF Init, AuthorAllowed

\* handlePublish asks the ACL before it saves, and nothing changes a publisher.
LEMMA AuthorStep == TypeInv /\ AccessInv /\ AuthorAllowed /\ [Next]_vars => AuthorAllowed'
<1> SUFFICES ASSUME TypeInv, AccessInv, AuthorAllowed, [Next]_vars PROVE AuthorAllowed'
  OBVIOUS
<1> USE QttAssumption DEF TypeInv, TypeOK
<1>1. CASE UNCHANGED messages
  BY <1>1, Zenon DEF AuthorAllowed
<1>2. ASSUME NEW k \in Conns, Publish(k) PROVE AuthorAllowed'
  <2>1. client[k] \in ClientIds /\ claims[k] \in ClaimsOf(client[k])
    BY <1>2, Zenon DEF Publish, Receiving, HandlerHolds, AccessInv, ClaimsKnown
  <2>2. PICK id \in PacketIds : CanPublish(claims[k], TopicOf[id]) /\ SaveMessage(id, client[k])
    BY <1>2, <2>1, BrokerAssumption, Zenon DEF Publish
  <2>3. /\ messages[id] = NoRow => messages'[id].publisher = client[k]
        /\ \A i \in PacketIds : messages[i] # NoRow => messages'[i] = messages[i]
        /\ \A i \in PacketIds \ {id} : messages'[i] = messages[i]
    BY <2>1, <2>2, SaveMessageEffect, Zenon DEF TypeStores
  <2> QED
    BY <2>1, <2>2, <2>3, Zenon DEF AuthorAllowed
<1>3. ASSUME NEW k \in Conns, PubAck(k) PROVE AuthorAllowed'
  <2>1. PICK id \in acks[k] : MarkMessageAcknowledged(id) \/ UNCHANGED messages
    BY <1>3, Zenon DEF PubAck
  <2>2. CASE MarkMessageAcknowledged(id)
    <3>1. id \in PacketIds
      BY Zenon DEF TypeTransport
    <3>2. \A i \in PacketIds : /\ messages[i] = NoRow <=> messages'[i] = NoRow
                               /\ messages'[i].publisher = messages[i].publisher
      BY <2>2, <3>1, MarkMessageEffect, Zenon DEF TypeStores
    <3> QED
      BY <3>2, Zenon DEF AuthorAllowed
  <2> QED
    BY <1>1, <2>1, <2>2, Zenon
<1> QED
  BY <1>1, <1>2, <1>3, MessagesFrame, Zenon

\* Every packet a device is sent was published by a client that connects with an
\* admin token: a device may not publish command topics, its own included
\* (acl/service.go:17-36, server.go:239). Ids may have any levels but "#".
THEOREM DevicesObeyAdminsAlways == Spec => []DevicesObeyAdmins
<1>1. ASSUME TypeInv, StoreInv, AccessInv, AuthorAllowed PROVE DevicesObeyAdmins
  <2> SUFFICES ASSUME NEW k \in Conns, client[k] \in ClientIds, DeviceOnly(client[k]),
                      ~HasLevel(client[k], "#"), NEW id \in OnWire(k)
               PROVE  \E cl \in ClaimsOf(messages[id].publisher) : cl.role = "admin"
    BY Zenon DEF DevicesObeyAdmins, DeviceClients
  <2>1. id \in PacketIds
    BY <1>1, OnWireType, Zenon
  <2>2. messages[id] # NoRow /\ MatchTopic(CommandTopic(client[k]), TopicOf[id])
    BY <1>1, Zenon DEF StoreInv, StoredBeforeRouted, AccessInv, WireAllowed, MayReceive
  <2>3. PICK cl \in ClaimsOf(messages[id].publisher) : CanPublish(cl, TopicOf[id])
    BY <1>1, <2>1, <2>2, Zenon DEF AuthorAllowed
  <2>4. TopicOf[id][Len(TopicOf[id])] = "command"
    <3> DEFINE c == client[k]
               n == Len(TopicOf[id])
    <3>1. /\ n = Len(c) + 2 /\ n \in 1..n
          /\ CommandTopic(c)[n] = "command"
      BY <2>2, CommandMatch, CommandLevels
    <3>2. CommandTopic(c)[n] \in {"+", TopicOf[id][n]}
      BY <2>2, <3>1, CommandMatch, Zenon
    <3> QED
      BY <3>1, <3>2
  <2> QED
    BY <2>3, <2>4, Zenon DEF CanPublish
<1> QED
  BY TypeInit, TypeStep, SessionInit, SessionStep, StoreInit, StoreStep, AccessInit,
      AccessStep, AuthorInit, AuthorStep, <1>1, PTL DEF Spec
=============================================================================
