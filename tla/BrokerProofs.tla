---------------------------- MODULE BrokerProofs ----------------------------
(***************************************************************************)
(* Proofs about the broker, for every set of clients, connections, packets *)
(* and filters that satisfies the assumptions of Qtt and Broker: the types,*)
(* and what holds between handlers, sessions and the registry.  Each       *)
(* property is proved from the types (TypeInv), which are inductive by     *)
(* themselves, and an inductive invariant of its own.                      *)
(***************************************************************************)
EXTENDS Broker, TLAPS

-----------------------------------------------------------------------------
(***************************************************************************)
(* What one operation of the session store, the registry or the tables     *)
(* does to its store.                                                      *)
(***************************************************************************)

\* Replacing entries keeps a subscription map a subscription map (registry.go:32),
\* and what is subscribed afterwards was so before or is in the request.
LEMMA ReplaceType ==
    ASSUME NEW old \in SubMap, NEW new \in SubRequests
    PROVE  /\ Replace(old, new) \in SubMap
           /\ \A f \in Filters : Replace(old, new)[f] = Unsubscribed
                                     <=> old[f] = Unsubscribed /\ f \notin DOMAIN new
<1>1. PICK fs \in (SUBSET Filters) \ {{}} : new \in [fs -> QoS]
  BY Zenon DEF SubRequests
<1> QED
  BY <1>1 DEF Replace, SubMap, QoS, Unsubscribed

\* What the registry returns are matches of existing subscriptions (registry.go:57).
LEMMA MatchType ==
    ASSUME NEW topic, byClient \in [ClientIds -> SubMap]
    PROVE  /\ Match(topic) \in SUBSET Matches
           /\ \A m \in Match(topic) : /\ byClient[m.client][m.filter] # Unsubscribed
                                      /\ MatchTopic(m.filter, topic)
BY DEF Match, Matches, SubMap, Unsubscribed, QoS

\* UpsertConnected makes the session of c online on k and keeps its subscriptions
\* (session/store.go:35).
LEMMA UpsertConnectedEffect ==
    ASSUME sessions \in [ClientIds -> Session], NEW c \in ClientIds, NEW k \in Conns,
           UpsertConnected(c, k)
    PROVE  /\ sessions' \in [ClientIds -> Session]
           /\ sessions'[c].present /\ sessions'[c].online /\ sessions'[c].conn = k
           /\ sessions'[c].subs = sessions[c].subs
           /\ \A d \in ClientIds \ {c} : sessions'[d] = sessions[d]
BY Zenon DEF UpsertConnected, Session

\* AddSubscriptions changes the subscriptions of an existing session of c and
\* nothing else (session/store.go:54).
LEMMA AddSubscriptionsEffect ==
    ASSUME sessions \in [ClientIds -> Session], NEW c \in ClientIds, NEW new \in SubRequests,
           AddSubscriptions(c, new)
    PROVE  /\ sessions' \in [ClientIds -> Session]
           /\ sessions'[c].present = sessions[c].present
           /\ sessions'[c].online = sessions[c].online
           /\ sessions'[c].conn = sessions[c].conn
           /\ sessions'[c].subs = IF sessions[c].present
                                  THEN Replace(sessions[c].subs, new) ELSE sessions[c].subs
           /\ \A d \in ClientIds \ {c} : sessions'[d] = sessions[d]
<1>1. Replace(sessions[c].subs, new) \in SubMap
  BY ReplaceType, Zenon DEF Session
<1>2. CASE sessions[c].present
  <2>1. sessions' = [sessions EXCEPT ![c] = [sessions[c] EXCEPT !.subs = Replace(@, new)]]
    BY <1>2, Zenon DEF AddSubscriptions
  <2>2. sessions'[c] = [sessions[c] EXCEPT !.subs = Replace(@, new)]
    BY <2>1, Zenon
  <2>3. sessions[c] \in Session
    OBVIOUS
  <2>4. /\ sessions'[c] \in Session
        /\ sessions'[c].present = sessions[c].present
        /\ sessions'[c].online = sessions[c].online
        /\ sessions'[c].conn = sessions[c].conn
        /\ sessions'[c].subs = Replace(sessions[c].subs, new)
    BY <2>2, <2>3, <1>1, Zenon DEF Session
  <2> QED
    BY <1>2, <2>1, <2>4, Zenon
<1>3. CASE ~sessions[c].present
  BY <1>3, Zenon DEF AddSubscriptions
<1> QED
  BY <1>2, <1>3, Zenon

\* Disconnect makes an existing session of c offline, whoever calls it
\* (session/store.go:87).
LEMMA DisconnectEffect ==
    ASSUME sessions \in [ClientIds -> Session], NEW c \in ClientIds, Disconnect(c)
    PROVE  /\ sessions' \in [ClientIds -> Session]
           /\ sessions'[c].present = sessions[c].present
           /\ sessions[c].present => ~sessions'[c].online /\ sessions'[c].conn = NoConn
           /\ ~sessions[c].present => sessions'[c] = sessions[c]
           /\ sessions'[c].subs = sessions[c].subs
           /\ \A d \in ClientIds \ {c} : sessions'[d] = sessions[d]
<1>1. CASE sessions[c].present
  <2> DEFINE s == [sessions[c] EXCEPT !.online = FALSE, !.conn = NoConn]
  <2>1. sessions' = [sessions EXCEPT ![c] = s]
    BY <1>1, Zenon DEF Disconnect
  <2>2. sessions[c] \in Session
    OBVIOUS
  <2>3. /\ s \in Session /\ s.present = sessions[c].present
        /\ ~s.online /\ s.conn = NoConn /\ s.subs = sessions[c].subs
    BY <2>2, Zenon DEF Session
  <2> HIDE DEF s
  <2> QED
    BY <1>1, <2>1, <2>3, Zenon
<1>2. CASE ~sessions[c].present
  BY <1>2, Zenon DEF Disconnect
<1> QED
  BY <1>1, <1>2, Zenon

\* SaveMessage adds at most the row of id, published by c, and changes no row
\* that is there (api/db/store.go:189).
LEMMA SaveMessageEffect ==
    ASSUME messages \in [PacketIds -> MessageRow \cup {NoRow}], QttAssumption,
           NEW id \in PacketIds, NEW c \in ClientIds, SaveMessage(id, c)
    PROVE  /\ messages' \in [PacketIds -> MessageRow \cup {NoRow}]
           /\ messages'[id] # NoRow
           /\ messages[id] = NoRow => messages'[id].publisher = c
           /\ \A i \in PacketIds : messages[i] # NoRow => messages'[i] = messages[i]
           /\ \A i \in PacketIds \ {id} : messages'[i] = messages[i]
<1> DEFINE r == [state |-> IF QosOf[id] = 0 THEN "acked" ELSE "unacked", publisher |-> c]
<1>1. r \in MessageRow /\ r # NoRow /\ r.publisher = c
  BY Zenon DEF MessageRow, NoRow
<1>2. messages' = IF messages[id] = NoRow THEN [messages EXCEPT ![id] = r] ELSE messages
  BY Zenon DEF SaveMessage
<1> HIDE DEF r
<1> QED
  BY <1>1, <1>2, Zenon

\* MarkMessageAcknowledged changes the state of an existing row to acked and
\* nothing else (api/db/store.go:220).
LEMMA MarkMessageEffect ==
    ASSUME messages \in [PacketIds -> MessageRow \cup {NoRow}], QttAssumption,
           NEW id \in PacketIds, MarkMessageAcknowledged(id)
    PROVE  /\ messages' \in [PacketIds -> MessageRow \cup {NoRow}]
           /\ \A i \in PacketIds : /\ messages[i] = NoRow <=> messages'[i] = NoRow
                                   /\ messages'[i].publisher = messages[i].publisher
           /\ messages[id] # NoRow => messages'[id].state = "acked"
           /\ \A i \in PacketIds \ {id} : messages'[i] = messages[i]
<1>1. CASE messages[id] = NoRow
  BY <1>1, Zenon DEF MarkMessageAcknowledged
<1>2. CASE messages[id] # NoRow
  <2> DEFINE r == [messages[id] EXCEPT !.state = "acked"]
  <2>1. messages' = [messages EXCEPT ![id] = r]
    BY <1>2, Zenon DEF MarkMessageAcknowledged
  <2>2. messages[id] \in MessageRow
    BY <1>2, Zenon
  <2>3. /\ r \in MessageRow /\ r # NoRow
        /\ r.publisher = messages[id].publisher /\ r.state = "acked"
    BY <2>2, Zenon DEF MessageRow, NoRow
  <2> HIDE DEF r
  <2> QED
    BY <1>2, <2>1, <2>3, Zenon
<1> QED
  BY <1>1, <1>2, Zenon

\* Every row Enqueue adds is for the packet and the client it was given.
LEMMA EnqueueEffect ==
    ASSUME NEW id, NEW c, NEW qos, EnqueueOfflineMessage(id, c, qos)
    PROVE  \A r \in offline' : r \in offline \/ (r.id = id /\ r.client = c)
<1>1. CASE UNCHANGED offline
  BY <1>1, Zenon
<1>2. CASE offline' = offline \cup {[id |-> id, client |-> c, qos |-> qos, at |-> clock]}
  BY <1>2
<1> QED
  BY <1>1, <1>2, Zenon DEF EnqueueOfflineMessage

-----------------------------------------------------------------------------
(***************************************************************************)
(* Types                                                                   *)
(***************************************************************************)

\* The outbound QoS is a QoS (router.go:51-54).
LEMMA OutboundType ==
    ASSUME NEW id \in PacketIds, NEW m \in Matches
    PROVE  OutboundQoS(id, m) \in QoS
BY QttAssumption, Zenon DEF OutboundQoS, Matches, QoS

\* An accepted CONNECT packet names a client and carries claims (server.go:160-175).
LEMMA AuthenticateType ==
    ASSUME NEW k \in Conns, NEW p \in ConnectOf[k], Accepts(p)
    PROVE  /\ RequestedId(p) \in ClientIds
           /\ p.token.claims \in ClaimSet
BY BrokerAssumption, Zenon DEF Accepts, RequestedId, Tokens

\* A handler without a client has the zero Claims.
LEMMA NoClaimsType == NoClaims \in ClaimSet
<1>1. ASSUME NEW S, NEW x \in S PROVE <<x>> \in Seq(S)
  OBVIOUS
<1>2. NoId \in Seq(STRING) /\ NoRole \in STRING
  BY <1>1, IdLevels, Zenon DEF NoId, NoRole
<1> QED
  BY <1>2, Zenon DEF NoClaims, Claims, ClaimSet

\* The types and the handler facts they depend on.
TypeInv == TypeOK /\ HandlerHolds

\* Initially every variable has its type.
LEMMA TypeInit == Init => TypeInv
<1> SUFFICES ASSUME Init PROVE TypeInv
  OBVIOUS
<1> USE DEF Init, NoHandler
<1>1. TypeStores
  BY Zenon DEF TypeStores, NoSessions, NoRegistry, NoSubs, SubMap, Session, Unsubscribed
<1>2. TypeHandlers
  BY QttAssumption, NoClaimsType, Zenon DEF TypeHandlers, Labels
<1>3. TypeTransport
  BY DEF TypeTransport
<1>4. TypeHistory
  BY Zenon DEF TypeHistory
<1>5. HandlerHolds
  BY Zenon DEF HandlerHolds
<1> QED
  BY <1>1, <1>2, <1>3, <1>4, <1>5, Zenon DEF TypeInv, TypeOK

\* Every step of the broker, a client or a restart keeps the types.
LEMMA TypeStep == TypeInv /\ [Next]_vars => TypeInv'
<1> SUFFICES ASSUME TypeInv, [Next]_vars PROVE TypeInv'
  OBVIOUS
<1> USE QttAssumption DEF TypeInv, TypeOK
<1>1. CASE UNCHANGED vars
  BY <1>1, Zenon DEF vars, memory, database, identity, routing, transport, history,
      TypeStores, TypeHandlers, TypeTransport, TypeHistory, HandlerHolds
<1>2. CASE Restart
  <2> USE <1>2 DEF Restart, NoHandler, database, history
  <2>1. TypeStores'
    BY Zenon DEF TypeStores, NoSessions, NoRegistry, NoSubs, SubMap, Session, Unsubscribed
  <2>2. TypeHandlers'
    BY QttAssumption, NoClaimsType, Zenon DEF TypeHandlers, Labels
  <2>3. TypeTransport' /\ TypeHistory'
    BY DEF TypeTransport, TypeHistory
  <2>4. HandlerHolds'
    BY Zenon DEF HandlerHolds
  <2> QED
    BY <2>1, <2>2, <2>3, <2>4, Zenon
<1>3. ASSUME NEW k \in Conns, HandlerStep(k) PROVE TypeInv'
  <2> USE DEF memory, database, identity, routing, transport, history
  <2>1. CASE AuthFail(k)
    <3> USE <2>1 DEF AuthFail, Goto
    <3>1. TypeStores' /\ TypeTransport' /\ TypeHistory'
      BY Zenon DEF TypeStores, TypeTransport, TypeHistory
    <3>2. TypeHandlers'
      BY Zenon DEF TypeHandlers, Labels
    <3>3. HandlerHolds'
      BY Zenon DEF HandlerHolds, TypeHandlers
    <3> QED
      BY <3>1, <3>2, <3>3, Zenon
  <2>2. CASE Authenticate(k)
    <3> USE <2>2 DEF Authenticate, Goto
    <3>1. PICK p \in ConnectOf[k] :
              /\ Accepts(p)
              /\ client' = [client EXCEPT ![k] = RequestedId(p)]
              /\ claims' = [claims EXCEPT ![k] = p.token.claims]
              /\ present' = [present EXCEPT ![k] = sessions[RequestedId(p)].present]
              /\ UpsertConnected(RequestedId(p), k)
      OBVIOUS
    <3>2. /\ RequestedId(p) \in ClientIds
          /\ p.token.claims \in ClaimSet
      BY <3>1, AuthenticateType, Zenon
    <3>3. TypeTransport' /\ TypeHistory'
      BY Zenon DEF TypeTransport, TypeHistory
    <3>4. TypeStores'
      BY <3>1, <3>2, UpsertConnectedEffect, Zenon DEF TypeStores
    <3>5. sessions[RequestedId(p)].present \in BOOLEAN
      BY <3>2, Zenon DEF TypeStores, Session
    <3>6. TypeHandlers'
      BY <3>1, <3>2, <3>5, Zenon DEF TypeHandlers, Labels
    <3>7. HandlerHolds'
      BY <3>1, <3>2 DEF HandlerHolds, TypeHandlers
    <3> QED
      BY <3>3, <3>4, <3>6, <3>7, Zenon
  <2>3. CASE ConnAck(k)
    <3> USE <2>3 DEF ConnAck, Goto, SendOk
    <3>1. TypeStores' /\ TypeHistory'
      BY Zenon DEF TypeStores, TypeHistory
    <3>2. TypeHandlers'
      BY Zenon DEF TypeHandlers, Labels
    <3>3. TypeTransport'
      BY DEF TypeTransport, ConnAckPacket, Packets
    <3>4. HandlerHolds'
      BY Zenon DEF HandlerHolds, TypeHandlers
    <3> QED
      BY <3>1, <3>2, <3>3, <3>4, Zenon
  <2>4. CASE ConnAckFail(k)
    <3> USE <2>4 DEF ConnAckFail, Goto, CloseConn
    <3>1. TypeStores' /\ TypeHistory'
      BY Zenon DEF TypeStores, TypeHistory
    <3>2. TypeHandlers'
      BY Zenon DEF TypeHandlers, Labels
    <3>3. TypeTransport'
      BY DEF TypeTransport
    <3>4. HandlerHolds'
      BY Zenon DEF HandlerHolds, TypeHandlers
    <3> QED
      BY <3>1, <3>2, <3>3, <3>4, Zenon
  <2>5. CASE Pending(k)
    <3> USE <2>5 DEF Pending, Goto, GetOfflineMessages
    <3>1. TypeStores' /\ TypeTransport' /\ TypeHistory'
      BY Zenon DEF TypeStores, TypeTransport, TypeHistory
    <3>2. TypeHandlers'
      BY DEF TypeHandlers, Labels, TypeStores
    <3>3. HandlerHolds'
      BY DEF HandlerHolds, TypeHandlers
    <3> QED
      BY <3>1, <3>2, <3>3, Zenon
  <2>6. CASE Replay(k)
    <3> USE <2>6 DEF Replay, Goto, SendOk, Oldest
    <3>1. TypeStores' /\ TypeHistory'
      BY Zenon DEF TypeStores, TypeHistory
    <3>2. TypeHandlers'
      BY DEF TypeHandlers, Labels
    <3>3. TypeTransport'
      BY DEF TypeTransport, TypeHandlers, PublishPacket, Packets, OfflineRow
    <3>4. HandlerHolds'
      BY DEF HandlerHolds, TypeHandlers
    <3> QED
      BY <3>1, <3>2, <3>3, <3>4, Zenon
  <2>7. CASE ReplayFail(k)
    <3> USE <2>7 DEF ReplayFail, Goto, SendErr
    <3>1. TypeStores' /\ TypeHistory'
      BY Zenon DEF TypeStores, TypeHistory
    <3>2. TypeHandlers'
      BY Zenon DEF TypeHandlers, Labels
    <3>3. TypeTransport'
      BY Zenon DEF TypeTransport
    <3>4. HandlerHolds'
      BY Zenon DEF HandlerHolds, TypeHandlers
    <3> QED
      BY <3>1, <3>2, <3>3, <3>4, Zenon
  <2>8. CASE Subscribe(k)
    <3> USE <2>8 DEF Subscribe, Goto, Receiving
    <3>1. client[k] \in ClientIds
      BY Zenon DEF HandlerHolds
    <3>2. PICK new \in SubRequests : /\ Add(client[k], new)
                                     /\ newsubs' = [newsubs EXCEPT ![k] = new]
      BY <3>1, BrokerAssumption, Zenon
    <3>3. TypeTransport' /\ TypeHistory'
      BY Zenon DEF TypeTransport, TypeHistory
    <3>4. TypeStores'
      BY <3>1, <3>2, ReplaceType, Zenon DEF TypeStores, Add
    <3>5. TypeHandlers'
      BY <3>2, Zenon DEF TypeHandlers, Labels
    <3>6. HandlerHolds'
      BY <3>2, Zenon DEF HandlerHolds, TypeHandlers
    <3> QED
      BY <3>3, <3>4, <3>5, <3>6, Zenon
  <2>9. CASE SubscribeSession(k)
    <3> USE <2>9 DEF SubscribeSession, Goto
    <3>1. client[k] \in ClientIds /\ newsubs[k] \in SubRequests
      BY Zenon DEF HandlerHolds
    <3>2. sessions' \in [ClientIds -> Session]
      BY <3>1, AddSubscriptionsEffect, Zenon DEF TypeStores
    <3>3. TypeStores' /\ TypeTransport' /\ TypeHistory'
      BY <3>2, Zenon DEF TypeStores, TypeTransport, TypeHistory
    <3>4. TypeHandlers'
      BY Zenon DEF TypeHandlers, Labels
    <3>5. HandlerHolds'
      BY Zenon DEF HandlerHolds, TypeHandlers
    <3> QED
      BY <3>3, <3>4, <3>5, Zenon
  <2>10. CASE Publish(k)
    <3> USE <2>10 DEF Publish, Goto, Receiving
    <3>1. client[k] \in ClientIds
      BY Zenon DEF HandlerHolds
    <3>2. PICK id \in PacketIds : /\ SaveMessage(id, client[k])
                                  /\ cur' = [cur EXCEPT ![k] = id]
                                  /\ published' = [published EXCEPT ![id] = @ + 1]
      BY <3>1, BrokerAssumption, Zenon
    <3>3. TypeTransport'
      BY Zenon DEF TypeTransport
    <3>4. TypeStores'
      BY <3>1, <3>2, SaveMessageEffect, Zenon DEF TypeStores
    <3>5. TypeHandlers'
      BY <3>2, Zenon DEF TypeHandlers, Labels
    <3>6. TypeHistory'
      BY <3>2 DEF TypeHistory
    <3>7. HandlerHolds'
      BY <3>2, Zenon DEF HandlerHolds, TypeHandlers
    <3> QED
      BY <3>3, <3>4, <3>5, <3>6, <3>7, Zenon
  <2>11. CASE RouteMatch(k)
    <3> USE <2>11 DEF RouteMatch, Goto
    <3>1. TypeStores' /\ TypeTransport' /\ TypeHistory'
      BY Zenon DEF TypeStores, TypeTransport, TypeHistory
    <3>2. TypeHandlers'
      BY MatchType, Zenon DEF TypeHandlers, Labels, TypeStores
    <3>3. HandlerHolds'
      BY Zenon DEF HandlerHolds, TypeHandlers
    <3> QED
      BY <3>1, <3>2, <3>3, Zenon
  <2>12. CASE RouteNext(k)
    <3>0. UNCHANGED <<memory, database, identity, pend, cur, newsubs, transport,
                      published, history>>
      BY <2>12, Zenon DEF RouteNext
    <3>1. PICK m \in todo[k] :
              /\ todo' = [todo EXCEPT ![k] = @ \ {m}]
              /\ \/ /\ sessions[m.client].conn # NoConn /\ pc' = [pc EXCEPT ![k] = "send"]
                    /\ target' = [target EXCEPT ![k] = m]
                    /\ tconn' = [tconn EXCEPT ![k] = sessions[m.client].conn]
                 \/ /\ pc' = [pc EXCEPT ![k] = "queue"]
                    /\ target' = [target EXCEPT ![k] = m]
                    /\ tconn' = [tconn EXCEPT ![k] = sessions[m.client].conn]
                 \/ UNCHANGED <<pc, target, tconn>>
      BY <2>12, Zenon DEF RouteNext, Goto
    <3>2. m \in Matches
      BY Zenon DEF TypeHandlers
    <3>3. sessions[m.client].conn \in Conns \cup {NoConn}
      BY <3>2, Zenon DEF TypeStores, Session, Matches
    <3>4. TypeStores' /\ TypeTransport' /\ TypeHistory'
      BY <3>0, Zenon DEF TypeStores, TypeTransport, TypeHistory
    <3>5. TypeHandlers'
      <4>1. todo' \in [Conns -> SUBSET Matches]
        BY <3>1, Zenon DEF TypeHandlers
      <4>2. target' \in [Conns -> Matches \cup {NoTarget}]
        BY <3>1, <3>2, Zenon DEF TypeHandlers
      <4>3. tconn' \in [Conns -> Conns \cup {NoConn}]
        BY <3>1, <3>3, Zenon DEF TypeHandlers
      <4>4. pc' \in [Conns -> Labels]
        BY <3>1, Zenon DEF TypeHandlers, Labels
      <4> QED
        BY <3>0, <4>1, <4>2, <4>3, <4>4, Zenon DEF TypeHandlers
    <3>6. HandlerHolds'
      <4>1. pc[k] = "route" /\ client[k] \in ClientIds /\ cur[k] \in PacketIds
        BY <2>12, Zenon DEF RouteNext, HandlerHolds
      <4>2. /\ pc'[k] \in {"route", "send", "queue"}
            /\ pc'[k] \in {"send", "queue"} => target'[k] = m
            /\ pc'[k] = "send" => tconn'[k] \in Conns
        BY <3>1, <3>3, <4>1, Zenon DEF TypeHandlers
      <4>3. \A j \in Conns \ {k} : pc'[j] = pc[j] /\ target'[j] = target[j] /\ tconn'[j] = tconn[j]
        BY <3>1, Zenon DEF TypeHandlers
      <4>4. client' = client /\ cur' = cur /\ newsubs' = newsubs
        BY <3>0, Zenon
      <4> QED
        BY <3>2, <4>1, <4>2, <4>3, <4>4, Zenon DEF HandlerHolds
    <3> QED
      BY <3>4, <3>5, <3>6, Zenon
  <2>13. CASE RouteSend(k)
    <3> USE <2>13 DEF RouteSend, Goto, Served, SendOk
    <3>1. TypeStores' /\ TypeHistory'
      BY Zenon DEF TypeStores, TypeHistory
    <3>2. TypeHandlers'
      BY Zenon DEF TypeHandlers, Labels
    <3>3. TypeTransport'
      BY OutboundType DEF TypeTransport, TypeHandlers, HandlerHolds, PublishPacket, Packets
    <3>4. HandlerHolds'
      BY Zenon DEF HandlerHolds, TypeHandlers
    <3> QED
      BY <3>1, <3>2, <3>3, <3>4, Zenon
  <2>14. CASE RouteSendFail(k)
    <3> USE <2>14 DEF RouteSendFail, Goto, Served
    <3>1. TypeStores' /\ TypeHistory'
      BY Zenon DEF TypeStores, TypeHistory
    <3>2. TypeHandlers'
      BY ZenonT(30) DEF TypeHandlers, Labels
    <3>3. TypeTransport'
      BY Zenon DEF TypeTransport, SendErr
    <3>4. CASE Served(k)
      BY <3>1, <3>2, <3>3, <3>4, Zenon DEF HandlerHolds, TypeHandlers
    <3>5. CASE Goto(k, "queue") /\ UNCHANGED <<target, tconn>>
      BY <3>1, <3>2, <3>3, <3>5, Zenon DEF HandlerHolds, TypeHandlers
    <3> QED
      BY <3>4, <3>5, Zenon
  <2>15. CASE RouteQueue(k)
    <3> USE <2>15 DEF RouteQueue, Goto, Served, EnqueueOfflineMessage
    <3>1. TypeTransport'
      BY Zenon DEF TypeTransport
    <3>2. TypeStores'
      BY OutboundType DEF TypeStores, TypeHandlers, HandlerHolds, OfflineRow, Matches
    <3>3. TypeHandlers'
      BY Zenon DEF TypeHandlers, Labels
    <3>4. TypeHistory'
      <4>1. cur[k] \in PacketIds /\ target[k].client \in ClientIds
        BY Zenon DEF HandlerHolds, Matches
      <4> QED
        BY <4>1 DEF TypeHistory
    <3>5. HandlerHolds'
      BY Zenon DEF HandlerHolds, TypeHandlers
    <3> QED
      BY <3>1, <3>2, <3>3, <3>4, <3>5, Zenon
  <2>16. CASE RouteQueueFail(k)
    <3> USE <2>16 DEF RouteQueueFail, Goto, ForgetPacket
    <3>1. TypeStores' /\ TypeTransport' /\ TypeHistory'
      BY Zenon DEF TypeStores, TypeTransport, TypeHistory
    <3>2. TypeHandlers'
      BY Zenon DEF TypeHandlers, Labels
    <3>3. HandlerHolds'
      BY Zenon DEF HandlerHolds, TypeHandlers
    <3> QED
      BY <3>1, <3>2, <3>3, Zenon
  <2>17. CASE PublishDone(k)
    <3> USE <2>17 DEF PublishDone, Goto, ForgetPacket
    <3>1. TypeStores' /\ TypeTransport'
      BY Zenon DEF TypeStores, TypeTransport
    <3>2. TypeHandlers'
      BY Zenon DEF TypeHandlers, Labels
    <3>3. TypeHistory'
      BY Zenon DEF TypeHistory, HandlerHolds
    <3>4. HandlerHolds'
      BY Zenon DEF HandlerHolds, TypeHandlers
    <3> QED
      BY <3>1, <3>2, <3>3, <3>4, Zenon
  <2>18. CASE PubAck(k)
    <3> USE <2>18 DEF PubAck, Goto, Receiving
    <3>1. PICK id \in acks[k] :
              /\ MarkMessageAcknowledged(id) \/ UNCHANGED messages
              /\ acks' = [acks EXCEPT ![k] = @ \ {id}]
              /\ cur' = [cur EXCEPT ![k] = id]
              /\ ackSeen' = ackSeen \cup {<<id, client[k]>>}
      OBVIOUS
    <3>2. id \in PacketIds /\ client[k] \in ClientIds
      BY Zenon DEF TypeTransport, HandlerHolds
    <3>3. messages' \in [PacketIds -> MessageRow \cup {NoRow}]
      BY <3>1, <3>2, MarkMessageEffect, Zenon DEF TypeStores
    <3>4. TypeStores'
      BY <3>3, Zenon DEF TypeStores
    <3>5. TypeHandlers'
      BY <3>1, <3>2, Zenon DEF TypeHandlers, Labels
    <3>6. TypeTransport'
      BY <3>1, Zenon DEF TypeTransport
    <3>7. TypeHistory'
      BY <3>1, <3>2 DEF TypeHistory
    <3>8. HandlerHolds'
      BY <3>1, <3>2, Zenon DEF HandlerHolds, TypeHandlers
    <3> QED
      BY <3>4, <3>5, <3>6, <3>7, <3>8, Zenon
  <2>19. CASE AckQueue(k)
    <3> USE <2>19 DEF AckQueue, Goto, ForgetPacket, DeleteOfflineMessage
    <3>1. TypeTransport'
      BY Zenon DEF TypeTransport
    <3>2. TypeStores'
      BY Zenon DEF TypeStores
    <3>3. TypeHandlers'
      BY Zenon DEF TypeHandlers, Labels
    <3>4. TypeHistory'
      BY Zenon DEF TypeHistory
    <3>5. HandlerHolds'
      BY Zenon DEF HandlerHolds, TypeHandlers
    <3> QED
      BY <3>1, <3>2, <3>3, <3>4, <3>5, Zenon
  <2>20. CASE RateLimitPubAck(k)
    <3> USE <2>20 DEF RateLimitPubAck, Receiving
    <3>1. TypeStores' /\ TypeHandlers' /\ TypeHistory' /\ HandlerHolds'
      BY Zenon DEF TypeStores, TypeHandlers, TypeHistory, HandlerHolds
    <3>2. TypeTransport'
      BY DEF TypeTransport
    <3> QED
      BY <3>1, <3>2, Zenon
  <2>21. CASE ReplyFail(k)
    <3> USE <2>21 DEF ReplyFail, Receiving, SendErr
    <3>1. TypeStores' /\ TypeHandlers' /\ TypeHistory' /\ HandlerHolds'
      BY Zenon DEF TypeStores, TypeHandlers, TypeHistory, HandlerHolds
    <3>2. TypeTransport'
      BY Zenon DEF TypeTransport
    <3> QED
      BY <3>1, <3>2, Zenon
  <2>22. CASE Leave(k)
    <3> USE <2>22 DEF Leave, Goto
    <3>1. client[k] \in ClientIds
      BY Zenon DEF HandlerHolds
    <3>2. sessions' \in [ClientIds -> Session]
      BY <3>1, DisconnectEffect, Zenon DEF TypeStores
    <3>3. TypeStores' /\ TypeTransport' /\ TypeHistory'
      BY <3>2, Zenon DEF TypeStores, TypeTransport, TypeHistory
    <3>4. TypeHandlers'
      BY Zenon DEF TypeHandlers, Labels
    <3>5. HandlerHolds'
      BY Zenon DEF HandlerHolds, TypeHandlers
    <3> QED
      BY <3>3, <3>4, <3>5, Zenon
  <2>23. CASE Close(k)
    <3> USE <2>23 DEF Close, Goto, CloseConn
    <3>1. TypeStores' /\ TypeHistory'
      BY Zenon DEF TypeStores, TypeHistory
    <3>2. TypeHandlers'
      BY Zenon DEF TypeHandlers, Labels
    <3>3. TypeTransport'
      BY DEF TypeTransport
    <3>4. HandlerHolds'
      BY Zenon DEF HandlerHolds, TypeHandlers
    <3> QED
      BY <3>1, <3>2, <3>3, <3>4, Zenon
  <2> QED
    BY <1>3, <2>1, <2>2, <2>3, <2>4, <2>5, <2>6, <2>7, <2>8, <2>9, <2>10, <2>11, <2>12,
        <2>13, <2>14, <2>15, <2>16, <2>17, <2>18, <2>19, <2>20, <2>21, <2>22, <2>23, Zenon
    DEF HandlerStep
<1>4. ASSUME NEW k \in Conns, ClientStep(k) PROVE TypeInv'
  <2> USE DEF memory, database, identity, routing, transport, history
  <2>1. CASE ClientRead(k)
    <3> USE <2>1 DEF ClientRead
    <3>1. TypeStores' /\ TypeHandlers' /\ TypeHistory' /\ HandlerHolds'
      BY Zenon DEF TypeStores, TypeHandlers, TypeHistory, HandlerHolds
    <3>2. wire[k] \in Seq(Packets) /\ wire[k] # <<>>
      BY Zenon DEF TypeTransport
    <3>3. Head(wire[k]) \in Packets /\ Tail(wire[k]) \in Seq(Packets)
      BY <3>2
    <3>4. Head(wire[k]).qos > 0 => Head(wire[k]).id \in PacketIds
      BY <3>3 DEF Packets, ConnAckPacket
    <3>5. TypeTransport'
      BY <3>3, <3>4, Zenon DEF TypeTransport
    <3> QED
      BY <3>1, <3>5, Zenon
  <2>2. CASE ClientGone(k)
    <3> USE <2>2 DEF ClientGone
    <3>1. TypeStores' /\ TypeHandlers' /\ TypeHistory' /\ HandlerHolds'
      BY Zenon DEF TypeStores, TypeHandlers, TypeHistory, HandlerHolds
    <3>2. TypeTransport'
      BY DEF TypeTransport
    <3> QED
      BY <3>1, <3>2, Zenon
  <2> QED
    BY <1>4, <2>1, <2>2, Zenon DEF ClientStep
<1> QED
  BY <1>1, <1>2, <1>3, <1>4, Zenon DEF Next

\* Every variable keeps its type, whatever clients do and whenever the broker restarts.
THEOREM TypeCorrect == Spec => []TypeOK
<1>1. TypeInv => TypeOK
  BY Zenon DEF TypeInv
<1> QED
  BY TypeInit, TypeStep, <1>1, PTL DEF Spec

-----------------------------------------------------------------------------
(***************************************************************************)
(* Sessions                                                                *)
(***************************************************************************)

\* A handler that has authenticated finds a session of its client in the store.
HandlerHasSession ==
    \A k \in Conns : pc[k] \notin {"idle", "done"} => sessions[client[k]].present

SessionInv == HandlerHasSession /\ SessionOwnsConn /\ SubscribedHasSession

\* The stores are empty at first.
LEMMA SessionInit == Init => SessionInv
BY DEF Init, NoHandler, NoSessions, NoRegistry, SessionInv, HandlerHasSession,
    SessionOwnsConn, SubscribedHasSession

\* A step that leaves the stores and the identities alone and starts no handler.
LEMMA SessionFrame ==
    ASSUME SessionInv, UNCHANGED <<sessions, byClient, client>>,
           \A j \in Conns : pc'[j] \notin {"idle", "done"} => pc[j] \notin {"idle", "done"}
    PROVE  SessionInv'
BY Zenon DEF SessionInv, HandlerHasSession, SessionOwnsConn, SubscribedHasSession

\* Only connecting, subscribing and leaving touch a session or the registry.
LEMMA SessionStep == TypeInv /\ SessionInv /\ [Next]_vars => SessionInv'
<1> SUFFICES ASSUME TypeInv, SessionInv, [Next]_vars PROVE SessionInv'
  OBVIOUS
<1> USE QttAssumption DEF TypeInv, TypeOK
<1>1. CASE UNCHANGED vars
  BY <1>1, SessionFrame, Zenon DEF vars, memory, identity
<1>2. CASE Restart
  BY <1>2, Zenon DEF Restart, NoHandler, NoSessions, NoRegistry, SessionInv, HandlerHasSession,
      SessionOwnsConn, SubscribedHasSession, TypeHandlers
<1>3. ASSUME NEW k \in Conns, HandlerStep(k) PROVE SessionInv'
  <2> USE DEF memory, database, identity, routing, transport, history
  <2>1. CASE AuthFail(k)
    BY <2>1, SessionFrame, Zenon DEF AuthFail, Goto, TypeHandlers
  <2>2. CASE Authenticate(k)
    <3> USE <2>2 DEF Authenticate, Goto
    <3>1. PICK p \in ConnectOf[k] : /\ Accepts(p)
                                    /\ client' = [client EXCEPT ![k] = RequestedId(p)]
                                    /\ UpsertConnected(RequestedId(p), k)
      OBVIOUS
    <3> DEFINE c == RequestedId(p)
    <3>2. c \in ClientIds
      BY <3>1, AuthenticateType, Zenon
    <3>3. /\ sessions'[c].present /\ sessions'[c].online /\ sessions'[c].conn = k
          /\ \A d \in ClientIds \ {c} : sessions'[d] = sessions[d]
      BY <3>1, <3>2, UpsertConnectedEffect, Zenon DEF TypeStores
    <3>4. client'[k] = c /\ \A j \in Conns \ {k} : client'[j] = client[j] /\ pc'[j] = pc[j]
      BY <3>1, Zenon DEF TypeHandlers
    <3>5. client[k] = NoId
      BY Zenon DEF HandlerHolds
    <3> HIDE DEF c
    <3>6. HandlerHasSession'
      BY <3>2, <3>3, <3>4 DEF HandlerHasSession, SessionInv, HandlerHolds
    <3>7. SessionOwnsConn'
      BY <3>2, <3>3, <3>4, <3>5 DEF SessionOwnsConn, SessionInv, TypeStores, Session
    <3>8. SubscribedHasSession'
      BY <3>3, Zenon DEF SubscribedHasSession, SessionInv
    <3> QED
      BY <3>6, <3>7, <3>8, Zenon DEF SessionInv
  <2>3. CASE ConnAck(k)
    BY <2>3, SessionFrame, Zenon DEF ConnAck, Goto, SendOk, TypeHandlers
  <2>4. CASE ConnAckFail(k)
    BY <2>4, SessionFrame, Zenon DEF ConnAckFail, Goto, CloseConn, TypeHandlers
  <2>5. CASE Pending(k)
    BY <2>5, SessionFrame, Zenon DEF Pending, Goto, TypeHandlers
  <2>6. CASE Replay(k)
    BY <2>6, SessionFrame, Zenon DEF Replay, Goto, SendOk, TypeHandlers
  <2>7. CASE ReplayFail(k)
    BY <2>7, SessionFrame, Zenon DEF ReplayFail, Goto, SendErr, TypeHandlers
  <2>8. CASE Subscribe(k)
    <3> USE <2>8 DEF Subscribe, Goto, Receiving
    <3>1. client[k] \in ClientIds /\ sessions[client[k]].present
      BY Zenon DEF HandlerHolds, SessionInv, HandlerHasSession
    <3>2. \A d \in ClientIds \ {client[k]} : byClient'[d] = byClient[d]
      BY <3>1, Zenon DEF Add, TypeStores
    <3>3. \A j \in Conns : pc'[j] \notin {"idle", "done"} => pc[j] \notin {"idle", "done"}
      BY Zenon DEF TypeHandlers
    <3> QED
      BY <3>1, <3>2, <3>3, Zenon DEF SessionInv, HandlerHasSession, SessionOwnsConn,
          SubscribedHasSession
  <2>9. CASE SubscribeSession(k)
    <3> USE <2>9 DEF SubscribeSession, Goto
    <3>1. client[k] \in ClientIds /\ newsubs[k] \in SubRequests
      BY Zenon DEF HandlerHolds
    <3>2. \A d \in ClientIds : /\ sessions'[d].present = sessions[d].present
                               /\ sessions'[d].online = sessions[d].online
                               /\ sessions'[d].conn = sessions[d].conn
      BY <3>1, AddSubscriptionsEffect, Zenon DEF TypeStores
    <3>3. \A j \in Conns : pc'[j] \notin {"idle", "done"} => pc[j] \notin {"idle", "done"}
      BY Zenon DEF TypeHandlers
    <3>4. HandlerHasSession'
      BY <3>2, <3>3, Zenon DEF SessionInv, HandlerHasSession, HandlerHolds
    <3>5. SessionOwnsConn'
      BY <3>2, <3>3 DEF SessionInv, SessionOwnsConn, HandlerHolds
    <3>6. SubscribedHasSession'
      BY <3>2, Zenon DEF SessionInv, SubscribedHasSession, HandlerHolds
    <3> QED
      BY <3>4, <3>5, <3>6, Zenon DEF SessionInv
  <2>10. CASE Publish(k)
    BY <2>10, SessionFrame, Zenon DEF Publish, Goto, Receiving, TypeHandlers
  <2>11. CASE RouteMatch(k)
    BY <2>11, SessionFrame, Zenon DEF RouteMatch, Goto, TypeHandlers
  <2>12. CASE RouteNext(k)
    BY <2>12, SessionFrame DEF RouteNext, Goto, TypeHandlers
  <2>13. CASE RouteSend(k)
    BY <2>13, SessionFrame, Zenon DEF RouteSend, Goto, Served, SendOk, TypeHandlers
  <2>14. CASE RouteSendFail(k)
    BY <2>14, SessionFrame, Zenon DEF RouteSendFail, Goto, Served, SendErr, TypeHandlers
  <2>15. CASE RouteQueue(k)
    BY <2>15, SessionFrame, Zenon DEF RouteQueue, Goto, Served, TypeHandlers
  <2>16. CASE RouteQueueFail(k)
    BY <2>16, SessionFrame, Zenon DEF RouteQueueFail, Goto, ForgetPacket, TypeHandlers
  <2>17. CASE PublishDone(k)
    BY <2>17, SessionFrame, Zenon DEF PublishDone, Goto, ForgetPacket, TypeHandlers
  <2>18. CASE PubAck(k)
    BY <2>18, SessionFrame, Zenon DEF PubAck, Goto, Receiving, TypeHandlers
  <2>19. CASE AckQueue(k)
    BY <2>19, SessionFrame, Zenon DEF AckQueue, Goto, ForgetPacket, TypeHandlers
  <2>20. CASE RateLimitPubAck(k)
    BY <2>20, SessionFrame, Zenon DEF RateLimitPubAck, Receiving, TypeHandlers
  <2>21. CASE ReplyFail(k)
    BY <2>21, SessionFrame, Zenon DEF ReplyFail, Receiving, SendErr, TypeHandlers
  <2>22. CASE Leave(k)
    <3> USE <2>22 DEF Leave, Goto
    <3>1. client[k] \in ClientIds /\ sessions[client[k]].present
      BY Zenon DEF HandlerHolds, SessionInv, HandlerHasSession
    <3>2. /\ \A d \in ClientIds : sessions'[d].present = sessions[d].present
          /\ ~sessions'[client[k]].online /\ sessions'[client[k]].conn = NoConn
          /\ \A d \in ClientIds \ {client[k]} : sessions'[d] = sessions[d]
      BY <3>1, DisconnectEffect, Zenon DEF TypeStores
    <3>3. \A j \in Conns : pc'[j] \notin {"idle", "done"} => pc[j] \notin {"idle", "done"}
      BY Zenon DEF TypeHandlers
    <3>4. HandlerHasSession'
      BY <3>2, <3>3, Zenon DEF SessionInv, HandlerHasSession, HandlerHolds
    <3>5. SessionOwnsConn'
      BY <3>1, <3>2 DEF SessionInv, SessionOwnsConn
    <3>6. SubscribedHasSession'
      BY <3>2, Zenon DEF SessionInv, SubscribedHasSession
    <3> QED
      BY <3>4, <3>5, <3>6, Zenon DEF SessionInv
  <2>23. CASE Close(k)
    BY <2>23, SessionFrame, Zenon DEF Close, Goto, CloseConn, TypeHandlers
  <2> QED
    BY <1>3, <2>1, <2>2, <2>3, <2>4, <2>5, <2>6, <2>7, <2>8, <2>9, <2>10, <2>11, <2>12,
        <2>13, <2>14, <2>15, <2>16, <2>17, <2>18, <2>19, <2>20, <2>21, <2>22, <2>23, Zenon
    DEF HandlerStep
<1>4. ASSUME NEW k \in Conns, ClientStep(k) PROVE SessionInv'
  <2> USE DEF memory, database, identity, routing, transport, history
  <2>1. CASE ClientRead(k)
    BY <2>1, SessionFrame, Zenon DEF ClientRead, TypeHandlers
  <2>2. CASE ClientGone(k)
    BY <2>2, SessionFrame, Zenon DEF ClientGone, TypeHandlers
  <2> QED
    BY <1>4, <2>1, <2>2, Zenon DEF ClientStep
<1> QED
  BY <1>1, <1>2, <1>3, <1>4, Zenon DEF Next

\* A session names a connection of its own client, and only while it is online: the
\* router never writes to a connection of somebody else (session/store.go:35-96).
THEOREM SessionOwnsConnAlways == Spec => []SessionOwnsConn
<1>1. SessionInv => SessionOwnsConn
  BY Zenon DEF SessionInv
<1> QED
  BY TypeInit, TypeStep, SessionInit, SessionStep, <1>1, PTL DEF Spec

\* Whoever is subscribed has a session (router.go:47).
THEOREM SubscribedHasSessionAlways == Spec => []SubscribedHasSession
<1>1. SessionInv => SubscribedHasSession
  BY Zenon DEF SessionInv
<1> QED
  BY TypeInit, TypeStep, SessionInit, SessionStep, <1>1, PTL DEF Spec

-----------------------------------------------------------------------------
(***************************************************************************)
(* The registry and the session store agree                                *)
(***************************************************************************)

\* A filter of a session is in the registry.
SessionRegistered ==
    \A c \in ClientIds : \A f \in Filters :
        sessions[c].subs[f] # Unsubscribed => byClient[c][f] # Unsubscribed

\* A filter of the registry is in the session, or in a request whose handler is about
\* to tell the session store.
RegistryExplained ==
    \A c \in ClientIds : \A f \in Filters : byClient[c][f] # Unsubscribed =>
        \/ sessions[c].subs[f] # Unsubscribed
        \/ \E k \in Conns : client[k] = c /\ pc[k] = "subscribe" /\ f \in DOMAIN newsubs[k]

\* The request of such a handler is in the registry.
RequestRegistered ==
    \A k \in Conns : pc[k] = "subscribe" =>
        \A f \in DOMAIN newsubs[k] : byClient[client[k]][f] # Unsubscribed

AgreeInv == SessionRegistered /\ RegistryExplained /\ RequestRegistered

\* A request names filters.
LEMMA RequestFilters == ASSUME NEW new \in SubRequests PROVE DOMAIN new \subseteq Filters
<1>1. PICK fs \in (SUBSET Filters) \ {{}} : new \in [fs -> QoS]
  BY Zenon DEF SubRequests
<1> QED
  BY <1>1, Zenon

\* Both are empty at first.
LEMMA AgreeInit == Init => AgreeInv
BY DEF Init, NoHandler, NoSessions, NoRegistry, NoSubs, AgreeInv,
    SessionRegistered, RegistryExplained, RequestRegistered

\* A step that changes no filter, and lets no handler forget a request.
LEMMA AgreeFrame ==
    ASSUME AgreeInv, UNCHANGED byClient,
           \A c \in ClientIds : sessions'[c].subs = sessions[c].subs,
           \A j \in Conns : pc[j] = "subscribe" <=> pc'[j] = "subscribe",
           \A j \in Conns : pc[j] = "subscribe" =>
               newsubs'[j] = newsubs[j] /\ client'[j] = client[j]
    PROVE  AgreeInv'
BY DEF AgreeInv,
    SessionRegistered, RegistryExplained, RequestRegistered

\* What every step of a handler but three leaves alone.
LEMMA QuietStep ==
    ASSUME TypeInv, NEW k \in Conns, HandlerStep(k),
           ~Authenticate(k), ~Subscribe(k), ~SubscribeSession(k), ~Leave(k)
    PROVE  /\ UNCHANGED <<sessions, byClient, client, newsubs, claims, present>>
           /\ pc[k] \notin {"subscribe", "done"} /\ pc'[k] \notin {"connack", "idle", "subscribe"}
           /\ pc'[k] # "done" => pc[k] # "idle"
           /\ \A j \in Conns \ {k} : pc'[j] = pc[j]
<1> USE DEF TypeInv, TypeOK, TypeHandlers, memory, identity, routing
<1>1. CASE AuthFail(k) \/ ConnAck(k) \/ ConnAckFail(k) \/ Pending(k) \/ Replay(k)
               \/ ReplayFail(k)
  BY <1>1, Zenon DEF AuthFail, ConnAck, ConnAckFail, Pending, Replay, ReplayFail, Goto
<1>2. CASE Publish(k) \/ RouteMatch(k)
  BY <1>2, Zenon DEF Publish, Receiving, RouteMatch, Goto
<1>3. CASE RouteNext(k)
  <2>1. /\ UNCHANGED <<sessions, byClient, client, newsubs, claims, present>>
        /\ pc[k] = "route"
        /\ Goto(k, "send") \/ Goto(k, "queue") \/ UNCHANGED pc
    BY <1>3, Zenon DEF RouteNext
  <2>2. /\ pc'[k] \in {"send", "queue", "route"}
        /\ \A j \in Conns \ {k} : pc'[j] = pc[j]
    BY <2>1, Zenon DEF Goto
  <2> QED
    BY <2>1, <2>2, Zenon
<1>4. CASE RouteSend(k) \/ RouteSendFail(k) \/ RouteQueue(k)
  BY <1>4, Zenon DEF RouteSend, RouteSendFail, RouteQueue, Served, Goto
<1>5. CASE RouteQueueFail(k) \/ PublishDone(k) \/ PubAck(k) \/ AckQueue(k)
               \/ RateLimitPubAck(k) \/ ReplyFail(k) \/ Close(k)
  BY <1>5, Zenon DEF RouteQueueFail, PublishDone, PubAck, AckQueue, RateLimitPubAck, ReplyFail,
      Close, Receiving, ForgetPacket, Goto
<1> QED
  BY <1>1, <1>2, <1>3, <1>4, <1>5, Zenon DEF HandlerStep

\* handleSubscribe tells the registry first and the session store next.
LEMMA AgreeStep == TypeInv /\ SessionInv /\ AgreeInv /\ [Next]_vars => AgreeInv'
<1> SUFFICES ASSUME TypeInv, SessionInv, AgreeInv, [Next]_vars PROVE AgreeInv'
  OBVIOUS
<1> USE QttAssumption DEF TypeInv, TypeOK
<1>1. CASE UNCHANGED vars
  BY <1>1, AgreeFrame, Zenon DEF vars, memory, identity
<1>2. CASE Restart
  BY <1>2, Zenon DEF Restart, NoHandler, TypeHandlers, NoSessions, NoRegistry, NoSubs, AgreeInv,
    SessionRegistered, RegistryExplained, RequestRegistered
<1>3. ASSUME NEW k \in Conns, HandlerStep(k) PROVE AgreeInv'
  <2> USE DEF memory, database, identity, routing, transport, history
  <2>1. CASE Authenticate(k)
    <3>1. PICK p \in ConnectOf[k] : /\ Accepts(p)
                                    /\ client' = [client EXCEPT ![k] = RequestedId(p)]
                                    /\ UpsertConnected(RequestedId(p), k)
      BY <2>1, Zenon DEF Authenticate
    <3>2. RequestedId(p) \in ClientIds
      BY <3>1, AuthenticateType, Zenon
    <3>3. \A c \in ClientIds : sessions'[c].subs = sessions[c].subs
      BY <3>1, <3>2, UpsertConnectedEffect, Zenon DEF TypeStores
    <3>4. pc[k] = "idle" /\ pc'[k] = "connack" /\ UNCHANGED <<byClient, newsubs>>
            /\ \A j \in Conns \ {k} : pc'[j] = pc[j] /\ client'[j] = client[j]
      BY <2>1, <3>1, Zenon DEF Authenticate, Goto, TypeHandlers
    <3> QED
      BY <3>3, <3>4, AgreeFrame, Zenon
  <2>2. CASE Leave(k)
    <3>1. client[k] \in ClientIds
      BY <2>2, Zenon DEF Leave, HandlerHolds
    <3>2. \A c \in ClientIds : sessions'[c].subs = sessions[c].subs
      BY <2>2, <3>1, DisconnectEffect, Zenon DEF Leave, TypeStores
    <3> QED
      BY <2>2, <3>2, AgreeFrame, Zenon DEF Leave, Goto, TypeHandlers
  <2>3. CASE Subscribe(k)
    <3>1. client[k] \in ClientIds /\ pc[k] = "loop"
      BY <2>3, Zenon DEF Subscribe, Receiving, HandlerHolds
    <3>2. PICK new \in SubRequests : /\ Add(client[k], new)
                                     /\ newsubs' = [newsubs EXCEPT ![k] = new]
      BY <2>3, <3>1, BrokerAssumption, Zenon DEF Subscribe
    <3>3. \A f \in Filters : byClient'[client[k]][f] = Unsubscribed
                                <=> byClient[client[k]][f] = Unsubscribed /\ f \notin DOMAIN new
      BY <3>1, <3>2, ReplaceType DEF Add, TypeStores
    <3>4. \A c \in ClientIds \ {client[k]} : byClient'[c] = byClient[c]
      BY <3>1, <3>2, Zenon DEF Add, TypeStores
    <3>5. /\ UNCHANGED <<sessions, client>>
          /\ pc'[k] = "subscribe" /\ newsubs'[k] = new
          /\ \A j \in Conns \ {k} : pc'[j] = pc[j] /\ newsubs'[j] = newsubs[j]
      BY <2>3, <3>2, Zenon DEF Subscribe, Goto, TypeHandlers
    <3>6. DOMAIN new \subseteq Filters
      BY RequestFilters, Zenon
    <3>7. \A j \in Conns : pc[j] = "subscribe" =>
             client[j] \in ClientIds /\ DOMAIN newsubs[j] \subseteq Filters
      BY RequestFilters, Zenon DEF HandlerHolds
    <3>8. SessionRegistered'
      BY <3>1, <3>3, <3>4, <3>5 DEF AgreeInv, SessionRegistered
    <3>9. RegistryExplained'
      <4> SUFFICES ASSUME NEW c \in ClientIds, NEW f \in Filters,
                          byClient'[c][f] # Unsubscribed, sessions'[c].subs[f] = Unsubscribed
                   PROVE  \E j \in Conns : client'[j] = c /\ pc'[j] = "subscribe"
                                              /\ f \in DOMAIN newsubs'[j]
        BY Zenon DEF RegistryExplained
      <4>1. CASE byClient[c][f] # Unsubscribed
        <5>1. PICK j \in Conns :
                  client[j] = c /\ pc[j] = "subscribe" /\ f \in DOMAIN newsubs[j]
          BY <3>5, <4>1, Zenon DEF AgreeInv, RegistryExplained
        <5> QED
          BY <3>1, <3>5, <5>1, Zenon
      <4>2. CASE byClient[c][f] = Unsubscribed
        BY <3>3, <3>4, <3>5, <4>2, Zenon
      <4> QED
        BY <4>1, <4>2, Zenon
    <3>10. RequestRegistered'
      <4> SUFFICES ASSUME NEW j \in Conns, pc'[j] = "subscribe", NEW f \in DOMAIN newsubs'[j]
                   PROVE  byClient'[client[j]][f] # Unsubscribed
        BY <3>5, Zenon DEF RequestRegistered
      <4>1. CASE j = k
        BY <3>3, <3>5, <3>6, <4>1, Zenon
      <4>2. CASE j # k
        <5>1. /\ client[j] \in ClientIds /\ f \in Filters
              /\ byClient[client[j]][f] # Unsubscribed
          BY <3>5, <3>7, <4>2, Zenon DEF AgreeInv, RequestRegistered
        <5> QED
          BY <3>3, <3>4, <5>1, Zenon
      <4> QED
        BY <4>1, <4>2, Zenon
    <3> QED
      BY <3>8, <3>9, <3>10, Zenon DEF AgreeInv
  <2>4. CASE SubscribeSession(k)
    <3>1. client[k] \in ClientIds /\ newsubs[k] \in SubRequests /\ sessions[client[k]].present
      BY <2>4, Zenon DEF SubscribeSession, HandlerHolds, SessionInv, HandlerHasSession
    <3>2. /\ sessions'[client[k]].subs = Replace(sessions[client[k]].subs, newsubs[k])
          /\ \A c \in ClientIds \ {client[k]} : sessions'[c] = sessions[c]
      BY <2>4, <3>1, AddSubscriptionsEffect, Zenon DEF SubscribeSession, TypeStores
    <3>3. sessions[client[k]].subs \in SubMap
      BY <3>1, Zenon DEF TypeStores, Session
    <3>4. \A f \in Filters :
             sessions'[client[k]].subs[f] = Unsubscribed
                 <=> sessions[client[k]].subs[f] = Unsubscribed /\ f \notin DOMAIN newsubs[k]
      BY <3>1, <3>2, <3>3, ReplaceType
    <3>5. /\ UNCHANGED <<byClient, client>> /\ pc[k] = "subscribe" /\ pc'[k] = "loop"
          /\ \A j \in Conns \ {k} : pc'[j] = pc[j] /\ newsubs'[j] = newsubs[j]
      BY <2>4, Zenon DEF SubscribeSession, Goto, TypeHandlers
    <3>6. \A f \in DOMAIN newsubs[k] : byClient[client[k]][f] # Unsubscribed
      BY <3>5, Zenon DEF AgreeInv, RequestRegistered
    <3>7. SessionRegistered'
      BY <3>2, <3>4, <3>5, <3>6 DEF AgreeInv, SessionRegistered
    <3>8. RegistryExplained'
      <4> SUFFICES ASSUME NEW c \in ClientIds, NEW f \in Filters,
                          byClient'[c][f] # Unsubscribed, sessions'[c].subs[f] = Unsubscribed
                   PROVE  \E j \in Conns : client'[j] = c /\ pc'[j] = "subscribe"
                                              /\ f \in DOMAIN newsubs'[j]
        BY Zenon DEF RegistryExplained
      <4>1. sessions[c].subs[f] = Unsubscribed
        BY <3>2, <3>4, Zenon
      <4>2. PICK j \in Conns : client[j] = c /\ pc[j] = "subscribe" /\ f \in DOMAIN newsubs[j]
        BY <3>5, <4>1, Zenon DEF AgreeInv, RegistryExplained
      <4>3. j # k
        BY <3>4, <4>2, Zenon
      <4> QED
        BY <3>5, <4>2, <4>3, Zenon
    <3>9. RequestRegistered'
      BY <3>5, Zenon DEF AgreeInv, RequestRegistered
    <3> QED
      BY <3>7, <3>8, <3>9, Zenon DEF AgreeInv
  <2>5. CASE ~Authenticate(k) /\ ~Subscribe(k) /\ ~SubscribeSession(k) /\ ~Leave(k)
    BY <1>3, <2>5, QuietStep, AgreeFrame, Zenon
  <2> QED
    BY <2>1, <2>2, <2>3, <2>4, <2>5, Zenon
<1>4. ASSUME NEW k \in Conns, ClientStep(k) PROVE AgreeInv'
  BY <1>4, AgreeFrame, Zenon DEF ClientStep, ClientRead, ClientGone, memory, identity
<1> QED
  BY <1>1, <1>2, <1>3, <1>4, Zenon DEF Next

\* Whenever no connection of a client is between the two updates, registry and session
\* store hold the same filters for it (server.go:213-214).
THEOREM SubscriptionsAgreeAlways == Spec => []SubscriptionsAgree
<1>1. TypeInv /\ AgreeInv => SubscriptionsAgree
  BY DEF AgreeInv, SessionRegistered, RegistryExplained, SubscriptionsAgree
<1> QED
  BY TypeInit, TypeStep, SessionInit, SessionStep, AgreeInit, AgreeStep, <1>1, PTL DEF Spec

-----------------------------------------------------------------------------
(***************************************************************************)
(* A new client is sent CONNACK first                                      *)
(***************************************************************************)

\* The client of k had no session when k authenticated, and CONNACK is still to be sent.
Fresh(k) == pc[k] = "connack" /\ ~present[k]

\* Routers serve matches of clients that have a session.
MatchesHaveSession == \A j \in Conns : \A m \in todo[j] : sessions[m.client].present

\* A router sends to a connection that has authenticated.
SendsToConnected == \A j \in Conns : pc[j] = "send" => pc[tconn[j]] # "idle"

\* Nothing is on the wire of a connection that has not authenticated.
IdleIsEmpty == \A k \in Conns : pc[k] = "idle" => wire[k] = <<>>

\* Nothing is on the wire of a fresh connection, and no router is about to send to it.
FreshUntouched ==
    \A k \in Conns : Fresh(k) =>
        wire[k] = <<>> /\ \A j \in Conns : pc[j] = "send" => tconn[j] # k

\* While the session still names a fresh connection, its client has no subscription, no
\* router has a match for it, and no other connection serves it.
FreshAlone ==
    \A k \in Conns : Fresh(k) /\ sessions[client[k]].conn = k =>
        /\ byClient[client[k]] = NoSubs
        /\ \A j \in Conns : \A m \in todo[j] : m.client # client[k]
        /\ \A j \in Conns \ {k} : pc[j] \notin {"idle", "done"} => client[j] # client[k]

FreshInv ==
    MatchesHaveSession /\ SendsToConnected /\ IdleIsEmpty /\ FreshUntouched /\ FreshAlone

\* No connection has authenticated at first.
LEMMA FreshInit == Init => FreshInv
BY Zenon DEF Init, NoHandler, FreshInv, MatchesHaveSession, SendsToConnected, IdleIsEmpty,
    FreshUntouched, FreshAlone, Fresh

\* A step that authenticates nobody, matches nothing and starts no Send.
LEMMA FreshFrame ==
    ASSUME TypeInv, FreshInv, UNCHANGED <<byClient, client, present>>,
           \A c \in ClientIds : /\ sessions[c].present => sessions'[c].present
                                /\ sessions'[c].conn \in {sessions[c].conn, NoConn},
           \A j \in Conns : todo'[j] \subseteq todo[j],
           \A j \in Conns : pc'[j] \in {"idle", "connack"} => pc[j] = pc'[j],
           \A j \in Conns : pc'[j] \notin {"idle", "done"} => pc[j] \notin {"idle", "done"},
           \A j \in Conns : pc'[j] = "send" => pc[j] = "send" /\ tconn'[j] = tconn[j],
           \A j \in Conns : (pc[j] = "idle" \/ Fresh(j)) /\ pc'[j] = pc[j] /\ wire[j] = <<>>
                               => wire'[j] = <<>>
    PROVE  FreshInv'
<1> USE QttAssumption DEF TypeInv, TypeOK, FreshInv
<1>1. MatchesHaveSession'
  <2> SUFFICES ASSUME NEW j \in Conns, NEW m \in todo'[j] PROVE sessions'[m.client].present
    BY Zenon DEF MatchesHaveSession
  <2>1. m \in todo[j] /\ todo[j] \in SUBSET Matches
    BY Zenon DEF TypeHandlers
  <2>2. m.client \in ClientIds
    BY <2>1, Zenon DEF Matches
  <2> QED
    BY <2>1, <2>2, Zenon DEF MatchesHaveSession
<1>2. SendsToConnected'
  <2> SUFFICES ASSUME NEW j \in Conns, pc'[j] = "send" PROVE pc'[tconn'[j]] # "idle"
    BY Zenon DEF SendsToConnected
  <2>1. pc[j] = "send" /\ tconn'[j] = tconn[j]
    BY Zenon
  <2>2. tconn[j] \in Conns /\ pc[tconn[j]] # "idle"
    BY <2>1, Zenon DEF SendsToConnected, HandlerHolds
  <2> QED
    BY <2>1, <2>2, Zenon
<1>3. IdleIsEmpty'
  BY Zenon DEF IdleIsEmpty
<1>4. FreshUntouched'
  <2> SUFFICES ASSUME NEW k \in Conns, pc'[k] = "connack", ~present'[k]
               PROVE  /\ wire'[k] = <<>>
                      /\ \A j \in Conns : pc'[j] = "send" => tconn'[j] # k
    BY Zenon DEF FreshUntouched, Fresh
  <2>1. pc[k] = pc'[k] /\ Fresh(k)
    BY Zenon DEF Fresh
  <2>2. wire[k] = <<>> /\ \A j \in Conns : pc[j] = "send" => tconn[j] # k
    BY <2>1, Zenon DEF FreshUntouched
  <2>3. wire'[k] = <<>>
    BY <2>1, <2>2, Zenon
  <2>4. \A j \in Conns : pc'[j] = "send" => tconn'[j] # k
    BY <2>2, Zenon
  <2> QED
    BY <2>3, <2>4, Zenon
<1>5. FreshAlone'
  <2> SUFFICES ASSUME NEW k \in Conns, Fresh(k)', sessions'[client[k]].conn = k
               PROVE  /\ byClient[client[k]] = NoSubs
                      /\ \A j \in Conns : \A m \in todo'[j] : m.client # client[k]
                      /\ \A j \in Conns \ {k} :
                            pc'[j] \notin {"idle", "done"} => client[j] # client[k]
    BY DEF FreshAlone
  <2>1. Fresh(k)
    BY Zenon DEF Fresh
  <2>2. sessions[client[k]].conn = k
    <3>1. client[k] \in ClientIds /\ k # NoConn
      BY <2>1, QttAssumption, Zenon DEF Fresh, HandlerHolds
    <3> QED
      BY <3>1, Zenon
  <2> QED
    BY <2>1, <2>2, Zenon DEF FreshAlone
<1> QED
  BY <1>1, <1>2, <1>3, <1>4, <1>5, Zenon

\* A new session is visible to routers before CONNACK is sent, but none has a match for it.
LEMMA FreshStep == TypeInv /\ SessionInv /\ FreshInv /\ [Next]_vars => FreshInv'
<1> SUFFICES ASSUME TypeInv, SessionInv, FreshInv, [Next]_vars PROVE FreshInv'
  OBVIOUS
<1> USE QttAssumption DEF TypeInv, TypeOK
<1>1. CASE UNCHANGED vars
  BY <1>1 DEF vars, memory, identity, routing, transport, FreshInv, MatchesHaveSession,
      SendsToConnected, IdleIsEmpty, FreshUntouched, FreshAlone, Fresh
<1>2. CASE Restart
  <2>1. \A k \in Conns : /\ pc'[k] \in {"idle", "done"} /\ todo'[k] = {} /\ wire'[k] = <<>>
    BY <1>2, Zenon DEF Restart, NoHandler
  <2> QED
    BY <2>1, Zenon DEF FreshInv, MatchesHaveSession, SendsToConnected, IdleIsEmpty,
        FreshUntouched, FreshAlone, Fresh
<1>3. ASSUME NEW k \in Conns, HandlerStep(k) PROVE FreshInv'
  <2> USE DEF memory, database, identity, routing, transport, history
  <2> DEFINE Quiet == pc[k] # "subscribe" /\ pc'[k] \notin {"connack", "subscribe", "closing"}
  <2>q. Quiet => /\ UNCHANGED <<sessions, byClient, client, present>>
                 /\ pc[k] # "done" /\ pc'[k] \notin {"connack", "idle"}
                 /\ pc'[k] # "done" => pc[k] # "idle"
                 /\ \A j \in Conns \ {k} : pc'[j] = pc[j]
    <3>1. Quiet => ~Authenticate(k) /\ ~Subscribe(k) /\ ~SubscribeSession(k) /\ ~Leave(k)
      BY Zenon DEF Authenticate, Subscribe, SubscribeSession, Leave, Goto, TypeHandlers
    <3> QED
      BY <1>3, <3>1, QuietStep, Zenon
  <2>g. \A label : Goto(k, label) => pc'[k] = label
    BY Zenon DEF Goto, TypeHandlers
  <2>1. CASE Authenticate(k)
    <3>1. PICK p \in ConnectOf[k] :
              /\ Accepts(p)
              /\ client' = [client EXCEPT ![k] = RequestedId(p)]
              /\ present' = [present EXCEPT ![k] = sessions[RequestedId(p)].present]
              /\ UpsertConnected(RequestedId(p), k)
      BY <2>1, Zenon DEF Authenticate
    <3> DEFINE c == RequestedId(p)
    <3>2. c \in ClientIds
      BY <3>1, AuthenticateType, Zenon
    <3>3. /\ sessions'[c].present /\ sessions'[c].conn = k
          /\ \A d \in ClientIds \ {c} : sessions'[d] = sessions[d]
      BY <3>1, <3>2, UpsertConnectedEffect, Zenon DEF TypeStores
    <3> HIDE DEF c
    <3>4. /\ client'[k] = c /\ present'[k] = sessions[c].present
          /\ \A j \in Conns \ {k} : /\ client'[j] = client[j] /\ present'[j] = present[j]
                                    /\ pc'[j] = pc[j]
          /\ pc[k] = "idle" /\ pc'[k] = "connack"
          /\ UNCHANGED <<byClient, todo, tconn, wire>>
      BY <2>1, <3>1, Zenon DEF c, Authenticate, Goto, TypeHandlers
    <3>a. \A d \in ClientIds : sessions[d].present => sessions'[d].present
      BY <3>3, Zenon
    <3>b. \A j \in Conns : \A m \in todo[j] : m.client \in ClientIds
      <4>1. \A m \in Matches : m.client \in ClientIds
        BY Zenon DEF Matches
      <4> QED
        BY <4>1, Zenon DEF TypeHandlers
    <3>5. MatchesHaveSession'
      BY <3>4, <3>a, <3>b, Zenon DEF FreshInv, MatchesHaveSession
    <3>6. SendsToConnected' /\ IdleIsEmpty'
      BY <3>4 DEF FreshInv, SendsToConnected, IdleIsEmpty, HandlerHolds
    <3>7. FreshUntouched'
      <4>1. \A j \in Conns : pc'[j] = "send" => pc[j] = "send" /\ tconn[j] # k
        BY <3>4, Zenon DEF FreshInv, SendsToConnected
      <4>2. \A j \in Conns \ {k} : Fresh(j)' => Fresh(j)
        BY <3>4, Zenon DEF Fresh
      <4>3. wire'[k] = <<>>
        BY <3>4, Zenon DEF FreshInv, IdleIsEmpty
      <4> QED
        BY <3>4, <4>1, <4>2, <4>3, Zenon DEF FreshInv, FreshUntouched
    <3>8. FreshAlone'
      <4> SUFFICES ASSUME NEW j \in Conns, Fresh(j)', sessions'[client'[j]].conn = j
                   PROVE  /\ byClient[client'[j]] = NoSubs
                          /\ \A i \in Conns : \A m \in todo[i] : m.client # client'[j]
                          /\ \A i \in Conns \ {j} :
                                pc'[i] \notin {"idle", "done"} => client'[i] # client'[j]
        BY <3>4, Zenon DEF FreshAlone
      <4>1. CASE j = k
        <5>1. ~sessions[c].present
          BY <3>4, <4>1, Zenon DEF Fresh
        <5>2. client'[j] = c
          BY <3>4, <4>1, Zenon
        <5> QED
          <6>1. byClient[client'[j]] = NoSubs
            BY <3>2, <5>1, <5>2, Zenon DEF SessionInv, SubscribedHasSession
          <6>2. \A i \in Conns : \A m \in todo[i] : m.client # client'[j]
            BY <5>1, <5>2, Zenon DEF FreshInv, MatchesHaveSession
          <6>3. \A i \in Conns \ {j} : pc'[i] \notin {"idle", "done"} => client'[i] # client'[j]
            <7> SUFFICES ASSUME NEW i \in Conns \ {j}, pc'[i] \notin {"idle", "done"}
                         PROVE  client'[i] # c
              BY <5>2, Zenon
            <7>1. i \in Conns /\ pc'[i] = pc[i] /\ client'[i] = client[i]
              BY <3>4, <4>1, Zenon
            <7>2. sessions[client[i]].present
              BY <7>1, Zenon DEF SessionInv, HandlerHasSession
            <7> QED
              BY <5>1, <7>1, <7>2, Zenon
          <6> QED
            BY <6>1, <6>2, <6>3, Zenon
      <4>2. CASE j # k
        <5>1. Fresh(j) /\ client'[j] = client[j] /\ client[j] \in ClientIds
          BY <3>4, <4>2, Zenon DEF Fresh, HandlerHolds
        <5>2. client[j] # c /\ sessions[client[j]].conn = j
          BY <3>3, <4>2, <5>1, Zenon
        <5>3. /\ byClient[client[j]] = NoSubs
              /\ \A i \in Conns : \A m \in todo[i] : m.client # client[j]
              /\ \A i \in Conns \ {j} : pc[i] \notin {"idle", "done"} => client[i] # client[j]
          BY <5>1, <5>2, Zenon DEF FreshInv, FreshAlone
        <5>4. \A i \in Conns \ {j} : pc'[i] \notin {"idle", "done"} => client'[i] # client[j]
          <6> SUFFICES ASSUME NEW i \in Conns \ {j}, pc'[i] \notin {"idle", "done"}
                       PROVE  client'[i] # client[j]
            BY Zenon
          <6>1. CASE i = k
            BY <3>4, <5>2, <6>1, Zenon
          <6>2. CASE i # k
            <7>1. pc'[i] = pc[i] /\ client'[i] = client[i]
              BY <3>4, <6>2, Zenon
            <7> QED
              BY <5>3, <7>1, Zenon
          <6> QED
            BY <6>1, <6>2, Zenon
        <5> QED
          BY <5>1, <5>3, <5>4, Zenon
      <4> QED
        BY <4>1, <4>2, Zenon
    <3> QED
      BY <3>5, <3>6, <3>7, <3>8, Zenon DEF FreshInv
  <2>2. CASE Leave(k)
    <3>1. client[k] \in ClientIds /\ sessions[client[k]].present
      BY <2>2, Zenon DEF Leave, HandlerHolds, SessionInv, HandlerHasSession
    <3>2. \A c \in ClientIds : /\ sessions'[c].present = sessions[c].present
                               /\ sessions'[c].conn \in {sessions[c].conn, NoConn}
      BY <2>2, <3>1, DisconnectEffect, Zenon DEF Leave, TypeStores
    <3> QED
      BY <2>2, <3>2, FreshFrame, Zenon DEF Leave, Goto, TypeHandlers
  <2>3. CASE Subscribe(k)
    <3>1. client[k] \in ClientIds /\ pc[k] = "loop" /\ pc'[k] = "subscribe"
      BY <2>3, Zenon DEF Subscribe, Receiving, HandlerHolds, Goto, TypeHandlers
    <3>2. /\ UNCHANGED <<sessions, client, present, todo, tconn, wire>>
          /\ \A j \in Conns \ {k} : pc'[j] = pc[j]
          /\ \A c \in ClientIds \ {client[k]} : byClient'[c] = byClient[c]
      BY <2>3, <3>1, Zenon DEF Subscribe, Add, Goto, TypeHandlers, TypeStores
    <3>3. /\ \A j \in Conns : pc'[j] = "send" => pc[j] = "send"
          /\ \A j \in Conns : pc'[j] = "idle" <=> pc[j] = "idle"
          /\ \A j \in Conns : Fresh(j)' <=> Fresh(j)
      BY <3>1, <3>2, Zenon DEF Fresh
    <3>4. MatchesHaveSession' /\ SendsToConnected'
      BY <3>2, <3>3, Zenon DEF FreshInv, MatchesHaveSession, SendsToConnected, HandlerHolds
    <3>5. IdleIsEmpty' /\ FreshUntouched'
      BY <3>2, <3>3, Zenon DEF FreshInv, IdleIsEmpty, FreshUntouched
    <3>6. FreshAlone'
      <4> SUFFICES ASSUME NEW j \in Conns, Fresh(j)', sessions'[client'[j]].conn = j
                   PROVE  /\ byClient'[client'[j]] = NoSubs
                          /\ \A i \in Conns : \A m \in todo'[i] : m.client # client'[j]
                          /\ \A i \in Conns \ {j} :
                                pc'[i] \notin {"idle", "done"} => client'[i] # client'[j]
        BY Zenon DEF FreshAlone
      <4>1. Fresh(j) /\ sessions[client[j]].conn = j /\ client[j] \in ClientIds
        BY <3>2, <3>3, Zenon DEF Fresh, HandlerHolds
      <4>2. /\ byClient[client[j]] = NoSubs
            /\ \A i \in Conns : \A m \in todo[i] : m.client # client[j]
            /\ \A i \in Conns \ {j} : pc[i] \notin {"idle", "done"} => client[i] # client[j]
        BY <4>1, Zenon DEF FreshInv, FreshAlone
      <4>3. j # k /\ client[j] # client[k]
        BY <3>1, <4>1, <4>2, Zenon DEF Fresh
      <4> QED
        BY <3>1, <3>2, <4>1, <4>2, <4>3, Zenon
    <3> QED
      BY <3>4, <3>5, <3>6, Zenon DEF FreshInv
  <2>4. CASE SubscribeSession(k)
    <3>1. client[k] \in ClientIds /\ newsubs[k] \in SubRequests
      BY <2>4, Zenon DEF SubscribeSession, HandlerHolds
    <3>2. \A c \in ClientIds : /\ sessions'[c].present = sessions[c].present
                               /\ sessions'[c].conn = sessions[c].conn
      BY <2>4, <3>1, AddSubscriptionsEffect, Zenon DEF SubscribeSession, TypeStores
    <3> QED
      BY <2>4, <3>2, FreshFrame, Zenon DEF SubscribeSession, Goto, TypeHandlers
  <2>5. CASE ConnAck(k) \/ Replay(k)
    <3>1. /\ Quiet /\ UNCHANGED <<todo, tconn>> /\ pc'[k] # "send"
          /\ \A j \in Conns \ {k} : wire'[j] = wire[j]
      <4>1. /\ UNCHANGED <<todo, tconn>> /\ pc[k] \in {"connack", "replay"}
            /\ Goto(k, "pending") \/ Goto(k, "loop") \/ Goto(k, "replay")
            /\ \E p : SendOk(k, p)
        BY <2>5, Zenon DEF ConnAck, Replay
      <4>2. \A j \in Conns \ {k} : wire'[j] = wire[j]
        BY <4>1, Zenon DEF SendOk, TypeTransport
      <4> QED
        BY <2>g, <4>1, <4>2, Zenon
    <3> QED
      BY <2>q, <3>1, FreshFrame, Zenon DEF Fresh
  <2>6. CASE ConnAckFail(k) \/ Close(k)
    <3>1. /\ Quiet /\ UNCHANGED <<todo, tconn>> /\ pc'[k] # "send"
          /\ \A j \in Conns \ {k} : wire'[j] = wire[j]
      BY <2>6, ZenonT(30) DEF ConnAckFail, Close, CloseConn, Goto, TypeTransport, TypeHandlers
    <3> QED
      BY <2>q, <3>1, FreshFrame, Zenon DEF Fresh
  <2>7. CASE RouteMatch(k)
    <3>1. /\ UNCHANGED <<sessions, byClient, client, present, tconn, wire>>
          /\ pc[k] = "match" /\ pc'[k] = "route" /\ \A j \in Conns \ {k} : pc'[j] = pc[j]
          /\ todo'[k] = Match(TopicOf[cur[k]])
          /\ \A j \in Conns \ {k} : todo'[j] = todo[j]
      BY <2>7, Zenon DEF RouteMatch, Goto, TypeHandlers
    <3>2. \A m \in todo'[k] : m.client \in ClientIds /\ byClient[m.client] # NoSubs
      <4> SUFFICES ASSUME NEW m \in todo'[k]
                   PROVE  m.client \in ClientIds /\ byClient[m.client] # NoSubs
        OBVIOUS
      <4>1. m \in Matches /\ byClient[m.client][m.filter] # Unsubscribed
        <5>1. byClient \in [ClientIds -> SubMap] /\ m \in Match(TopicOf[cur[k]])
          BY <3>1, Zenon DEF TypeStores
        <5> HIDE QttAssumption DEF TypeInv, TypeOK, memory, database, identity, routing,
                 transport, history
        <5> QED
          BY <5>1, MatchType
      <4> QED
        BY <4>1, Zenon DEF Matches, NoSubs
    <3>3. MatchesHaveSession'
      BY <3>1, <3>2, Zenon DEF FreshInv, MatchesHaveSession, SessionInv, SubscribedHasSession
    <3>4. /\ \A j \in Conns : pc'[j] = "send" => pc[j] = "send"
          /\ \A j \in Conns : pc'[j] = "idle" <=> pc[j] = "idle"
          /\ \A j \in Conns : Fresh(j)' <=> Fresh(j)
      BY <3>1, Zenon DEF Fresh
    <3>5. SendsToConnected'
      BY <3>1, <3>4, Zenon DEF FreshInv, SendsToConnected, HandlerHolds
    <3>6. IdleIsEmpty' /\ FreshUntouched'
      BY <3>1, <3>4, Zenon DEF FreshInv, IdleIsEmpty, FreshUntouched
    <3>7. FreshAlone'
      <4> SUFFICES ASSUME NEW j \in Conns, Fresh(j), sessions[client[j]].conn = j
                   PROVE  /\ byClient[client[j]] = NoSubs
                          /\ \A i \in Conns : \A m \in todo'[i] : m.client # client[j]
                          /\ \A i \in Conns \ {j} :
                                pc'[i] \notin {"idle", "done"} => client[i] # client[j]
        <5> SUFFICES ASSUME NEW j \in Conns, Fresh(j)', sessions'[client'[j]].conn = j
                     PROVE  /\ byClient'[client'[j]] = NoSubs
                            /\ \A i \in Conns : \A m \in todo'[i] : m.client # client'[j]
                            /\ \A i \in Conns \ {j} :
                                  pc'[i] \notin {"idle", "done"} => client'[i] # client'[j]
          BY Zenon DEF FreshAlone
        <5>1. Fresh(j) /\ sessions[client[j]].conn = j
          BY <3>1, <3>4, Zenon
        <5>2. byClient' = byClient /\ client' = client
          BY <3>1, Zenon
        <5> QED
          BY <5>1, <5>2, Zenon
      <4>1. /\ byClient[client[j]] = NoSubs
            /\ \A i \in Conns : \A m \in todo[i] : m.client # client[j]
            /\ \A i \in Conns \ {j} : pc[i] \notin {"idle", "done"} => client[i] # client[j]
        BY Zenon DEF FreshInv, FreshAlone
      <4> QED
        BY <3>1, <3>2, <4>1, Zenon
    <3> QED
      BY <3>3, <3>5, <3>6, <3>7, Zenon DEF FreshInv
  <2>8. CASE RouteNext(k)
    <3>1. /\ UNCHANGED <<sessions, byClient, client, present, wire>>
          /\ pc[k] = "route" /\ pc'[k] \in {"route", "send", "queue"}
          /\ \A j \in Conns \ {k} : pc'[j] = pc[j] /\ tconn'[j] = tconn[j]
          /\ \A j \in Conns : todo'[j] \subseteq todo[j]
      <4>1. PICK m \in todo[k] :
                /\ todo' = [todo EXCEPT ![k] = @ \ {m}]
                /\ \/ UNCHANGED <<pc, tconn>>
                   \/ /\ Goto(k, "send") \/ Goto(k, "queue")
                      /\ tconn' = [tconn EXCEPT ![k] = sessions[m.client].conn]
        BY <2>8, Zenon DEF RouteNext
      <4>2. /\ pc \in [Conns -> Labels] /\ todo \in [Conns -> SUBSET Matches]
            /\ tconn \in [Conns -> Conns \cup {NoConn}]
        BY Zenon DEF TypeHandlers
      <4>3. \A j \in Conns : todo'[j] \subseteq todo[j]
        BY <4>1, <4>2, Zenon
      <4>4. UNCHANGED <<sessions, byClient, client, present, wire>> /\ pc[k] = "route"
        BY <2>8, Zenon DEF RouteNext
      <4>5. \A j \in Conns \ {k} : pc'[j] = pc[j] /\ tconn'[j] = tconn[j]
        BY <4>1, <4>2, Zenon DEF Goto
      <4>6. pc'[k] \in {"route", "send", "queue"}
        BY <4>1, <4>2, <4>4, Zenon DEF Goto
      <4> QED
        BY <4>3, <4>4, <4>5, <4>6, Zenon
    <3>2. pc'[k] = "send" =>
             \E m \in todo[k] : /\ tconn'[k] = sessions[m.client].conn
                                /\ sessions[m.client].conn # NoConn
      BY <2>8, Zenon DEF RouteNext, Goto, TypeHandlers
    <3>3. pc'[k] = "send" => /\ tconn'[k] \in Conns /\ pc[tconn'[k]] # "idle"
                             /\ ~Fresh(tconn'[k])
      <4> SUFFICES ASSUME pc'[k] = "send"
                   PROVE  tconn'[k] \in Conns /\ pc[tconn'[k]] # "idle" /\ ~Fresh(tconn'[k])
        OBVIOUS
      <4>1. PICK m \in todo[k] : tconn'[k] = sessions[m.client].conn /\ tconn'[k] # NoConn
        BY <3>2, Zenon
      <4>2. m.client \in ClientIds
        BY DEF TypeHandlers, Matches
      <4>3. tconn'[k] \in Conns /\ client[tconn'[k]] = m.client
        BY <4>1, <4>2, Zenon DEF SessionInv, SessionOwnsConn, TypeStores, Session
      <4>4. pc[tconn'[k]] # "idle"
        BY <4>2, <4>3, Zenon DEF HandlerHolds
      <4>5. ~Fresh(tconn'[k])
        BY <4>1, <4>3, Zenon DEF FreshInv, FreshAlone
      <4> QED
        BY <4>3, <4>4, <4>5, Zenon
    <3>4. MatchesHaveSession' /\ IdleIsEmpty'
      BY <3>1, Zenon DEF FreshInv, MatchesHaveSession, IdleIsEmpty
    <3>a. /\ \A j \in Conns : Fresh(j)' <=> Fresh(j)
          /\ \A j \in Conns : pc'[j] = "idle" <=> pc[j] = "idle"
      BY <3>1, Zenon DEF Fresh
    <3>5. SendsToConnected'
      <4> SUFFICES ASSUME NEW j \in Conns, pc'[j] = "send" PROVE pc'[tconn'[j]] # "idle"
        BY Zenon DEF SendsToConnected
      <4>1. CASE j = k
        BY <3>3, <3>a, <4>1, Zenon
      <4>2. CASE j # k
        <5>1. pc[j] = "send" /\ tconn'[j] = tconn[j]
          BY <3>1, <4>2, Zenon
        <5>2. tconn[j] \in Conns /\ pc[tconn[j]] # "idle"
          BY <5>1, Zenon DEF FreshInv, SendsToConnected, HandlerHolds
        <5> QED
          BY <3>a, <5>1, <5>2, Zenon
      <4> QED
        BY <4>1, <4>2, Zenon
    <3>6. FreshUntouched'
      <4> SUFFICES ASSUME NEW i \in Conns, Fresh(i)'
                   PROVE  wire'[i] = <<>> /\ \A j \in Conns : pc'[j] = "send" => tconn'[j] # i
        BY Zenon DEF FreshUntouched
      <4>1. Fresh(i) /\ wire'[i] = wire[i]
        BY <3>1, <3>a, Zenon
      <4>2. ASSUME NEW j \in Conns, pc'[j] = "send" PROVE tconn'[j] # i
        <5>1. CASE j = k
          BY <3>3, <4>1, <4>2, <5>1, Zenon
        <5>2. CASE j # k
          <6>1. pc[j] = "send" /\ tconn'[j] = tconn[j]
            BY <3>1, <4>2, <5>2, Zenon
          <6>2. tconn[j] # i
            BY <4>1, <6>1, Zenon DEF FreshInv, FreshUntouched
          <6> QED
            BY <6>1, <6>2, Zenon
        <5> QED
          BY <5>1, <5>2, Zenon
      <4> QED
        BY <4>1, <4>2, Zenon DEF FreshInv, FreshUntouched
    <3>7. FreshAlone'
      <4> SUFFICES ASSUME NEW i \in Conns, Fresh(i)', sessions'[client'[i]].conn = i
                   PROVE  /\ byClient'[client'[i]] = NoSubs
                          /\ \A j \in Conns : \A m \in todo'[j] : m.client # client'[i]
                          /\ \A j \in Conns \ {i} : pc'[j] \notin {"idle", "done"} =>
                                client'[j] # client'[i]
        BY Zenon DEF FreshAlone
      <4>1. /\ byClient[client[i]] = NoSubs
            /\ \A j \in Conns : \A m \in todo[j] : m.client # client[i]
            /\ \A j \in Conns \ {i} : pc[j] \notin {"idle", "done"} => client[j] # client[i]
        BY <3>1, <3>a, Zenon DEF FreshInv, FreshAlone
      <4>2. \A j \in Conns : pc'[j] \notin {"idle", "done"} => pc[j] \notin {"idle", "done"}
        BY <3>1, Zenon
      <4> QED
        BY <3>1, <4>1, <4>2, Zenon
    <3> QED
      BY <3>4, <3>5, <3>6, <3>7, Zenon DEF FreshInv
  <2>9. CASE RouteSend(k)
    <3>1. /\ Quiet /\ UNCHANGED todo /\ pc[k] = "send" /\ pc'[k] = "route"
          /\ tconn[k] \in Conns
          /\ \A j \in Conns \ {k} : tconn'[j] = tconn[j]
          /\ \A j \in Conns \ {tconn[k]} : wire'[j] = wire[j]
      BY <2>9, Zenon DEF RouteSend, Served, SendOk, Goto, TypeTransport, TypeHandlers, HandlerHolds
    <3>2. pc[tconn[k]] # "idle" /\ ~Fresh(tconn[k])
      BY <3>1, Zenon DEF FreshInv, SendsToConnected, FreshUntouched
    <3> QED
      BY <2>q, <3>1, <3>2, FreshFrame, Zenon
  <2>10. CASE AuthFail(k) \/ Pending(k) \/ ReplayFail(k) \/ Publish(k) \/ RouteSendFail(k)
                 \/ RouteQueue(k)
    <3>1. /\ Quiet /\ UNCHANGED <<wire, todo>> /\ pc'[k] # "send"
          /\ \A j \in Conns \ {k} : tconn'[j] = tconn[j]
      <4>1. CASE AuthFail(k)
        BY <2>g, <4>1, Zenon DEF AuthFail
      <4>2. CASE Pending(k)
        BY <2>g, <4>2, Zenon DEF Pending
      <4>3. CASE ReplayFail(k)
        BY <2>g, <4>3, Zenon DEF ReplayFail, SendErr
      <4>4. CASE Publish(k)
        BY <2>g, <4>4, Zenon DEF Publish, Receiving
      <4>5. CASE RouteSendFail(k) \/ RouteQueue(k)
        <5>1. /\ pc[k] \in {"send", "queue"} /\ UNCHANGED <<wire, todo>>
              /\ (Goto(k, "queue") /\ tconn' = tconn) \/ Served(k)
          BY <4>5, Zenon DEF RouteSendFail, RouteQueue, SendErr
        <5>2. Served(k) => Goto(k, "route") /\ \A j \in Conns \ {k} : tconn'[j] = tconn[j]
          BY Zenon DEF Served, TypeHandlers
        <5> QED
          BY <2>g, <5>1, <5>2, Zenon
      <4> QED
        BY <2>10, <4>1, <4>2, <4>3, <4>4, <4>5, Zenon
    <3> QED
      BY <2>q, <3>1, FreshFrame, Zenon
  <2>11. CASE RouteQueueFail(k) \/ PublishDone(k) \/ PubAck(k) \/ AckQueue(k)
                 \/ RateLimitPubAck(k) \/ ReplyFail(k)
    <3>1. /\ Quiet /\ UNCHANGED wire /\ pc'[k] # "send"
          /\ \A j \in Conns : todo'[j] \subseteq todo[j]
          /\ \A j \in Conns \ {k} : tconn'[j] = tconn[j]
      <4>1. CASE RouteQueueFail(k) \/ PublishDone(k) \/ AckQueue(k)
        <5>1. ForgetPacket(k) /\ pc[k] \in {"queue", "route", "ack"} /\ wire' = wire
          BY <4>1, Zenon DEF RouteQueueFail, PublishDone, AckQueue
        <5>2. /\ pc'[k] = "loop" /\ \A j \in Conns : todo'[j] \subseteq todo[j]
              /\ \A j \in Conns \ {k} : tconn'[j] = tconn[j]
          BY <2>g, <5>1, Zenon DEF ForgetPacket, TypeHandlers
        <5> QED
          BY <5>1, <5>2, Zenon
      <4>2. CASE PubAck(k)
        BY <2>g, <4>2, Zenon DEF PubAck, Receiving
      <4>3. CASE RateLimitPubAck(k) \/ ReplyFail(k)
        BY <4>3, Zenon DEF RateLimitPubAck, ReplyFail, SendErr, Receiving
      <4> QED
        BY <2>11, <4>1, <4>2, <4>3, Zenon
    <3> QED
      BY <2>q, <3>1, FreshFrame, Zenon
  <2> QED
    BY <1>3, <2>1, <2>2, <2>3, <2>4, <2>5, <2>6, <2>7, <2>8, <2>9, <2>10, <2>11, Zenon
    DEF HandlerStep
<1>4. ASSUME NEW k \in Conns, ClientStep(k) PROVE FreshInv'
  <2> USE DEF memory, identity, routing
  <2>1. /\ UNCHANGED <<sessions, byClient, client, present, pc, todo, tconn>>
        /\ \A j \in Conns : wire[j] = <<>> => wire'[j] = <<>>
    BY <1>4, Zenon DEF ClientStep, ClientRead, ClientGone, TypeTransport
  <2> QED
    BY <2>1, FreshFrame, Zenon
<1> QED
  BY <1>1, <1>2, <1>3, <1>4, Zenon DEF Next

\* A client that had no session is sent nothing before CONNACK, although routers see its
\* session first (server.go:177-188).
THEOREM NewClientConnAckFirstAlways == Spec => []NewClientConnAckFirst
<1>1. FreshInv => NewClientConnAckFirst
  BY Zenon DEF FreshInv, FreshUntouched, Fresh, NewClientConnAckFirst
<1> QED
  BY TypeInit, TypeStep, SessionInit, SessionStep, FreshInit, FreshStep, <1>1, PTL DEF Spec
=============================================================================
