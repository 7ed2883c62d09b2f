-------------------------- MODULE SubscriberProofs --------------------------
(***************************************************************************)
(* What the subscriber and its broker never do, for any number of packets  *)
(* and of connections, whatever the network does to them.                  *)
(***************************************************************************)
EXTENDS Subscriber, SequenceTheorems, TLAPS

\* What the client sends.
Sends == Msgs \cup {"CONNECT", "SUBSCRIBE"}

\* The rows that are left when the one at i is deleted.
Without(q, i) == SubSeq(q, 1, i - 1) \o SubSeq(q, i + 1, Len(q))

-----------------------------------------------------------------------------
(***************************************************************************)
(* Sequences: what is on its way, and the rows of the queue                *)
(***************************************************************************)

\* Reading the first packet leaves the others.
LEMMA TailElements ==
    ASSUME NEW S, NEW q \in Seq(S), q # <<>>
    PROVE  /\ Tail(q) \in Seq(S) /\ Head(q) \in S
           /\ Head(q) \in Range(q)
           /\ Range(Tail(q)) \subseteq Range(q)
           /\ Range(q) \subseteq Range(Tail(q)) \cup {Head(q)}
<1>1. /\ Head(q) \in S /\ Tail(q) \in Seq(S) /\ Len(Tail(q)) = Len(q) - 1
      /\ \A i \in 1..Len(Tail(q)) : Tail(q)[i] = q[i + 1]
      /\ Head(q) = q[1]
  BY HeadTailProperties
<1>2. Len(q) \in Nat /\ Len(q) # 0 /\ DOMAIN q = 1..Len(q)
      /\ DOMAIN Tail(q) = 1..Len(Tail(q))
  BY <1>1, LenProperties, EmptySeq
<1>3. 1 \in 1..Len(q)
  BY <1>2
<1>4. \A i \in 1..Len(Tail(q)) : i + 1 \in 1..Len(q)
  BY <1>1, <1>2
<1>5. \A j \in 1..Len(q) : j = 1 \/ (j - 1 \in 1..Len(Tail(q)) /\ Tail(q)[j - 1] = q[j])
  BY <1>1, <1>2
<1>6. Head(q) \in Range(q)
  BY <1>1, <1>2, <1>3, Zenon DEF Range
<1>7. Range(Tail(q)) \subseteq Range(q)
  <2> SUFFICES ASSUME NEW i \in 1..Len(Tail(q)) PROVE Tail(q)[i] \in Range(q)
    BY <1>2, Zenon DEF Range
  <2> QED
    BY <1>1, <1>2, <1>4, Zenon DEF Range
<1>8. Range(q) \subseteq Range(Tail(q)) \cup {Head(q)}
  <2> SUFFICES ASSUME NEW j \in 1..Len(q) PROVE q[j] \in Range(Tail(q)) \cup {Head(q)}
    BY <1>2, Zenon DEF Range
  <2> QED
    BY <1>1, <1>2, <1>5, Zenon DEF Range
<1> QED
  BY <1>1, <1>6, <1>7, <1>8, Zenon

\* Sending one adds it.
LEMMA AppendElements ==
    ASSUME NEW S, NEW q \in Seq(S), NEW e \in S
    PROVE  /\ Append(q, e) \in Seq(S) /\ Append(q, e) # <<>>
           /\ Range(Append(q, e)) = Range(q) \cup {e}
<1>1. /\ Append(q, e) \in Seq(S) /\ Len(Append(q, e)) = Len(q) + 1
      /\ \A i \in 1..Len(q) : Append(q, e)[i] = q[i]
      /\ Append(q, e)[Len(q) + 1] = e
      /\ Append(q, e) # <<>>
  BY AppendProperties
<1>2. Len(q) \in Nat /\ DOMAIN q = 1..Len(q) /\ DOMAIN Append(q, e) = 1..(Len(q) + 1)
  BY <1>1, LenProperties
<1>3. Len(q) + 1 \in 1..(Len(q) + 1)
  BY <1>2
<1>4. \A i \in 1..(Len(q) + 1) : i \in 1..Len(q) \/ i = Len(q) + 1
  BY <1>2
<1>5. \A i \in 1..Len(q) : i \in 1..(Len(q) + 1)
  BY <1>2
<1> QED
  BY <1>1, <1>2, <1>3, <1>4, <1>5, Zenon DEF Range

\* Deleting a row leaves the others, in their order.
LEMMA WithoutElements ==
    ASSUME NEW S, NEW q \in Seq(S), NEW i \in DOMAIN q
    PROVE  LET r == Without(q, i)
           IN  /\ r \in Seq(S) /\ Len(r) = Len(q) - 1 /\ Len(q) \in Nat /\ Len(q) >= 1
               /\ \A j \in 1..(i - 1) : r[j] = q[j]
               /\ \A j \in i..(Len(q) - 1) : r[j] = q[j + 1]
<1> DEFINE a == SubSeq(q, 1, i - 1)
           b == SubSeq(q, i + 1, Len(q))
<1>1. Len(q) \in Nat /\ DOMAIN q = 1..Len(q) /\ i \in 1..Len(q)
  BY LenProperties
<1>2. a \in Seq(S) /\ Len(a) = i - 1 /\ \A j \in 1..(i - 1) : a[j] = q[j]
  BY <1>1
<1>3. b \in Seq(S) /\ Len(b) = Len(q) - i /\ \A j \in 1..(Len(q) - i) : b[j] = q[i + j]
  BY <1>1
<1> HIDE DEF a, b
<1>4. /\ a \o b \in Seq(S) /\ Len(a \o b) = Len(a) + Len(b)
      /\ \A j \in 1..(Len(a) + Len(b)) :
            (a \o b)[j] = IF j <= Len(a) THEN a[j] ELSE b[j - Len(a)]
  BY <1>2, <1>3, ConcatProperties
<1>5. Len(a \o b) = Len(q) - 1
  BY <1>1, <1>2, <1>3, <1>4
<1>6. \A j \in 1..(i - 1) : (a \o b)[j] = q[j]
  BY <1>1, <1>2, <1>3, <1>4
<1>7. ASSUME NEW j \in i..(Len(q) - 1) PROVE (a \o b)[j] = q[j + 1]
  <2>1. /\ j \in 1..(Len(a) + Len(b)) /\ ~(j <= Len(a)) /\ j - Len(a) \in 1..(Len(q) - i)
        /\ i + (j - Len(a)) = j + 1
    BY <1>1, <1>2, <1>3
  <2> QED
    BY <1>3, <1>4, <2>1
<1>8. Without(q, i) = a \o b
  BY DEF Without, a, b
<1>9. Len(q) >= 1
  BY <1>1
<1> QED
  BY <1>1, <1>4, <1>5, <1>6, <1>7, <1>8, <1>9, Zenon

-----------------------------------------------------------------------------
(***************************************************************************)
(* The inductive invariant                                                 *)
(***************************************************************************)

\* A client that is not idle has a connection.
ClientHasConn == cpc # "idle" => cs \in Slots

\* Connect has sent CONNECT before the handler reads it.
AuthHasConnect == \A s \in Slots : hpc[s] = "auth" /\ net[s] = "open" => up[s] # <<>>

\* What the client is about to acknowledge was given to the application.
AckIsDelivered == cpc = "ack" => got \in Msgs /\ got \in delivered

\* So was what it has acknowledged.
UpIsDelivered == \A s \in Slots : \A p \in Range(up[s]) : p \in Msgs => p \in delivered

SubscriberInv ==
    /\ TypeOK /\ ClientHasConn /\ AuthHasConnect /\ AckIsDelivered /\ UpIsDelivered
    /\ OneRowPerPacket /\ RemovedAfterDelivery

\* Before the first dial nothing is on its way and nothing is queued.
LEMMA SubscriberInit == Init => SubscriberInv
<1> SUFFICES ASSUME Init PROVE SubscriberInv
  OBVIOUS
<1>1. TypeOK
  <2>1. \A S : <<>> \in Seq(S)
    BY EmptySeq, Zenon
  <2>2. up = [s \in Slots |-> <<>>] /\ down = [s \in Slots |-> <<>>]
        /\ pend = [s \in Slots |-> <<>>] /\ rows = <<>>
    BY Zenon DEF Init
  <2>3. /\ up \in [Slots -> Seq(Msgs \cup {"CONNECT", "SUBSCRIBE"})]
        /\ down \in [Slots -> Seq(Packets)] /\ pend \in [Slots -> Seq(Msgs)]
        /\ rows \in Seq(Msgs)
    BY <2>1, <2>2, Zenon
  <2>4. /\ net \in [Slots -> {"free", "open", "gone"}]
        /\ hpc \in [Slots -> {"none", "auth", "connack", "pending", "replay", "loop", "suback"}]
        /\ job \in [Msgs -> {"new", "send", "queue", "done"}]
        /\ jobConn \in [Msgs -> Slots \cup {NoSlot}]
    BY DEF Init
  <2>5. /\ strict \in BOOLEAN /\ cpc \in {"idle", "connack", "suback", "consume", "ack"}
        /\ cs \in Slots \cup {NoSlot} /\ got \in Msgs \cup {NoSlot}
        /\ registered \in BOOLEAN /\ session \in Slots \cup {NoSlot}
        /\ elsewhere \subseteq Shared /\ acked \subseteq Shared
    BY Zenon DEF Init
  <2> QED
    BY <2>3, <2>4, <2>5, Zenon DEF TypeOK
<1>2. ClientHasConn /\ AuthHasConnect /\ AckIsDelivered
  BY DEF Init, ClientHasConn, AuthHasConnect, AckIsDelivered
<1>3. UpIsDelivered
  BY DEF Init, UpIsDelivered, Range
<1>4. OneRowPerPacket /\ RemovedAfterDelivery
  BY DEF Init, OneRowPerPacket, RemovedAfterDelivery, Range
<1> QED
  BY <1>1, <1>2, <1>3, <1>4, Zenon DEF SubscriberInv

-----------------------------------------------------------------------------
(***************************************************************************)
(* What the steps do to the wires                                          *)
(***************************************************************************)

\* A connection that ends takes what was on its way with it.
LEMMA GoneEffect ==
    ASSUME TypeOK, NEW s \in Slots, Gone(s)
    PROVE  /\ net' \in [Slots -> {"free", "open", "gone"}]
           /\ up' \in [Slots -> Seq(Sends)] /\ down' \in [Slots -> Seq(Packets)]
           /\ net'[s] = "gone" /\ up'[s] = <<>> /\ down'[s] = <<>>
           /\ \A t \in Slots : t # s => /\ net'[t] = net[t] /\ up'[t] = up[t]
                                        /\ down'[t] = down[t]
<1>1. <<>> \in Seq(Sends) /\ <<>> \in Seq(Packets)
  OBVIOUS
<1> QED
  BY <1>1, Zenon DEF TypeOK, Gone, Sends

\* The client reads a packet and may send SUBSCRIBE.
LEMMA ReadEffect ==
    ASSUME TypeOK, CanRead, NEW label,
           NEW reply \in {<<>>, <<"SUBSCRIBE">>}, ReadAndSend(reply, label)
    PROVE  /\ cs \in Slots /\ Head(down[cs]) \in Packets /\ Head(down[cs]) \in Range(down[cs])
           /\ up' \in [Slots -> Seq(Sends)] /\ down' \in [Slots -> Seq(Packets)]
           /\ Range(down[cs]) \subseteq Range(down'[cs]) \cup {Head(down[cs])}
           /\ Range(down'[cs]) \subseteq Range(down[cs])
           /\ \A t \in Slots : /\ t # cs => up'[t] = up[t] /\ down'[t] = down[t]
                               /\ up[t] # <<>> => up'[t] # <<>>
                               /\ Range(up'[t]) \subseteq Range(up[t]) \cup {"SUBSCRIBE"}
<1>1. cs \in Slots /\ down[cs] # <<>>
  BY DEF CanRead, TypeOK
<1>2. /\ up \in [Slots -> Seq(Sends)] /\ down \in [Slots -> Seq(Packets)]
      /\ down' = [down EXCEPT ![cs] = Tail(@)]
      /\ up' = [up EXCEPT ![cs] = @ \o reply]
  BY Zenon DEF TypeOK, Sends, ReadAndSend
<1>3. /\ down[cs] \in Seq(Packets) /\ up[cs] \in Seq(Sends)
      /\ down'[cs] = Tail(down[cs]) /\ up'[cs] = up[cs] \o reply
      /\ \A t \in Slots : t # cs => up'[t] = up[t] /\ down'[t] = down[t]
  BY <1>1, <1>2
<1>4. /\ Tail(down[cs]) \in Seq(Packets) /\ Head(down[cs]) \in Packets
      /\ Head(down[cs]) \in Range(down[cs])
      /\ Range(down[cs]) \subseteq Range(Tail(down[cs])) \cup {Head(down[cs])}
      /\ Range(Tail(down[cs])) \subseteq Range(down[cs])
  BY <1>1, <1>3, TailElements, Zenon
<1>5. /\ up'[cs] \in Seq(Sends) /\ (up[cs] # <<>> => up'[cs] # <<>>)
      /\ Range(up'[cs]) \subseteq Range(up[cs]) \cup {"SUBSCRIBE"}
  <2>1. CASE reply = <<>>
    <3>1. up'[cs] = up[cs]
      BY <1>3, <2>1, ConcatEmptySeq
    <3> QED
      BY <1>3, <3>1
  <2>2. CASE reply = <<"SUBSCRIBE">>
    <3>1. "SUBSCRIBE" \in Sends
      BY DEF Sends
    <3>2. up'[cs] = Append(up[cs], "SUBSCRIBE")
      BY <1>3, <2>2, <3>1, AppendIsConcat
    <3>3. /\ Append(up[cs], "SUBSCRIBE") \in Seq(Sends)
          /\ Append(up[cs], "SUBSCRIBE") # <<>>
          /\ Range(Append(up[cs], "SUBSCRIBE")) = Range(up[cs]) \cup {"SUBSCRIBE"}
      BY <1>3, <3>1, AppendElements
    <3> QED
      BY <3>2, <3>3, Zenon
  <2> QED
    BY <2>1, <2>2
<1>6. up' \in [Slots -> Seq(Sends)] /\ down' \in [Slots -> Seq(Packets)]
  BY <1>1, <1>2, <1>3, <1>4, <1>5
<1> QED
  BY <1>1, <1>3, <1>4, <1>5, <1>6, Zenon

\* Send puts the packet on its way, or loses it with the connection.
LEMMA SentEffect ==
    ASSUME TypeOK, NEW s \in Slots, NEW p \in Packets, Sent(s, p)
    PROVE  /\ down' \in [Slots -> Seq(Packets)]
           /\ \A t \in Slots : /\ Range(down[t]) \subseteq Range(down'[t])
                               /\ Range(down'[t]) \subseteq Range(down[t]) \cup {p}
<1>1. down \in [Slots -> Seq(Packets)]
  BY DEF TypeOK
<1>2. CASE net[s] = "open"
  <2>1. down' = [down EXCEPT ![s] = Append(@, p)]
    BY <1>2 DEF Sent
  <2>2. down[s] \in Seq(Packets) /\ down'[s] = Append(down[s], p)
        /\ \A t \in Slots : t # s => down'[t] = down[t]
    BY <1>1, <2>1
  <2>3. /\ Append(down[s], p) \in Seq(Packets)
        /\ Range(Append(down[s], p)) = Range(down[s]) \cup {p}
    BY <2>2, AppendElements
  <2>4. down' \in [Slots -> Seq(Packets)]
    BY <1>1, <2>1, <2>2, <2>3
  <2> QED
    BY <2>2, <2>3, <2>4, Zenon
<1>3. CASE net[s] # "open"
  BY <1>1, <1>3 DEF Sent
<1> QED
  BY <1>2, <1>3

\* The handler reads a packet.
LEMMA ReceiveEffect ==
    ASSUME TypeOK, NEW s \in Slots, up[s] # <<>>, up' = [up EXCEPT ![s] = Tail(@)]
    PROVE  /\ up' \in [Slots -> Seq(Sends)]
           /\ Head(up[s]) \in Range(up[s])
           /\ \A t \in Slots : Range(up'[t]) \subseteq Range(up[t])
           /\ \A t \in Slots : t # s => up'[t] = up[t]
<1>1. up \in [Slots -> Seq(Sends)]
  BY DEF TypeOK, Sends
<1>2. up[s] \in Seq(Sends) /\ up'[s] = Tail(up[s])
      /\ \A t \in Slots : t # s => up'[t] = up[t]
  BY <1>1
<1>3. /\ Tail(up[s]) \in Seq(Sends) /\ Head(up[s]) \in Range(up[s])
      /\ Range(Tail(up[s])) \subseteq Range(up[s])
  BY <1>2, TailElements, Zenon
<1>4. up' \in [Slots -> Seq(Sends)]
  BY <1>1, <1>2, <1>3
<1> QED
  BY <1>2, <1>3, <1>4, Zenon

-----------------------------------------------------------------------------
(***************************************************************************)
(* Every step of the client keeps the invariant                            *)
(***************************************************************************)

\* The parts a step of the client, of the network or of a handler leaves alone.
LEMMA RowsQuiet ==
    ASSUME SubscriberInv, UNCHANGED <<rows, elsewhere, queued>>,
           delivered \subseteq delivered', acked \subseteq acked'
    PROVE  OneRowPerPacket' /\ RemovedAfterDelivery'
BY DEF SubscriberInv, OneRowPerPacket, RemovedAfterDelivery

\* Dial: CONNECT is on its way on a connection nobody has used.
LEMMA DialStep == ASSUME SubscriberInv, Dial PROVE SubscriberInv'
<1>1. PICK s \in Slots : /\ net[s] = "free" /\ cs' = s
                         /\ net' = [net EXCEPT ![s] = "open"]
                         /\ up' = [up EXCEPT ![s] = <<"CONNECT">>]
                         /\ hpc' = [hpc EXCEPT ![s] = "auth"]
  BY Zenon DEF Dial, Fresh
<1>2. /\ net \in [Slots -> {"free", "open", "gone"}] /\ up \in [Slots -> Seq(Sends)]
      /\ hpc \in [Slots -> {"none", "auth", "connack", "pending", "replay", "loop", "suback"}]
  BY Zenon DEF SubscriberInv, TypeOK, Sends
<1>3. <<"CONNECT">> \in Seq(Sends) /\ <<"CONNECT">> # <<>> /\ Range(<<"CONNECT">>) = {"CONNECT"}
  BY DEF Sends, Range
<1>4. /\ up'[s] = <<"CONNECT">>
      /\ \A t \in Slots : t # s => net'[t] = net[t] /\ up'[t] = up[t] /\ hpc'[t] = hpc[t]
  BY <1>1, <1>2
<1>5. /\ net' \in [Slots -> {"free", "open", "gone"}] /\ up' \in [Slots -> Seq(Sends)]
      /\ hpc' \in [Slots -> {"none", "auth", "connack", "pending", "replay", "loop", "suback"}]
  BY <1>1, <1>2, <1>3
<1>6. TypeOK'
  BY <1>1, <1>5, Zenon
     DEF TypeOK, Sends, SubscriberInv, Dial, brokerVars, othersVars, routeVars, Packets
<1>7. ClientHasConn'
  BY <1>1, Zenon DEF ClientHasConn
<1>8. AuthHasConnect'
  BY <1>3, <1>4, Zenon DEF AuthHasConnect, SubscriberInv
<1>9. AckIsDelivered'
  <2>1. cpc' = "connack"
    BY Zenon DEF Dial
  <2> QED
    BY <2>1 DEF AckIsDelivered
<1>10. UpIsDelivered'
  <2>1. delivered' = delivered /\ "CONNECT" \notin Msgs
    BY SubscriberAssumption, Zenon DEF Dial, history
  <2> QED
    BY <1>3, <1>4, <2>1, Zenon DEF UpIsDelivered, SubscriberInv
<1>11. OneRowPerPacket' /\ RemovedAfterDelivery'
  BY RowsQuiet, Zenon DEF Dial, brokerVars, othersVars, routeVars, history
<1> QED
  BY <1>6, <1>7, <1>8, <1>9, <1>10, <1>11, Zenon DEF SubscriberInv

\* A connection that goes away while nobody reads from it, and the client that gives up
\* the connection it has: nothing more is acknowledged.
LEMMA GoneStep ==
    ASSUME SubscriberInv, NEW s \in Slots, Gone(s),
           UNCHANGED <<strict, handlerVars, brokerVars, routeVars, history>>,
           \/ UNCHANGED <<cpc, cs, got>>
           \/ cpc' = "idle" /\ cs' = NoSlot /\ got' = NoSlot
    PROVE  SubscriberInv'
<1>1. /\ net' \in [Slots -> {"free", "open", "gone"}]
      /\ up' \in [Slots -> Seq(Sends)] /\ down' \in [Slots -> Seq(Packets)]
      /\ net'[s] = "gone" /\ up'[s] = <<>>
      /\ \A t \in Slots : t # s => net'[t] = net[t] /\ up'[t] = up[t]
  BY GoneEffect, Zenon DEF SubscriberInv
<1>2. UNCHANGED <<strict, hpc, pend, registered, session, rows, elsewhere, acked, job, jobConn,
                  delivered, queued>>
  BY Zenon DEF handlerVars, brokerVars, othersVars, routeVars, history
<1>3. TypeOK'
  BY <1>1, <1>2, Zenon DEF TypeOK, Sends, SubscriberInv, Packets
<1>4. ClientHasConn'
  BY Zenon DEF ClientHasConn, SubscriberInv
<1>5. AuthHasConnect'
  <2>1. "gone" # "open"
    OBVIOUS
  <2> QED
    BY <1>1, <1>2, <2>1, Zenon DEF AuthHasConnect, SubscriberInv
<1>6. AckIsDelivered'
  <2>1. "idle" # "ack"
    OBVIOUS
  <2> QED
    BY <1>2, <2>1, Zenon DEF AckIsDelivered, SubscriberInv
<1>7. UpIsDelivered'
  <2>1. Range(up'[s]) = {}
    BY <1>1 DEF Range
  <2> QED
    BY <1>1, <1>2, <2>1, Zenon DEF UpIsDelivered, SubscriberInv
<1>8. OneRowPerPacket' /\ RemovedAfterDelivery'
  BY <1>2, RowsQuiet, Zenon
<1> QED
  BY <1>3, <1>4, <1>5, <1>6, <1>7, <1>8, Zenon DEF SubscriberInv

\* Reading a packet: what is to be acknowledged has been given to the application.
LEMMA ReadStep ==
    ASSUME SubscriberInv, CanRead, NEW label \in {"suback", "consume", "ack"},
           NEW reply \in {<<>>, <<"SUBSCRIBE">>}, ReadAndSend(reply, label),
           got' \in Msgs \cup {NoSlot}, delivered \subseteq delivered', queued' = queued,
           label = "ack" => got' \in Msgs /\ got' \in delivered'
    PROVE  SubscriberInv'
<1>1. /\ cs \in Slots
      /\ up' \in [Slots -> Seq(Sends)] /\ down' \in [Slots -> Seq(Packets)]
      /\ \A t \in Slots : /\ up[t] # <<>> => up'[t] # <<>>
                          /\ Range(up'[t]) \subseteq Range(up[t]) \cup {"SUBSCRIBE"}
  BY ReadEffect, Zenon DEF SubscriberInv
<1>2. /\ cpc' = label
      /\ UNCHANGED <<strict, cs, net, hpc, pend, registered, session, rows, elsewhere, acked,
                     job, jobConn>>
  BY Zenon DEF ReadAndSend, handlerVars, brokerVars, othersVars, routeVars
<1>3. TypeOK'
  <2>1. cpc' \in {"idle", "connack", "suback", "consume", "ack"}
    BY <1>2
  <2> QED
    BY <1>1, <1>2, <2>1, Zenon DEF TypeOK, Sends, SubscriberInv, Packets
<1>4. ClientHasConn' /\ AckIsDelivered'
  BY <1>1, <1>2, Zenon DEF ClientHasConn, AckIsDelivered
<1>5. AuthHasConnect'
  BY <1>1, <1>2, Zenon DEF AuthHasConnect, SubscriberInv
<1>6. UpIsDelivered'
  <2>1. "SUBSCRIBE" \notin Msgs
    BY SubscriberAssumption, Zenon
  <2> SUFFICES ASSUME NEW t \in Slots, NEW p \in Range(up'[t]), p \in Msgs
               PROVE  p \in delivered'
    BY Zenon DEF UpIsDelivered
  <2>2. p \in Range(up[t])
    BY <1>1, <2>1, Zenon
  <2> QED
    BY <2>2, Zenon DEF UpIsDelivered, SubscriberInv
<1>7. OneRowPerPacket' /\ RemovedAfterDelivery'
  BY <1>2, RowsQuiet, Zenon
<1> QED
  BY <1>3, <1>4, <1>5, <1>6, <1>7, Zenon DEF SubscriberInv

\* A PUBLISH is given to the application before it is acknowledged.
LEMMA ConsumeStep == ASSUME SubscriberInv, Consume PROVE SubscriberInv'
<1> DEFINE p == Head(down[cs])
<1>1. /\ CanRead /\ queued' = queued
      /\ got' = IF p \in Msgs THEN p ELSE NoSlot
      /\ delivered' = delivered \cup ({p} \cap Msgs)
      /\ ReadAndSend(<<>>, IF p \in Msgs THEN "ack" ELSE "consume")
  BY DEF Consume
<1>2. CASE p \in Msgs
  <2>1. ReadAndSend(<<>>, "ack") /\ got' \in Msgs /\ got' \in delivered'
        /\ delivered \subseteq delivered'
    BY <1>1, <1>2
  <2> QED
    BY <1>1, <2>1, ReadStep
<1>3. CASE p \notin Msgs
  <2>1. ReadAndSend(<<>>, "consume") /\ got' = NoSlot /\ delivered \subseteq delivered'
    BY <1>1, <1>3
  <2> QED
    BY <1>1, <2>1, ReadStep
<1> QED
  BY <1>2, <1>3

\* The acknowledgement is sent.
LEMMA SendPubAckStep == ASSUME SubscriberInv, SendPubAck PROVE SubscriberInv'
<1>1. /\ cs \in Slots /\ got \in Msgs /\ got \in delivered /\ got \in Sends
      /\ up \in [Slots -> Seq(Sends)] /\ up' = [up EXCEPT ![cs] = Append(@, got)]
  <2>1. "ack" # "idle"
    OBVIOUS
  <2>2. cpc = "ack" /\ up' = [up EXCEPT ![cs] = Append(@, got)]
    BY Zenon DEF SendPubAck
  <2> QED
    BY <2>1, <2>2, Zenon DEF SubscriberInv, ClientHasConn, AckIsDelivered, TypeOK, Sends
<1>2. /\ up[cs] \in Seq(Sends) /\ up'[cs] = Append(up[cs], got)
      /\ \A t \in Slots : t # cs => up'[t] = up[t]
  BY <1>1
<1>3. /\ Append(up[cs], got) \in Seq(Sends) /\ Append(up[cs], got) # <<>>
      /\ Range(Append(up[cs], got)) = Range(up[cs]) \cup {got}
  BY <1>1, <1>2, AppendElements
<1>4. /\ cpc' = "consume" /\ got' = NoSlot
      /\ UNCHANGED <<strict, cs, net, down, hpc, pend, registered, session, rows, elsewhere,
                     acked, job, jobConn, delivered, queued>>
  BY Zenon DEF SendPubAck, handlerVars, brokerVars, othersVars, routeVars, history
<1>5. up' \in [Slots -> Seq(Sends)]
  BY <1>1, <1>2, <1>3
<1>6. TypeOK'
  BY <1>4, <1>5, Zenon DEF TypeOK, Sends, SubscriberInv, Packets
<1>7. ClientHasConn' /\ AckIsDelivered'
  BY <1>1, <1>4 DEF ClientHasConn, AckIsDelivered
<1>8. AuthHasConnect'
  BY <1>2, <1>3, <1>4, Zenon DEF AuthHasConnect, SubscriberInv
<1>9. UpIsDelivered'
  BY <1>1, <1>2, <1>3, <1>4, Zenon DEF UpIsDelivered, SubscriberInv
<1>10. OneRowPerPacket' /\ RemovedAfterDelivery'
  BY <1>4, RowsQuiet, Zenon
<1> QED
  BY <1>6, <1>7, <1>8, <1>9, <1>10, Zenon DEF SubscriberInv

\* Only the client's own step may lead it away from its connection.
LEMMA ClientStepInv == ASSUME SubscriberInv, ClientStep PROVE SubscriberInv'
<1>1. CASE Dial
  BY <1>1, DialStep
<1>2. CASE Unexpected
  <2>1. cs \in Slots
    BY <1>2 DEF Unexpected, CanRead, SubscriberInv, TypeOK
  <2> QED
    BY <1>2, <2>1, GoneStep, Zenon DEF Unexpected, Retry
<1>3. CASE ReadConnAck
  <2>1. /\ CanRead /\ ReadAndSend(<<"SUBSCRIBE">>, "suback") /\ UNCHANGED <<got, history>>
    BY <1>3, Zenon DEF ReadConnAck
  <2>2. got' \in Msgs \cup {NoSlot} /\ delivered' = delivered /\ queued' = queued
    BY <2>1, Zenon DEF SubscriberInv, TypeOK, history
  <2> QED
    BY <2>1, <2>2, ReadStep
<1>4. CASE ReadSubAck
  <2>1. /\ CanRead /\ ReadAndSend(<<>>, "consume") /\ UNCHANGED <<got, history>>
    BY <1>4, Zenon DEF ReadSubAck
  <2>2. got' \in Msgs \cup {NoSlot} /\ delivered' = delivered /\ queued' = queued
    BY <2>1, Zenon DEF SubscriberInv, TypeOK, history
  <2> QED
    BY <2>1, <2>2, ReadStep
<1>5. CASE Consume
  BY <1>5, ConsumeStep
<1>6. CASE SendPubAck
  BY <1>6, SendPubAckStep
<1>7. CASE Broken
  <2>1. /\ cpc' = "idle" /\ cs' = NoSlot /\ got' = NoSlot
        /\ UNCHANGED <<strict, net, up, down, hpc, pend, registered, session, rows, elsewhere,
                       acked, job, jobConn, delivered, queued>>
    BY <1>7, Zenon DEF Broken, wires, handlerVars, brokerVars, othersVars, routeVars, history
  <2>2. TypeOK'
    BY <2>1, Zenon DEF TypeOK, SubscriberInv, Packets
  <2>3. ClientHasConn' /\ AckIsDelivered'
    BY <2>1 DEF ClientHasConn, AckIsDelivered
  <2>4. AuthHasConnect' /\ UpIsDelivered'
    BY <2>1, Zenon DEF AuthHasConnect, UpIsDelivered, SubscriberInv
  <2>5. OneRowPerPacket' /\ RemovedAfterDelivery'
    BY <2>1, RowsQuiet, Zenon
  <2> QED
    BY <2>2, <2>3, <2>4, <2>5, Zenon DEF SubscriberInv
<1> QED
  BY <1>1, <1>2, <1>3, <1>4, <1>5, <1>6, <1>7, Zenon DEF ClientStep

-----------------------------------------------------------------------------
(***************************************************************************)
(* Every step of a handler and of the router keeps the invariant           *)
(***************************************************************************)

\* A step that reads nothing from the client and leaves the queue alone.
LEMMA QuietStep ==
    ASSUME SubscriberInv, TypeOK',
           UNCHANGED <<cpc, cs, got, up, rows, elsewhere, acked, queued, job, delivered>>,
           \A t \in Slots : hpc'[t] = "auth" /\ net'[t] = "open"
                            => hpc[t] = "auth" /\ net[t] = "open"
    PROVE  SubscriberInv'
<1>1. ClientHasConn' /\ AckIsDelivered' /\ UpIsDelivered'
  BY Zenon DEF ClientHasConn, AckIsDelivered, UpIsDelivered, SubscriberInv
<1>2. AuthHasConnect'
  BY Zenon DEF AuthHasConnect, SubscriberInv
<1>3. OneRowPerPacket' /\ RemovedAfterDelivery'
  BY RowsQuiet, Zenon
<1> QED
  BY <1>1, <1>2, <1>3, Zenon DEF SubscriberInv

\* A handler changes its own label only.
LEMMA HandlerAtEffect ==
    ASSUME TypeOK, NEW s \in Slots, NEW from,
           NEW to \in {"none", "connack", "pending", "replay", "loop", "suback"},
           HandlerAt(s, from, to)
    PROVE  /\ hpc' \in [Slots -> {"none", "auth", "connack", "pending", "replay", "loop",
                                  "suback"}]
           /\ hpc[s] = from /\ hpc'[s] = to /\ to # "auth"
           /\ \A t \in Slots : t # s => hpc'[t] = hpc[t]
BY DEF TypeOK, HandlerAt

\* CONNECT is read; the session is online on this connection.
LEMMA HAuthenticateStep ==
    ASSUME SubscriberInv, NEW s \in Slots, HAuthenticate(s) PROVE SubscriberInv'
<1>1. HandlerAt(s, "auth", "connack") /\ net[s] = "open" /\ session' = s
      /\ up' = [up EXCEPT ![s] = Tail(@)]
  BY Zenon DEF HAuthenticate
<1>2. /\ hpc' \in [Slots -> {"none", "auth", "connack", "pending", "replay", "loop", "suback"}]
      /\ hpc[s] = "auth" /\ hpc'[s] = "connack"
      /\ \A t \in Slots : t # s => hpc'[t] = hpc[t]
  BY <1>1, HandlerAtEffect DEF SubscriberInv
<1>3. up[s] # <<>>
  BY <1>1, <1>2, Zenon DEF SubscriberInv, AuthHasConnect
<1>4. /\ up' \in [Slots -> Seq(Sends)]
      /\ \A t \in Slots : Range(up'[t]) \subseteq Range(up[t])
      /\ \A t \in Slots : t # s => up'[t] = up[t]
  BY <1>1, <1>3, ReceiveEffect, Zenon DEF SubscriberInv
<1>5. UNCHANGED <<strict, cpc, cs, got, net, down, pend, registered, rows, elsewhere, acked,
                  job, jobConn, delivered, queued>>
  BY Zenon DEF HAuthenticate, clientVars, othersVars, routeVars, history
<1>6. TypeOK'
  BY <1>1, <1>2, <1>4, <1>5, Zenon DEF TypeOK, Sends, SubscriberInv, Packets
<1>7. ClientHasConn' /\ AckIsDelivered'
  BY <1>5, Zenon DEF ClientHasConn, AckIsDelivered, SubscriberInv
<1>8. AuthHasConnect'
  <2>1. "connack" # "auth"
    OBVIOUS
  <2> QED
    BY <1>2, <1>4, <1>5, <2>1, Zenon DEF AuthHasConnect, SubscriberInv
<1>9. UpIsDelivered'
  BY <1>4, <1>5, Zenon DEF UpIsDelivered, SubscriberInv
<1>10. OneRowPerPacket' /\ RemovedAfterDelivery'
  BY <1>5, RowsQuiet, Zenon
<1> QED
  BY <1>6, <1>7, <1>8, <1>9, <1>10, Zenon DEF SubscriberInv

\* In its loop the handler reads a packet; what it does to the queue is not part of this.
LEMMA LoopReadStep ==
    ASSUME SubscriberInv, NEW s \in Slots, CanReceive(s),
           up' = [up EXCEPT ![s] = Tail(@)],
           hpc' = hpc \/ HandlerAt(s, "loop", "suback"),
           UNCHANGED <<clientVars, net, pend, session, acked, routeVars, history>>,
           down' \in [Slots -> Seq(Packets)], registered' \in BOOLEAN, rows' \in Seq(Msgs),
           elsewhere' \subseteq Shared
    PROVE  /\ TypeOK' /\ ClientHasConn' /\ AuthHasConnect' /\ AckIsDelivered' /\ UpIsDelivered'
           /\ Head(up[s]) \in Range(up[s]) /\ UNCHANGED <<delivered, queued>>
<1>1. hpc[s] = "loop" /\ up[s] # <<>>
  BY Zenon DEF CanReceive
<1>2. /\ hpc' \in [Slots -> {"none", "auth", "connack", "pending", "replay", "loop", "suback"}]
      /\ hpc'[s] # "auth"
      /\ \A t \in Slots : t # s => hpc'[t] = hpc[t]
  <2>1. CASE hpc' = hpc
    BY <1>1, <2>1 DEF SubscriberInv, TypeOK
  <2>2. CASE HandlerAt(s, "loop", "suback")
    BY <2>2, HandlerAtEffect DEF SubscriberInv
  <2> QED
    BY <2>1, <2>2, Zenon
<1>3. /\ up' \in [Slots -> Seq(Sends)] /\ Head(up[s]) \in Range(up[s])
      /\ \A t \in Slots : Range(up'[t]) \subseteq Range(up[t])
      /\ \A t \in Slots : t # s => up'[t] = up[t]
  BY <1>1, ReceiveEffect, Zenon DEF SubscriberInv
<1>4. UNCHANGED <<strict, cpc, cs, got, net, pend, session, acked, job, jobConn, delivered,
                  queued>>
  BY Zenon DEF clientVars, routeVars, history
<1>5. TypeOK'
  BY <1>2, <1>3, <1>4, Zenon DEF TypeOK, Sends, SubscriberInv, Packets
<1>6. ClientHasConn' /\ AckIsDelivered'
  BY <1>4, Zenon DEF ClientHasConn, AckIsDelivered, SubscriberInv
<1>7. AuthHasConnect'
  BY <1>2, <1>3, <1>4, Zenon DEF AuthHasConnect, SubscriberInv
<1>8. UpIsDelivered'
  BY <1>3, <1>4, Zenon DEF UpIsDelivered, SubscriberInv
<1> QED
  BY <1>3, <1>4, <1>5, <1>6, <1>7, <1>8, Zenon

\* SUBSCRIBE changes the registry and leaves the queue alone.
LEMMA HSubscribeStep ==
    ASSUME SubscriberInv, NEW s \in Slots, HSubscribe(s) PROVE SubscriberInv'
<1>1. /\ CanReceive(s) /\ up' = [up EXCEPT ![s] = Tail(@)]
      /\ HandlerAt(s, "loop", "suback") /\ registered' = TRUE
      /\ UNCHANGED <<clientVars, net, down, pend, session, rows, elsewhere, acked, routeVars,
                     history>>
  BY Zenon DEF HSubscribe, othersVars
<1>2. /\ registered' \in BOOLEAN /\ rows' \in Seq(Msgs) /\ elsewhere' \subseteq Shared
      /\ down' \in [Slots -> Seq(Packets)]
  BY <1>1, Zenon DEF SubscriberInv, TypeOK
<1>3. /\ TypeOK' /\ ClientHasConn' /\ AuthHasConnect' /\ AckIsDelivered' /\ UpIsDelivered'
      /\ UNCHANGED <<delivered, queued>>
  BY <1>1, <1>2, LoopReadStep, Zenon
<1>4. OneRowPerPacket' /\ RemovedAfterDelivery'
  BY <1>1, <1>3, RowsQuiet, Zenon
<1> QED
  BY <1>3, <1>4, Zenon DEF SubscriberInv

\* A PUBACK that is turned away, or whose statement fails, changes nothing but the wires.
LEMMA PubAckLostStep ==
    ASSUME SubscriberInv, NEW s \in Slots, HPubAckFails(s) \/ HLimited(s) PROVE SubscriberInv'
<1>1. /\ CanReceive(s) /\ up' = [up EXCEPT ![s] = Tail(@)]
      /\ UNCHANGED <<clientVars, net, hpc, pend, registered, session, rows, elsewhere, acked,
                     routeVars, history>>
  BY Zenon DEF HPubAckFails, HLimited, handlerVars, brokerVars, othersVars
<1>2. down' \in [Slots -> Seq(Packets)]
  <2>1. TypeOK /\ "ERROR" \in Packets
    BY DEF SubscriberInv, Packets
  <2>2. CASE HPubAckFails(s)
    BY <2>1, <2>2, Zenon DEF HPubAckFails, TypeOK
  <2>3. CASE HLimited(s)
    BY <2>1, <2>3, SentEffect, Zenon DEF HLimited
  <2> QED
    BY <2>2, <2>3, Zenon
<1>3. registered' \in BOOLEAN /\ rows' \in Seq(Msgs) /\ elsewhere' \subseteq Shared
  BY <1>1, Zenon DEF SubscriberInv, TypeOK
<1>4. /\ TypeOK' /\ ClientHasConn' /\ AuthHasConnect' /\ AckIsDelivered' /\ UpIsDelivered'
      /\ UNCHANGED <<delivered, queued>>
  BY <1>1, <1>2, <1>3, LoopReadStep, Zenon
<1>5. OneRowPerPacket' /\ RemovedAfterDelivery'
  BY <1>1, <1>4, RowsQuiet, Zenon
<1> QED
  BY <1>4, <1>5, Zenon DEF SubscriberInv

\* PUBACK deletes the row of the packet it names and no other one.
LEMMA RowDeleted ==
    ASSUME SubscriberInv, NEW i \in DOMAIN rows, rows' = Without(rows, i)
    PROVE  /\ rows' \in Seq(Msgs)
           /\ \A j, k \in DOMAIN rows' : rows'[j] = rows'[k] => j = k
           /\ Range(rows') \subseteq Range(rows)
           /\ \A m \in Range(rows) : m # rows[i] => m \in Range(rows')
<1> DEFINE n == Len(rows)
<1>1. rows \in Seq(Msgs) /\ n \in Nat /\ DOMAIN rows = 1..n /\ i \in 1..n
  <2>1. rows \in Seq(Msgs)
    BY Zenon DEF SubscriberInv, TypeOK
  <2> QED
    BY <2>1, LenProperties
<1>2. /\ rows' \in Seq(Msgs) /\ Len(rows') = n - 1 /\ n >= 1
      /\ \A j \in 1..(i - 1) : rows'[j] = rows[j]
      /\ \A j \in i..(n - 1) : rows'[j] = rows[j + 1]
  BY <1>1, WithoutElements, Zenon
<1>3. DOMAIN rows' = 1..(n - 1)
  BY <1>2, LenProperties
<1>4. \A j \in 1..(n - 1) : /\ j < i => j \in 1..n /\ j \in 1..(i - 1)
                            /\ ~(j < i) => j + 1 \in 1..n /\ j \in i..(n - 1)
  BY <1>1
<1>5. \A j \in 1..(n - 1) : /\ j < i => rows'[j] = rows[j]
                            /\ ~(j < i) => rows'[j] = rows[j + 1]
  BY <1>2, <1>4, Zenon
<1>6. Range(rows') \subseteq Range(rows)
  <2> SUFFICES ASSUME NEW j \in 1..(n - 1) PROVE rows'[j] \in Range(rows)
    BY <1>3, Zenon DEF Range
  <2> QED
    BY <1>1, <1>4, <1>5, Zenon DEF Range
<1>7. ASSUME NEW k \in 1..n, k # i PROVE \E j \in 1..(n - 1) : rows'[j] = rows[k]
  <2>1. CASE k < i
    <3>1. k \in 1..(n - 1)
      BY <1>1, <2>1
    <3> QED
      BY <1>5, <2>1, <3>1, Zenon
  <2>2. CASE ~(k < i)
    <3>1. k - 1 \in 1..(n - 1) /\ ~(k - 1 < i) /\ (k - 1) + 1 = k
      BY <1>1, <1>7, <2>2
    <3> QED
      BY <1>5, <3>1
  <2> QED
    BY <2>1, <2>2, Zenon
<1>8. \A m \in Range(rows) : m # rows[i] => m \in Range(rows')
  <2> SUFFICES ASSUME NEW k \in 1..n, rows[k] # rows[i] PROVE rows[k] \in Range(rows')
    BY <1>1, Zenon DEF Range
  <2> QED
    BY <1>3, <1>7, Zenon DEF Range
<1>9. ASSUME NEW j \in DOMAIN rows', NEW k \in DOMAIN rows', rows'[j] = rows'[k]
      PROVE  j = k
  <2> DEFINE old(x) == IF x < i THEN x ELSE x + 1
  <2>1. j \in 1..(n - 1) /\ k \in 1..(n - 1)
    BY <1>3, Zenon
  <2>2. rows'[j] = rows[old(j)] /\ rows'[k] = rows[old(k)]
    BY <1>5, <2>1, Zenon
  <2>3. old(j) \in 1..n /\ old(k) \in 1..n
    BY <1>4, <2>1, Zenon
  <2>4. old(j) = old(k)
    BY <1>1, <1>9, <2>2, <2>3, Zenon DEF SubscriberInv, OneRowPerPacket
  <2> QED
    BY <1>1, <2>1, <2>4
<1> QED
  BY <1>2, <1>6, <1>8, <1>9, Zenon

\* DELETE by packet id: rows of other packets stay, whoever they are for.
LEMMA DeleteRowEffect ==
    ASSUME SubscriberInv, NEW m, DeleteRow(m)
    PROVE  /\ rows' \in Seq(Msgs) /\ elsewhere' \subseteq Shared /\ OneRowPerPacket'
           /\ \A k \in Range(rows) \cup elsewhere :
                 k # m => k \in Range(rows') \cup elsewhere'
<1>1. elsewhere' = elsewhere \ {m}
  BY Zenon DEF DeleteRow
<1>2. /\ rows' \in Seq(Msgs)
      /\ \A j, k \in DOMAIN rows' : rows'[j] = rows'[k] => j = k
      /\ Range(rows') \subseteq Range(rows)
      /\ \A k \in Range(rows) : k # m => k \in Range(rows')
  <2>1. CASE rows' = rows
    BY <2>1, Zenon DEF SubscriberInv, TypeOK, OneRowPerPacket
  <2>2. CASE rows' # rows
    <3>1. PICK i \in DOMAIN rows : rows[i] = m /\ rows' = Without(rows, i)
      BY <2>2, Zenon DEF DeleteRow, Without
    <3> QED
      BY <3>1, RowDeleted, Zenon
  <2> QED
    BY <2>1, <2>2, Zenon
<1>3. elsewhere \subseteq Shared /\ Range(rows) \cap elsewhere = {}
  BY Zenon DEF SubscriberInv, TypeOK, OneRowPerPacket
<1>4. OneRowPerPacket'
  BY <1>1, <1>2, <1>3, Zenon DEF OneRowPerPacket
<1> QED
  BY <1>1, <1>2, <1>3, <1>4, Zenon

\* The row goes away after the packet was given to the application.
LEMMA HPubAckStep ==
    ASSUME SubscriberInv, NEW s \in Slots, HPubAck(s) PROVE SubscriberInv'
<1>1. /\ CanReceive(s) /\ up' = [up EXCEPT ![s] = Tail(@)] /\ Head(up[s]) \in Msgs
      /\ hpc' = hpc /\ registered' = registered /\ DeleteRow(Head(up[s]))
      /\ UNCHANGED <<clientVars, net, down, pend, session, acked, routeVars, history>>
  BY Zenon DEF HPubAck, handlerVars
<1>2. /\ rows' \in Seq(Msgs) /\ elsewhere' \subseteq Shared /\ OneRowPerPacket'
      /\ \A k \in Range(rows) \cup elsewhere :
            k # Head(up[s]) => k \in Range(rows') \cup elsewhere'
  BY <1>1, DeleteRowEffect, Zenon
<1>3. registered' \in BOOLEAN /\ down' \in [Slots -> Seq(Packets)]
  BY <1>1, Zenon DEF SubscriberInv, TypeOK
<1>4. /\ TypeOK' /\ ClientHasConn' /\ AuthHasConnect' /\ AckIsDelivered' /\ UpIsDelivered'
      /\ Head(up[s]) \in Range(up[s]) /\ UNCHANGED <<delivered, queued>>
  BY <1>1, <1>2, <1>3, LoopReadStep, Zenon
<1>5. Head(up[s]) \in delivered
  BY <1>1, <1>4, Zenon DEF SubscriberInv, UpIsDelivered
<1>6. RemovedAfterDelivery'
  BY <1>1, <1>2, <1>4, <1>5, Zenon DEF SubscriberInv, RemovedAfterDelivery
<1> QED
  BY <1>2, <1>4, <1>6, Zenon DEF SubscriberInv

\* The steps of a handler that read nothing: its label, its session, what it replays.
LEMMA HandlerStepInv ==
    ASSUME SubscriberInv, NEW s \in Slots, HandlerStep(s) PROVE SubscriberInv'
<1> DEFINE Labels == {"none", "auth", "connack", "pending", "replay", "loop", "suback"}
<1>0. TypeOK /\ hpc \in [Slots -> Labels] /\ net \in [Slots -> {"free", "open", "gone"}]
      /\ pend \in [Slots -> Seq(Msgs)]
  BY Zenon DEF SubscriberInv, TypeOK
<1>1. CASE HAuthenticate(s)
  BY <1>1, HAuthenticateStep
<1>2. CASE HConnAck(s)
  <2>1. HandlerAt(s, "connack", "pending") /\ Sent(s, "CONNACK") /\ "CONNACK" \in Packets
    BY <1>2 DEF HConnAck, Packets
  <2>2. /\ UNCHANGED <<clientVars, net, up, pend, brokerVars, routeVars, faults, history>>
    BY <1>2, Zenon DEF HConnAck
  <2>3. UNCHANGED <<strict, cpc, cs, got, net, up, pend, registered, session, rows, elsewhere,
                    acked, job, jobConn, delivered, queued>>
    BY <2>2, Zenon DEF clientVars, brokerVars, othersVars, routeVars, history
  <2>4. down' \in [Slots -> Seq(Packets)]
    BY <1>0, <2>1, SentEffect, Zenon
  <2>5. hpc' \in [Slots -> Labels] /\ hpc'[s] # "auth" /\ \A t \in Slots : t # s => hpc'[t] = hpc[t]
    BY <1>0, <2>1, HandlerAtEffect
  <2>6. TypeOK'
    BY <1>0, <2>3, <2>4, <2>5, Zenon DEF TypeOK, Packets
  <2> QED
    BY <2>3, <2>5, <2>6, QuietStep, Zenon
<1>3. CASE HAuthFail(s)
  <2>1. /\ UNCHANGED <<strict, cpc, cs, got, up, down, pend, registered, session, rows,
                       elsewhere, acked, job, jobConn, delivered, queued>>
    BY <1>3, Zenon DEF HAuthFail, clientVars, brokerVars, othersVars, routeVars, history
  <2>2. hpc' = [hpc EXCEPT ![s] = "none"] /\ net' = [net EXCEPT ![s] = "free"]
    BY <1>3, Zenon DEF HAuthFail
  <2>3. /\ hpc' \in [Slots -> Labels] /\ net' \in [Slots -> {"free", "open", "gone"}]
        /\ hpc'[s] # "auth" /\ \A t \in Slots : t # s => hpc'[t] = hpc[t] /\ net'[t] = net[t]
    BY <1>0, <2>2
  <2>4. TypeOK'
    BY <1>0, <2>1, <2>3, Zenon DEF TypeOK, Packets
  <2> QED
    BY <2>1, <2>3, <2>4, QuietStep, Zenon
<1>4. CASE HPending(s) \/ HPendingFails(s) \/ HReplayed(s)
  <2>1. /\ UNCHANGED <<clientVars, wires, brokerVars, routeVars, history>>
        /\ \/ HandlerAt(s, "pending", "replay") /\ pend' = [pend EXCEPT ![s] = rows]
           \/ HandlerAt(s, "pending", "loop") /\ pend' = pend
           \/ HandlerAt(s, "replay", "loop") /\ pend' = [pend EXCEPT ![s] = <<>>]
    BY <1>4, Zenon DEF HPending, HPendingFails, HReplayed
  <2>2. UNCHANGED <<strict, cpc, cs, got, net, up, down, registered, session, rows, elsewhere,
                    acked, job, jobConn, delivered, queued>>
    BY <2>1, Zenon DEF clientVars, wires, brokerVars, othersVars, routeVars, history
  <2>3. hpc' \in [Slots -> Labels] /\ hpc'[s] # "auth" /\ \A t \in Slots : t # s => hpc'[t] = hpc[t]
    BY <1>0, <2>1, HandlerAtEffect
  <2>4. pend' \in [Slots -> Seq(Msgs)]
    <3>1. rows \in Seq(Msgs) /\ <<>> \in Seq(Msgs)
      BY <1>0, EmptySeq, Zenon DEF TypeOK
    <3> QED
      BY <1>0, <2>1, <3>1
  <2>5. TypeOK'
    BY <1>0, <2>2, <2>3, <2>4, Zenon DEF TypeOK, Packets
  <2> QED
    BY <2>2, <2>3, <2>5, QuietStep, Zenon
<1>5. CASE HReplay(s)
  <2>1. pend[s] # <<>> /\ Sent(s, Head(pend[s])) /\ pend' = [pend EXCEPT ![s] = Tail(@)]
    BY <1>5, Zenon DEF HReplay
  <2>2. UNCHANGED <<strict, cpc, cs, got, net, up, hpc, registered, session, rows, elsewhere,
                    acked, job, jobConn, delivered, queued>>
    BY <1>5, Zenon DEF HReplay, clientVars, brokerVars, othersVars, routeVars, history
  <2>3. pend[s] \in Seq(Msgs)
    BY <1>0
  <2>4. Tail(pend[s]) \in Seq(Msgs) /\ Head(pend[s]) \in Msgs
    BY <2>1, <2>3, TailElements, Zenon
  <2>5. Head(pend[s]) \in Packets
    BY <2>4, Zenon DEF Packets
  <2>6. down' \in [Slots -> Seq(Packets)]
    BY <1>0, <2>1, <2>5, SentEffect, Zenon
  <2>7. pend' \in [Slots -> Seq(Msgs)]
    BY <1>0, <2>1, <2>4
  <2>8. TypeOK'
    BY <1>0, <2>2, <2>6, <2>7, Zenon DEF TypeOK, Packets
  <2> QED
    BY <2>2, <2>8, QuietStep, Zenon
<1>6. CASE HSubscribe(s)
  BY <1>6, HSubscribeStep
<1>7. CASE HSubAck(s)
  <2>1. HandlerAt(s, "suback", "loop") /\ Sent(s, "SUBACK") /\ "SUBACK" \in Packets
    BY <1>7 DEF HSubAck, Packets
  <2>2. UNCHANGED <<strict, cpc, cs, got, net, up, pend, registered, session, rows, elsewhere,
                    acked, job, jobConn, delivered, queued>>
    BY <1>7, Zenon DEF HSubAck, clientVars, brokerVars, othersVars, routeVars, history
  <2>3. down' \in [Slots -> Seq(Packets)]
    BY <1>0, <2>1, SentEffect, Zenon
  <2>4. hpc' \in [Slots -> Labels] /\ hpc'[s] # "auth" /\ \A t \in Slots : t # s => hpc'[t] = hpc[t]
    BY <1>0, <2>1, HandlerAtEffect
  <2>5. TypeOK'
    BY <1>0, <2>2, <2>3, <2>4, Zenon DEF TypeOK, Packets
  <2> QED
    BY <2>2, <2>4, <2>5, QuietStep, Zenon
<1>8. CASE HPubAck(s)
  BY <1>8, HPubAckStep
<1>9. CASE HLeave(s)
  <2>1. HandlerAt(s, "loop", "none") /\ net' = [net EXCEPT ![s] = "free"] /\ session' = NoSlot
    BY <1>9, Zenon DEF HLeave
  <2>2. UNCHANGED <<strict, cpc, cs, got, up, down, pend, registered, rows, elsewhere, acked,
                    job, jobConn, delivered, queued>>
    BY <1>9, Zenon DEF HLeave, clientVars, othersVars, routeVars, history
  <2>3. hpc' \in [Slots -> Labels] /\ hpc'[s] # "auth" /\ \A t \in Slots : t # s => hpc'[t] = hpc[t]
    BY <1>0, <2>1, HandlerAtEffect
  <2>4. net' \in [Slots -> {"free", "open", "gone"}] /\ \A t \in Slots : t # s => net'[t] = net[t]
    BY <1>0, <2>1
  <2>5. TypeOK'
    BY <1>0, <2>1, <2>2, <2>3, <2>4, Zenon DEF TypeOK, Packets
  <2> QED
    BY <2>2, <2>3, <2>4, <2>5, QuietStep, Zenon
<1>10. CASE HPubAckFails(s) \/ HLimited(s)
  BY <1>10, PubAckLostStep
<1> QED
  BY <1>1, <1>2, <1>3, <1>4, <1>5, <1>6, <1>7, <1>8, <1>9, <1>10, Zenon DEF HandlerStep

\* ON CONFLICT DO NOTHING: a row is added when the packet has none, and in either case
\* the packet has a row afterwards.
LEMMA RouteQueueStep ==
    ASSUME SubscriberInv, NEW m \in Msgs, RouteQueue(m) PROVE SubscriberInv'
<1>1. /\ rows' = IF m \in Range(rows) \cup elsewhere THEN rows ELSE Append(rows, m)
      /\ queued' = queued \cup {m}
      /\ job' = [job EXCEPT ![m] = "done"] /\ jobConn' = [jobConn EXCEPT ![m] = NoSlot]
      /\ UNCHANGED <<strict, cpc, cs, got, net, up, down, hpc, pend, registered, session,
                     elsewhere, acked, delivered>>
  BY Zenon DEF RouteQueue, RouteTo, clientVars, wires, handlerVars, othersVars
<1>2. /\ rows \in Seq(Msgs) /\ job \in [Msgs -> {"new", "send", "queue", "done"}]
      /\ jobConn \in [Msgs -> Slots \cup {NoSlot}]
  BY Zenon DEF SubscriberInv, TypeOK
<1>3. /\ rows' \in Seq(Msgs) /\ Range(rows) \subseteq Range(rows')
      /\ m \in Range(rows') \cup elsewhere' /\ OneRowPerPacket'
  <2>1. CASE m \in Range(rows) \cup elsewhere
    <3>1. rows' = rows
      BY <1>1, <2>1, Zenon
    <3> QED
      BY <1>1, <1>2, <2>1, <3>1, Zenon DEF SubscriberInv, OneRowPerPacket
  <2>2. CASE m \notin Range(rows) \cup elsewhere
    <3>1. rows' = Append(rows, m)
      BY <1>1, <2>2, Zenon
    <3>2. rows' \in Seq(Msgs) /\ Range(rows') = Range(rows) \cup {m}
      BY <1>2, <3>1, AppendElements
    <3>3. Len(rows) \in Nat /\ DOMAIN rows = 1..Len(rows)
      BY <1>2, LenProperties
    <3>4. \A i \in DOMAIN rows : rows[i] # m
      BY <2>2, Zenon DEF Range
    <3>5. /\ Len(rows') = Len(rows) + 1 /\ rows'[Len(rows) + 1] = m
          /\ \A i \in 1..Len(rows) : rows'[i] = rows[i]
      BY <1>2, <3>1, AppendProperties
    <3>6. \A i, j \in DOMAIN rows : rows[i] = rows[j] => i = j
      BY Zenon DEF SubscriberInv, OneRowPerPacket
    <3>7. DOMAIN rows' = 1..Len(rows')
      BY <3>2, LenProperties
    <3>8. \A i \in DOMAIN rows' : i \in DOMAIN rows \/ i = Len(rows) + 1
      BY <3>3, <3>5, <3>7
    <3>9. \A i, j \in DOMAIN rows' : rows'[i] = rows'[j] => i = j
      BY <3>3, <3>4, <3>5, <3>6, <3>8, Zenon
    <3>10. Range(rows) \cap elsewhere = {} /\ elsewhere' = elsewhere
      BY <1>1, Zenon DEF SubscriberInv, OneRowPerPacket
    <3>11. OneRowPerPacket'
      BY <2>2, <3>2, <3>9, <3>10, Zenon DEF OneRowPerPacket
    <3> QED
      BY <3>2, <3>11, Zenon
  <2> QED
    BY <2>1, <2>2, Zenon
<1>4. /\ job' \in [Msgs -> {"new", "send", "queue", "done"}]
      /\ jobConn' \in [Msgs -> Slots \cup {NoSlot}]
  BY <1>1, <1>2
<1>5. TypeOK'
  BY <1>1, <1>3, <1>4, Zenon DEF TypeOK, SubscriberInv, Packets
<1>6. ClientHasConn' /\ AckIsDelivered' /\ AuthHasConnect' /\ UpIsDelivered'
  BY <1>1, Zenon DEF ClientHasConn, AckIsDelivered, AuthHasConnect, UpIsDelivered,
                     SubscriberInv
<1>7. RemovedAfterDelivery'
  BY <1>1, <1>3, Zenon DEF RemovedAfterDelivery, SubscriberInv
<1> QED
  BY <1>3, <1>5, <1>6, <1>7, Zenon DEF SubscriberInv

\* What the router remembers of a packet is not part of the invariant.
LEMMA RouteLabels ==
    ASSUME SubscriberInv,
           job' \in [Msgs -> {"new", "send", "queue", "done"}],
           jobConn' \in [Msgs -> Slots \cup {NoSlot}],
           down' \in [Slots -> Seq(Packets)],
           UNCHANGED <<clientVars, net, up, handlerVars, brokerVars, history>>
    PROVE  SubscriberInv'
<1>1. UNCHANGED <<strict, cpc, cs, got, net, up, hpc, pend, registered, session, rows,
                  elsewhere, acked, delivered, queued>>
  BY Zenon DEF clientVars, handlerVars, brokerVars, othersVars, history
<1>2. TypeOK'
  BY <1>1, Zenon DEF TypeOK, SubscriberInv, Packets
<1>3. ClientHasConn' /\ AckIsDelivered' /\ AuthHasConnect' /\ UpIsDelivered'
  BY <1>1, Zenon DEF ClientHasConn, AckIsDelivered, AuthHasConnect, UpIsDelivered,
                     SubscriberInv
<1>4. OneRowPerPacket' /\ RemovedAfterDelivery'
  BY <1>1, RowsQuiet, Zenon
<1> QED
  BY <1>2, <1>3, <1>4, Zenon DEF SubscriberInv

\* The router's steps.
LEMMA RouterStepInv ==
    ASSUME SubscriberInv, NEW m \in Msgs,
           Lookup(m) \/ LookupAgain(m) \/ RouteStep(m) \/ RouteQueueFails(m)
    PROVE  SubscriberInv'
<1>0. /\ TypeOK /\ job \in [Msgs -> {"new", "send", "queue", "done"}]
      /\ jobConn \in [Msgs -> Slots \cup {NoSlot}] /\ down \in [Slots -> Seq(Packets)]
      /\ session \in Slots \cup {NoSlot}
  BY Zenon DEF SubscriberInv, TypeOK
<1>1. CASE Match(m)
  <2>1. UNCHANGED <<clientVars, net, up, down, handlerVars, brokerVars, history>>
    BY <1>1, Zenon DEF Match, wires
  <2>2. job' \in [Msgs -> {"new", "send", "queue", "done"}]
    BY <1>0, <1>1 DEF Match
  <2>3. jobConn' \in [Msgs -> Slots \cup {NoSlot}]
    BY <1>0, <1>1 DEF Match
  <2> QED
    BY <1>0, <2>1, <2>2, <2>3, RouteLabels, Zenon
<1>2. CASE RouteSend(m)
  <2>1. /\ UNCHANGED <<clientVars, net, up, handlerVars, brokerVars, history>>
        /\ job[m] = "send" /\ Sent(jobConn[m], m) /\ RouteTo(m, "done")
    BY <1>2, Zenon DEF RouteSend
  <2>2. down' \in [Slots -> Seq(Packets)]
    <3>1. m \in Packets
      BY DEF Packets
    <3>2. CASE jobConn[m] \in Slots
      BY <1>0, <2>1, <3>1, <3>2, SentEffect, Zenon
    <3>3. CASE jobConn[m] \notin Slots
      BY <1>0, <2>1, <3>3 DEF Sent
    <3> QED
      BY <3>2, <3>3, Zenon
  <2>3. /\ job' \in [Msgs -> {"new", "send", "queue", "done"}]
        /\ jobConn' \in [Msgs -> Slots \cup {NoSlot}]
    BY <1>0, <2>1 DEF RouteTo
  <2> QED
    BY <2>1, <2>2, <2>3, RouteLabels, Zenon
<1>3. CASE RouteSendFail(m) \/ RouteQueueFails(m)
  <2>1. /\ UNCHANGED <<clientVars, net, up, down, handlerVars, brokerVars, history>>
        /\ RouteTo(m, "queue") \/ RouteTo(m, "done")
    BY <1>3, Zenon DEF RouteSendFail, RouteQueueFails, wires
  <2>2. /\ job' \in [Msgs -> {"new", "send", "queue", "done"}]
        /\ jobConn' \in [Msgs -> Slots \cup {NoSlot}]
        /\ down' \in [Slots -> Seq(Packets)]
    BY <1>0, <2>1 DEF RouteTo
  <2> QED
    BY <2>1, <2>2, RouteLabels, Zenon
<1>4. CASE RouteQueue(m)
  BY <1>4, RouteQueueStep
<1> QED
  BY <1>1, <1>2, <1>3, <1>4, Zenon DEF RouteStep, Lookup, LookupAgain

\* What the other subscribers do to the table.
LEMMA OtherStepInv ==
    ASSUME SubscriberInv, NEW m \in Shared, OtherQueued(m) \/ OtherPubAck(m)
    PROVE  SubscriberInv'
<1>1. UNCHANGED <<strict, cpc, cs, got, net, up, down, hpc, pend, registered, session, job,
                  jobConn, delivered, queued>>
  BY Zenon DEF OtherQueued, OtherPubAck, clientVars, wires, handlerVars, routeVars, history
<1>2. ClientHasConn' /\ AckIsDelivered' /\ AuthHasConnect' /\ UpIsDelivered'
  BY <1>1, Zenon DEF ClientHasConn, AckIsDelivered, AuthHasConnect, UpIsDelivered,
                     SubscriberInv
<1>3. /\ rows \in Seq(Msgs) /\ elsewhere \subseteq Shared /\ acked \subseteq Shared
      /\ queued \subseteq Range(rows) \cup elsewhere \cup delivered \cup acked
  BY Zenon DEF SubscriberInv, TypeOK, RemovedAfterDelivery
<1>4. /\ rows' \in Seq(Msgs) /\ elsewhere' \subseteq Shared /\ acked' \subseteq Shared
      /\ OneRowPerPacket'
      /\ Range(rows) \cup elsewhere \cup acked \subseteq Range(rows') \cup elsewhere' \cup acked'
  <2>1. CASE OtherQueued(m)
    <3>1. m \notin Range(rows) /\ elsewhere' = elsewhere \cup {m} /\ UNCHANGED <<rows, acked>>
      BY <2>1, Zenon DEF OtherQueued
    <3>2. OneRowPerPacket'
      BY <3>1, Zenon DEF SubscriberInv, OneRowPerPacket
    <3> QED
      BY <1>3, <3>1, <3>2, Zenon
  <2>2. CASE OtherPubAck(m)
    <3>1. acked' = acked \cup {m} /\ DeleteRow(m)
      BY <2>2, Zenon DEF OtherPubAck
    <3>2. /\ rows' \in Seq(Msgs) /\ elsewhere' \subseteq Shared /\ OneRowPerPacket'
          /\ \A k \in Range(rows) \cup elsewhere :
                k # m => k \in Range(rows') \cup elsewhere'
      BY <3>1, DeleteRowEffect, Zenon
    <3> QED
      BY <1>3, <3>1, <3>2, Zenon
  <2> QED
    BY <2>1, <2>2, Zenon
<1>5. TypeOK'
  BY <1>1, <1>4, Zenon DEF TypeOK, SubscriberInv, Packets
<1>6. RemovedAfterDelivery'
  BY <1>1, <1>3, <1>4, Zenon DEF RemovedAfterDelivery
<1> QED
  BY <1>2, <1>4, <1>5, <1>6, Zenon DEF SubscriberInv

\* Every step keeps the invariant.
LEMMA SubscriberStep == SubscriberInv /\ [Next]_vars => SubscriberInv'
<1> SUFFICES ASSUME SubscriberInv, [Next]_vars PROVE SubscriberInv'
  OBVIOUS
<1>1. CASE UNCHANGED vars
  <2>1. UNCHANGED <<strict, cpc, cs, got, net, up, down, hpc, pend, registered, session, rows,
                    elsewhere, acked, job, jobConn, delivered, queued>>
    BY <1>1, Zenon DEF vars, clientVars, wires, handlerVars, brokerVars, othersVars, routeVars,
                       history
  <2>2. TypeOK'
    BY <2>1, Zenon DEF TypeOK, SubscriberInv, Packets
  <2> QED
    BY <2>1, <2>2, QuietStep, Zenon
<1>2. CASE ClientStep
  BY <1>2, ClientStepInv
<1>3. CASE Lose
  <2>1. PICK s \in Slots : Gone(s)
    BY <1>3, Zenon DEF Lose
  <2> QED
    BY <1>3, <2>1, GoneStep, Zenon DEF Lose, clientVars
<1>4. CASE Silence
  <2>1. cpc # "idle" /\ Gone(cs)
    BY <1>4 DEF Silence
  <2>2. cs \in Slots
    BY <2>1, Zenon DEF SubscriberInv, ClientHasConn
  <2> QED
    BY <1>4, <2>1, <2>2, GoneStep, Zenon DEF Silence, clientVars
<1>5. CASE \E s \in Slots : HandlerStep(s)
  BY <1>5, HandlerStepInv, Zenon
<1>6. CASE \E m \in Msgs :
              Lookup(m) \/ LookupAgain(m) \/ RouteStep(m) \/ RouteQueueFails(m)
  BY <1>6, RouterStepInv, Zenon
<1>7. CASE \E m \in Shared : OtherQueued(m) \/ OtherPubAck(m)
  BY <1>7, OtherStepInv, Zenon
<1> QED
  BY <1>1, <1>2, <1>3, <1>4, <1>5, <1>6, <1>7, Zenon DEF Next

-----------------------------------------------------------------------------
\* However connections break, whatever is replayed, acknowledged and turned away, however
\* many packets and faults there are and whoever else subscribes: a packet that Enqueue
\* reported as queued has a row, was given to the application, or was acknowledged by
\* another subscriber (server.go:114-141 and 275-289, router.go:40-81, store.go:268, 326).
THEOREM RemovedAfterDeliveryAlways == Spec => []RemovedAfterDelivery
<1>1. SubscriberInv => RemovedAfterDelivery
  BY Zenon DEF SubscriberInv
<1> QED
  BY SubscriberInit, SubscriberStep, <1>1, PTL DEF Spec

\* The shapes of the variables are kept; in particular the client acknowledges packets
\* only, and nothing but packets is queued and replayed.
THEOREM SubscriberTypes == Spec => []TypeOK
<1>1. SubscriberInv => TypeOK
  BY Zenon DEF SubscriberInv
<1> QED
  BY SubscriberInit, SubscriberStep, <1>1, PTL DEF Spec

\* Deleting by packet id deletes at most one row: a packet has one, of this client or of
\* another, however often it is published and whomever it is queued for
\* (api/db/store.go:264-280, 325-331).
THEOREM OneRowPerPacketAlways == Spec => []OneRowPerPacket
<1>1. SubscriberInv => OneRowPerPacket
  BY Zenon DEF SubscriberInv
<1> QED
  BY SubscriberInit, SubscriberStep, <1>1, PTL DEF Spec

\* A packet that leaves the wire of a connection the strict client keeps is given to the
\* application by the step that reads it.
LEMMA ReadIsDeliveredStep ==
    ASSUME SubscriberInv, [Next]_vars, NEW m \in Msgs,
           strict, cs # NoSlot, cs' = cs, net'[cs] = "open",
           m \in Range(down[cs]), m \notin Range(down'[cs])
    PROVE  m \in delivered'
<1>0. TypeOK /\ cs \in Slots /\ down' # down /\ m \in Packets
  <2>1. cs \in Slots
    BY Zenon DEF SubscriberInv, TypeOK
  <2> QED
    BY <2>1, Zenon DEF SubscriberInv, Packets
<1>1. ASSUME NEW s \in Slots, Gone(s) PROVE FALSE
  <2>1. net'[s] = "gone" /\ \A t \in Slots : t # s => down'[t] = down[t]
    BY <1>0, <1>1, GoneEffect, Zenon
  <2>2. "gone" # "open"
    OBVIOUS
  <2> QED
    BY <1>0, <2>1, <2>2, Zenon
<1>2. ASSUME NEW s \in Slots, NEW p \in Packets, Sent(s, p) PROVE FALSE
  BY <1>0, <1>2, SentEffect, Zenon
<1>3. ASSUME NEW label, NEW reply \in {<<>>, <<"SUBSCRIBE">>}, CanRead, ReadAndSend(reply, label)
      PROVE  m = Head(down[cs])
  BY <1>0, <1>3, ReadEffect, Zenon
<1>4. ~UNCHANGED vars
  BY <1>0, Zenon DEF vars, wires
<1>5. CASE ClientStep
  <2>1. ~Dial /\ ~SendPubAck /\ ~Broken
    BY <1>0, Zenon DEF Dial, SendPubAck, Broken, wires
  <2>2. ~Unexpected
    BY Zenon DEF Unexpected, Retry
  <2>3. "CONNACK" \notin Msgs /\ "SUBACK" \notin Msgs
    BY SubscriberAssumption, Zenon
  <2>4. ~ReadConnAck
    <3> SUFFICES ASSUME ReadConnAck PROVE FALSE
      OBVIOUS
    <3>1. CanRead /\ Head(down[cs]) = "CONNACK" /\ ReadAndSend(<<"SUBSCRIBE">>, "suback")
      BY Zenon DEF ReadConnAck
    <3> QED
      BY <1>3, <2>3, <3>1
  <2>5. ~ReadSubAck
    <3> SUFFICES ASSUME ReadSubAck PROVE FALSE
      OBVIOUS
    <3>1. CanRead /\ Head(down[cs]) = "SUBACK" /\ ReadAndSend(<<>>, "consume")
      BY Zenon DEF ReadSubAck
    <3> QED
      BY <1>3, <2>3, <3>1
  <2>6. CASE Consume
    <3>1. CanRead /\ delivered' = delivered \cup ({Head(down[cs])} \cap Msgs)
          /\ ReadAndSend(<<>>, IF Head(down[cs]) \in Msgs THEN "ack" ELSE "consume")
      BY <2>6 DEF Consume
    <3>2. ReadAndSend(<<>>, "ack") \/ ReadAndSend(<<>>, "consume")
      BY <3>1
    <3>3. m = Head(down[cs])
      BY <1>3, <3>1, <3>2
    <3> QED
      BY <3>1, <3>3, Zenon
  <2> QED
    BY <1>5, <2>1, <2>2, <2>4, <2>5, <2>6, Zenon DEF ClientStep
<1>6. ~Lose /\ ~Silence
  BY <1>0, <1>1, Zenon DEF Lose, Silence
<1>7. ASSUME NEW s \in Slots, HandlerStep(s) PROVE FALSE
  <2>1. "CONNACK" \in Packets /\ "SUBACK" \in Packets /\ "ERROR" \in Packets
    BY Zenon DEF Packets
  <2>2. ~HAuthenticate(s) /\ ~HAuthFail(s) /\ ~HPending(s) /\ ~HPendingFails(s) /\ ~HReplayed(s)
    BY <1>0, Zenon DEF HAuthenticate, HAuthFail, HPending, HPendingFails, HReplayed, wires
  <2>3. ~HSubscribe(s) /\ ~HPubAck(s) /\ ~HPubAckFails(s) /\ ~HLeave(s)
    BY <1>0, Zenon DEF HSubscribe, HPubAck, HPubAckFails, HLeave, wires
  <2>4. ~HConnAck(s) /\ ~HSubAck(s) /\ ~HLimited(s)
    BY <1>2, <2>1, Zenon DEF HConnAck, HSubAck, HLimited
  <2>5. ~HReplay(s)
    <3> SUFFICES ASSUME HReplay(s) PROVE FALSE
      OBVIOUS
    <3>1. pend[s] # <<>> /\ Sent(s, Head(pend[s])) /\ pend[s] \in Seq(Msgs)
      BY <1>0 DEF HReplay, TypeOK
    <3>2. Head(pend[s]) \in Packets
      BY <3>1, TailElements, Zenon DEF Packets
    <3> QED
      BY <1>2, <3>1, <3>2, Zenon
  <2> QED
    BY <1>7, <2>2, <2>3, <2>4, <2>5, Zenon DEF HandlerStep
<1>8. ASSUME NEW k \in Msgs,
             Lookup(k) \/ LookupAgain(k) \/ RouteStep(k) \/ RouteQueueFails(k)
      PROVE  FALSE
  <2>1. /\ ~Lookup(k) /\ ~LookupAgain(k)
        /\ ~RouteSendFail(k) /\ ~RouteQueue(k) /\ ~RouteQueueFails(k)
    BY <1>0, Zenon DEF Lookup, LookupAgain, Match, RouteSendFail, RouteQueue, RouteQueueFails,
                       wires
  <2>2. ~RouteSend(k)
    <3> SUFFICES ASSUME RouteSend(k) PROVE FALSE
      OBVIOUS
    <3>1. Sent(jobConn[k], k) /\ k \in Packets
      BY Zenon DEF RouteSend, Packets
    <3>2. jobConn[k] \notin Slots
      BY <1>2, <3>1, Zenon
    <3>3. down \in [Slots -> Seq(Packets)]
      BY <1>0, Zenon DEF TypeOK
    <3>4. down' = down
      BY <3>1, <3>2, <3>3 DEF Sent
    <3> QED
      BY <1>0, <3>4, Zenon
  <2> QED
    BY <1>8, <2>1, <2>2, Zenon DEF RouteStep
<1>9. \A k \in Shared : ~OtherQueued(k) /\ ~OtherPubAck(k)
  BY <1>0, Zenon DEF OtherQueued, OtherPubAck, wires
<1> QED
  BY <1>4, <1>5, <1>6, <1>7, <1>8, <1>9, Zenon DEF Next

\* The bridge hands every packet it reads from a connection it keeps to the hub, for any
\* number of packets in flight (bridge.go:94): what is taken for a CONNACK or a SUBACK is
\* one, and no other step takes a packet off the wire.
THEOREM ReadIsDeliveredAlways == Spec => ReadIsDelivered
<1>1. SubscriberInv /\ [Next]_vars =>
        [\A m \in Msgs :
            /\ strict /\ cs # NoSlot /\ cs' = cs /\ net'[cs] = "open"
            /\ m \in Range(down[cs]) \ Range(down'[cs])
            => m \in delivered']_vars
  BY ReadIsDeliveredStep, Zenon
<1> QED
  BY SubscriberInit, SubscriberStep, <1>1, PTL DEF Spec, ReadIsDelivered
=============================================================================
