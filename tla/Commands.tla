------------------------------ MODULE Commands ------------------------------
(***************************************************************************)
(* The command path of the API process: HTTP requests that send a command  *)
(* (api/handlers/http.go) on the QTT client the bridge has at that moment  *)
(* (api/services/bridge.go), while the bridge's loop replaces that client. *)
(*                                                                         *)
(* What the broker sends the bridge is the subject of Subscriber: here it  *)
(* has telemetry queued for the bridge or not, and a packet may come       *)
(* before SUBACK.  How Broadcast returns is the subject of Hub: here it    *)
(* may take for ever, and nothing is read meanwhile.  A request's packet   *)
(* has an id of its own, so the request stands for its packet.             *)
(***************************************************************************)
EXTENDS Integers, Sequences, Functions

CONSTANTS
    Reqs,       \* HTTP requests POST /devices/{id}/command
    Clients,    \* QTT clients; one is used again when nobody refers to it
    Nil,        \* no client
    MaxFaults   \* bound: connections lost, writes timed out and queries failed

VARIABLES
    bpc,        \* the bridge: "dial", "suback" (waiting for it), "set", "consume"
                \* (reading), "broadcast" (in hub.Broadcast), "puback", "clear", "close"
    bclient,    \* the client of this turn of its loop
    shared,     \* b.client, which requests read
    conn,       \* a client's connection: "closed" (or never opened), "open", "mute" (the
                \* encoder keeps the error of a write), "gone" (not yet noticed)
    wire,       \* commands written and not yet received by the broker
    rpc,        \* a request: "new", "send" (holds a client), "202", "503"
    rclient,    \* "send": the client
    faults,     \* faults so far
    received,   \* commands the broker received, in order
    limited,    \* commands its rate limiter turned away
    backlog,    \* has it telemetry queued for the bridge?
    lost        \* history: commands that were lost with a connection

bridgeVars == <<bpc, bclient, shared>>
requestVars == <<rpc, rclient>>
brokerVars == <<received, limited, backlog>>
vars == <<bridgeVars, conn, wire, requestVars, faults, brokerVars, lost>>

Init ==
    /\ bpc = "dial" /\ bclient = Nil /\ shared = Nil
    /\ conn = [cl \in Clients |-> "closed"] /\ wire = [cl \in Clients |-> <<>>]
    /\ rpc = [r \in Reqs |-> "new"] /\ rclient = [r \in Reqs |-> Nil]
    /\ faults = 0
    /\ received = <<>> /\ limited = {} /\ lost = {}
    /\ backlog \in BOOLEAN

-----------------------------------------------------------------------------
(***************************************************************************)
(* The bridge's loop                                                       *)
(***************************************************************************)

\* Dial, Connect and Subscribe succeed; until they do the loop starts over.
Dial ==
    /\ bpc = "dial"
    /\ \E cl \in Clients :
          /\ conn[cl] = "closed" /\ wire[cl] = <<>> /\ shared # cl
          /\ \A r \in Reqs : rclient[r] # cl
          /\ conn' = [conn EXCEPT ![cl] = "open"]
          /\ bclient' = cl
    /\ bpc' = "suback"
    /\ UNCHANGED <<shared, wire, requestVars, faults, brokerVars, lost>>

\* The first packet is SUBACK.  What is queued for the bridge would come before it,
\* unless the broker's query for it fails.
SubAck ==
    /\ bpc = "suback" /\ conn[bclient] = "open" /\ ~backlog
    /\ bpc' = "set"
    /\ UNCHANGED <<bclient, shared, conn, wire, requestVars, faults, brokerVars, lost>>

SubAckUnqueried ==
    /\ bpc = "suback" /\ conn[bclient] = "open" /\ backlog /\ faults < MaxFaults
    /\ bpc' = "set"
    /\ faults' = faults + 1
    /\ UNCHANGED <<bclient, shared, conn, wire, requestVars, brokerVars, lost>>

\* It is telemetry, queued or of this moment, or the read fails.
NotSubAck ==
    /\ bpc = "suback"
    /\ bpc' = "close"
    /\ UNCHANGED <<bclient, shared, conn, wire, requestVars, faults, brokerVars, lost>>

setClient ==
    /\ bpc = "set"
    /\ shared' = bclient
    /\ bpc' = "consume"
    /\ UNCHANGED <<bclient, conn, wire, requestVars, faults, brokerVars, lost>>

\* The read fails: the connection is gone, or it can no longer be written to and
\* nothing arrives for ReadTimeout either.
ConsumeFails ==
    /\ bpc = "consume" /\ conn[bclient] \in {"mute", "gone"}
    /\ bpc' = "clear"
    /\ UNCHANGED <<bclient, shared, conn, wire, requestVars, faults, brokerVars, lost>>

\* A PUBLISH is read and handed to the hub.
Consume ==
    /\ bpc = "consume" /\ conn[bclient] \in {"open", "mute"}
    /\ bpc' = "broadcast"
    /\ UNCHANGED <<bclient, shared, conn, wire, requestVars, faults, brokerVars, lost>>

BroadcastReturns ==
    /\ bpc = "broadcast"
    /\ bpc' = "puback"
    /\ UNCHANGED <<bclient, shared, conn, wire, requestVars, faults, brokerVars, lost>>

\* PUBACK is written, possibly into a connection that is gone, or QoS is 0.
PubAckSent ==
    /\ bpc = "puback"
    /\ bpc' = "consume"
    /\ UNCHANGED <<bclient, shared, conn, wire, requestVars, faults, brokerVars, lost>>

\* Plausible bug: consume ignores the error of SendPubAck.
PubAckErrorIgnored ==
    /\ bpc = "puback" /\ conn[bclient] # "open"
    /\ bpc' = "consume"
    /\ UNCHANGED <<bclient, shared, conn, wire, requestVars, faults, brokerVars, lost>>

PubAckFails ==
    /\ bpc = "puback" /\ conn[bclient] # "open"
    /\ bpc' = "clear"
    /\ UNCHANGED <<bclient, shared, conn, wire, requestVars, faults, brokerVars, lost>>

PubAckTimesOut ==
    /\ bpc = "puback" /\ conn[bclient] = "open" /\ faults < MaxFaults
    /\ conn' = [conn EXCEPT ![bclient] = "mute"]
    /\ faults' = faults + 1
    /\ bpc' = "clear"
    /\ UNCHANGED <<bclient, shared, wire, requestVars, brokerVars, lost>>

\* Nothing arrives for ReadTimeout on a connection that works.
ReadTimeout ==
    /\ bpc = "consume" /\ conn[bclient] = "open"
    /\ bpc' = "clear"
    /\ UNCHANGED <<bclient, shared, conn, wire, requestVars, faults, brokerVars, lost>>

clearClient ==
    /\ bpc = "clear"
    /\ shared' = IF shared = bclient THEN Nil ELSE shared
    /\ bpc' = "close"
    /\ UNCHANGED <<bclient, conn, wire, requestVars, faults, brokerVars, lost>>

\* client.Close: nothing more is written. What is under way may still arrive.
CloseClient ==
    /\ bpc = "close"
    /\ conn' = [conn EXCEPT ![bclient] = "closed"]
    /\ bclient' = Nil
    /\ bpc' = "dial"
    /\ UNCHANGED <<shared, wire, requestVars, faults, brokerVars, lost>>

BridgeStep ==
    \/ Dial \/ SubAck \/ SubAckUnqueried \/ NotSubAck
    \/ setClient \/ ConsumeFails \/ clearClient \/ CloseClient
    \/ PubAckSent \/ PubAckFails \/ PubAckTimesOut

(***************************************************************************)
(* sendCommand and PublishCommand                                          *)
(***************************************************************************)

\* Plausible bug: the client is used without asking whether there is one.
currentClientUnchecked(r) ==
    /\ rpc[r] = "new"
    /\ rpc' = [rpc EXCEPT ![r] = "send"]
    /\ rclient' = [rclient EXCEPT ![r] = shared]
    /\ UNCHANGED <<bridgeVars, conn, wire, faults, brokerVars, lost>>

\* Reads b.client under the lock. Without a client the answer is 503.
currentClient(r) ==
    /\ rpc[r] = "new"
    /\ rpc' = [rpc EXCEPT ![r] = IF shared = Nil THEN "503" ELSE "send"]
    /\ rclient' = [rclient EXCEPT ![r] = shared]
    /\ UNCHANGED <<bridgeVars, conn, wire, faults, brokerVars, lost>>

\* The answer to a request, which then refers to no client.
Answer(r, status) ==
    /\ rpc' = [rpc EXCEPT ![r] = status]
    /\ rclient' = [rclient EXCEPT ![r] = Nil]

\* The packet is written. On a connection that is gone it is lost.
Written(r) ==
    /\ rpc[r] = "send" /\ conn[rclient[r]] \in {"open", "gone"}
    /\ IF conn[rclient[r]] = "open"
       THEN wire' = [wire EXCEPT ![rclient[r]] = Append(@, r)] /\ UNCHANGED lost
       ELSE lost' = lost \cup {r} /\ UNCHANGED wire
    /\ UNCHANGED <<bridgeVars, conn, faults, brokerVars>>

\* Plausible bug: the request is refused if the bridge has moved on meanwhile.
SendChecked(r) == Written(r) /\ Answer(r, IF shared = rclient[r] THEN "202" ELSE "503")

\* Send returns nil, whatever the bridge has done with the client meanwhile.
Send(r) == Written(r) /\ Answer(r, "202")

\* The client cannot write any more.
CannotWrite(r) == rpc[r] = "send" /\ conn[rclient[r]] # "open"

\* Plausible bug: the error of Send is not looked at.
SendFailsAccepted(r) ==
    /\ CannotWrite(r)
    /\ Answer(r, "202")
    /\ UNCHANGED <<bridgeVars, conn, wire, faults, brokerVars, lost>>

\* The connection is closed or gone, or the encoder has failed before.
SendFails(r) ==
    /\ CannotWrite(r)
    /\ Answer(r, "503")
    /\ UNCHANGED <<bridgeVars, conn, wire, faults, brokerVars, lost>>

\* The write times out: the packet is cut short, so the broker cannot decode it, and
\* the encoder refuses to write from now on.
SendTimesOut(r) ==
    /\ rpc[r] = "send" /\ conn[rclient[r]] = "open" /\ faults < MaxFaults
    /\ conn' = [conn EXCEPT ![rclient[r]] = "mute"]
    /\ faults' = faults + 1
    /\ Answer(r, "503")
    /\ UNCHANGED <<bridgeVars, wire, brokerVars, lost>>

RequestStep(r) == Send(r) \/ SendFails(r) \/ SendTimesOut(r)

(***************************************************************************)
(* The network and the broker                                              *)
(***************************************************************************)

\* What was written to a connection and has not arrived never will.
Drop(cl) ==
    /\ lost' = lost \cup Range(wire[cl])
    /\ wire' = [wire EXCEPT ![cl] = <<>>]

Lose(cl) ==
    /\ conn[cl] \in {"open", "mute"} /\ faults < MaxFaults
    /\ conn' = [conn EXCEPT ![cl] = "gone"]
    /\ faults' = faults + 1
    /\ Drop(cl)
    /\ UNCHANGED <<bridgeVars, requestVars, brokerVars>>

\* The broker sees that the bridge has closed the connection.
CloseArrives(cl) ==
    /\ conn[cl] = "closed" /\ wire[cl] # <<>>
    /\ Drop(cl)
    /\ UNCHANGED <<bridgeVars, conn, requestVars, faults, brokerVars>>

\* Plausible bug: a command that is turned away stays in the stream, to be read again.
ReceiveAgain(cl) ==
    /\ wire[cl] # <<>>
    /\ \/ /\ received' = Append(received, Head(wire[cl])) /\ UNCHANGED limited
          /\ wire' = [wire EXCEPT ![cl] = Tail(@)]
       \/ limited' = limited \cup {Head(wire[cl])} /\ UNCHANGED <<received, wire>>
    /\ UNCHANGED <<bridgeVars, conn, requestVars, faults, backlog, lost>>

\* The handler of the connection receives a command and serves it, or not.
Receive(cl) ==
    /\ wire[cl] # <<>>
    /\ wire' = [wire EXCEPT ![cl] = Tail(@)]
    /\ \/ received' = Append(received, Head(wire[cl])) /\ UNCHANGED limited
       \/ limited' = limited \cup {Head(wire[cl])} /\ UNCHANGED received
    /\ UNCHANGED <<bridgeVars, conn, requestVars, faults, backlog, lost>>

\* Telemetry is queued for the bridge: a Send to it failed, or the handler of an old
\* connection has taken its session offline.
Enqueued ==
    /\ backlog' = TRUE
    /\ UNCHANGED <<bridgeVars, conn, wire, requestVars, faults, received, limited, lost>>

\* The last row is deleted: the bridge, or another subscriber, acknowledged the packet.
Dequeued ==
    /\ backlog' = FALSE
    /\ UNCHANGED <<bridgeVars, conn, wire, requestVars, faults, received, limited, lost>>

Next ==
    \/ BridgeStep \/ Consume \/ BroadcastReturns \/ ReadTimeout \/ Enqueued \/ Dequeued
    \/ \E r \in Reqs : currentClient(r) \/ RequestStep(r)
    \/ \E cl \in Clients : Lose(cl) \/ CloseArrives(cl) \/ Receive(cl)

Spec == Init /\ [][Next]_vars

\* Goroutines that can go on are scheduled and the broker is there to be dialled and
\* reads.  Telemetry of the moment does not come before SUBACK on every attempt for which
\* nothing is queued.  Telemetry that arrives again and again is again and again of QoS 1, as the
\* simulator's is, so that consume has a PUBACK to write.
FairSpec ==
    /\ Spec
    /\ WF_vars(BridgeStep)
    /\ SF_vars(SubAck) /\ SF_vars(PubAckFails)
    /\ \A r \in Reqs : WF_vars(RequestStep(r))
    /\ \A cl \in Clients : WF_vars(CloseArrives(cl) \/ Receive(cl))

-----------------------------------------------------------------------------
\* Every variable has the shape its comment gives it; a request that is about to send
\* holds a client, although the bridge may clear b.client at any time (bridge.go:120).
TypeOK ==
    /\ bpc \in {"dial", "suback", "set", "consume", "broadcast", "puback", "clear", "close"}
    /\ bclient \in Clients \cup {Nil} /\ shared \in Clients \cup {Nil}
    /\ conn \in [Clients -> {"closed", "open", "mute", "gone"}]
    /\ wire \in [Clients -> Seq(Reqs)]
    /\ rpc \in [Reqs -> {"new", "send", "202", "503"}]
    /\ rclient \in [Reqs -> Clients \cup {Nil}]
    /\ \A r \in Reqs : rpc[r] = "send" => rclient[r] # Nil
    /\ received \in Seq(Reqs) /\ limited \subseteq Reqs /\ lost \subseteq Reqs
    /\ backlog \in BOOLEAN

Under == UNION {Range(wire[cl]) : cl \in Clients}

\* A command that was answered with 503 is not on its way and never arrives, so the
\* operator may send it again without the device obeying twice: not even when the
\* bridge reconnects between currentClient and Send (bridge.go:120-137).
RefusedNotSent ==
    \A r \in Reqs : rpc[r] = "503" => r \notin Under \cup Range(received) \cup limited

\* A command that was answered with 202 is under way, or the broker has it, unless it
\* was lost with its connection or turned away by the rate limiter; and the broker has
\* no command twice (http.go:152-158).
AcceptedIsAccountedFor ==
    /\ \A r \in Reqs : rpc[r] = "202" => r \in Under \cup Range(received) \cup limited \cup lost
    /\ \A i, j \in 1..Len(received) : received[i] = received[j] => i = j

F == INSTANCE CommandFate WITH
    refused <- {r \in Reqs : rpc[r] = "503"},
    accepted <- {r \in Reqs : rpc[r] = "202"},
    under <- Under,
    served <- Range(received)

\* A request is answered once, and a command that was accepted has one fate, which is
\* final: it is served, turned away or lost, on one wire of one client only, while the
\* bridge replaces its clients and closes those that requests still hold
\* (bridge.go:89-137, http.go:152-158).
OneFate == F!Spec

\* Dashboards that stop reading for good keep the bridge in Broadcast, see Hub.
DashboardsRead == []<>(bpc # "broadcast")

\* Whatever became of its connections, requests are again and again given a client on
\* which they can send: no broken client stays in b.client for good.  It takes that no
\* dashboard keeps consume from finding out, and that from some time on nothing is queued
\* for the bridge, which refuses every connection on which a queued packet comes before
\* SUBACK (bridge.go:94-107, 151).
CommandsComeBack ==
    DashboardsRead /\ <>[]~backlog => []<>(shared # Nil /\ conn[shared] = "open")
=============================================================================
