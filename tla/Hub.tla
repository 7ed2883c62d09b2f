-------------------------------- MODULE Hub ---------------------------------
(***************************************************************************)
(* The WebSocket hub of the API process (api/services/hub.go).  The bridge *)
(* broadcasts telemetry events one after the other, under the read lock of *)
(* the hub; a goroutine per WebSocket adds and removes its connection      *)
(* under the write lock.                                                   *)
(*                                                                         *)
(* sync.RWMutex: Lock waits for the reader, and a reader waits for every   *)
(* writer that has called Lock.  What runs under the write lock is one map *)
(* operation, so acquiring it, the operation and Unlock are one step.      *)
(***************************************************************************)
EXTENDS Integers, Sequences, FiniteSets

CONSTANTS
    Sockets,    \* WebSocket connections, each used once
    MaxEvents,  \* bound: events broadcast
    MaxStalls   \* bound: how often peers stop reading

ASSUME HubAssumption == MaxEvents \in Nat /\ MaxStalls \in Nat

VARIABLES
    clients,    \* the hub's map
    spc,        \* the socket's goroutine: "new", "adding" (in Lock), "reading",
                \* "removing" (in Lock), "done"
    peer,       \* "ok", "stalled" (does not read, writes block), "broken"
    bpc,        \* Broadcast: "idle", "rlock" (in RLock), "sweep" (holds the lock)
    left,       \* Broadcast: clients not yet written to
    event,      \* the number of the current event
    inbox,      \* events written to a peer
    stalls      \* how often a peer stopped reading

vars == <<clients, spc, peer, bpc, left, event, inbox, stalls>>

Init ==
    /\ clients = {}
    /\ spc = [s \in Sockets |-> "new"]
    /\ peer = [s \in Sockets |-> "ok"]
    /\ bpc = "idle" /\ left = {} /\ event = 0
    /\ inbox = [s \in Sockets |-> <<>>]
    /\ stalls = 0

ReadLocked == bpc = "sweep"

\* ServeWS has upgraded the connection and calls Lock.
Upgrade(s) ==
    /\ spc[s] = "new"
    /\ spc' = [spc EXCEPT ![s] = "adding"]
    /\ UNCHANGED <<clients, peer, bpc, left, event, inbox, stalls>>

Add(s) ==
    /\ spc[s] = "adding" /\ ~ReadLocked
    /\ clients' = clients \cup {s}
    /\ spc' = [spc EXCEPT ![s] = "reading"]
    /\ UNCHANGED <<peer, bpc, left, event, inbox, stalls>>

\* Plausible bug: the goroutine ends without taking its connection out of the map.
ReadFailsLeaks(s) ==
    /\ spc[s] = "reading" /\ peer[s] = "broken"
    /\ spc' = [spc EXCEPT ![s] = "done"]
    /\ UNCHANGED <<clients, peer, bpc, left, event, inbox, stalls>>

\* ReadMessage fails once the connection is broken or closed; then Lock.
ReadFails(s) ==
    /\ spc[s] = "reading" /\ peer[s] = "broken"
    /\ spc' = [spc EXCEPT ![s] = "removing"]
    /\ UNCHANGED <<clients, peer, bpc, left, event, inbox, stalls>>

Remove(s) ==
    /\ spc[s] = "removing" /\ ~ReadLocked
    /\ clients' = clients \ {s}
    /\ spc' = [spc EXCEPT ![s] = "done"]
    /\ UNCHANGED <<peer, bpc, left, event, inbox, stalls>>

SocketStep(s) == Add(s) \/ ReadFails(s) \/ Remove(s)

-----------------------------------------------------------------------------
\* The bridge has read a PUBLISH and calls Broadcast.
Broadcast ==
    /\ bpc = "idle" /\ event < MaxEvents
    /\ bpc' = "rlock"
    /\ event' = event + 1
    /\ UNCHANGED <<clients, spc, peer, left, inbox, stalls>>

\* RLock returns when no writer has called Lock.
RLock ==
    /\ bpc = "rlock"
    /\ \A s \in Sockets : spc[s] \notin {"adding", "removing"}
    /\ bpc' = "sweep"
    /\ left' = clients
    /\ UNCHANGED <<clients, spc, peer, event, inbox, stalls>>

\* WriteJSON succeeds. There is no write deadline: on a stalled peer it blocks.
WriteJSON(s) ==
    /\ bpc = "sweep" /\ s \in left /\ peer[s] = "ok"
    /\ inbox' = [inbox EXCEPT ![s] = Append(@, event)]
    /\ left' = left \ {s}
    /\ UNCHANGED <<clients, spc, peer, bpc, event, stalls>>

\* Plausible bug: the loop ends at the first client that cannot be written to.
WriteFailsReturn(s) ==
    /\ bpc = "sweep" /\ s \in left /\ peer[s] = "broken"
    /\ left' = {}
    /\ UNCHANGED <<clients, spc, peer, bpc, event, inbox, stalls>>

\* Plausible bug: Broadcast waits until the goroutine has removed the connection.
WriteFailsWait(s) ==
    /\ bpc = "sweep" /\ s \in left /\ spc[s] = "done"
    /\ left' = left \ {s}
    /\ UNCHANGED <<clients, spc, peer, bpc, event, inbox, stalls>>

\* WriteJSON fails: the connection is closed, its goroutine will remove it.
WriteFails(s) ==
    /\ bpc = "sweep" /\ s \in left /\ peer[s] = "broken"
    /\ left' = left \ {s}
    /\ UNCHANGED <<clients, spc, peer, bpc, event, inbox, stalls>>

RUnlock ==
    /\ bpc = "sweep" /\ left = {}
    /\ bpc' = "idle"
    /\ UNCHANGED <<clients, spc, peer, left, event, inbox, stalls>>

BroadcastStep == RLock \/ RUnlock \/ \E s \in Sockets : WriteJSON(s) \/ WriteFails(s)

(***************************************************************************)
(* The peers                                                               *)
(***************************************************************************)
Stall(s) ==
    /\ peer[s] = "ok" /\ stalls < MaxStalls
    /\ peer' = [peer EXCEPT ![s] = "stalled"]
    /\ stalls' = stalls + 1
    /\ UNCHANGED <<clients, spc, bpc, left, event, inbox>>

Drain(s) ==
    /\ peer[s] = "stalled"
    /\ peer' = [peer EXCEPT ![s] = "ok"]
    /\ UNCHANGED <<clients, spc, bpc, left, event, inbox, stalls>>

Break(s) ==
    /\ peer[s] # "broken"
    /\ peer' = [peer EXCEPT ![s] = "broken"]
    /\ UNCHANGED <<clients, spc, bpc, left, event, inbox, stalls>>

PeerStep(s) == Upgrade(s) \/ Stall(s) \/ Drain(s) \/ Break(s)

Next ==
    \/ Broadcast \/ BroadcastStep
    \/ \E s \in Sockets : SocketStep(s) \/ PeerStep(s)

Spec == Init /\ [][Next]_vars

\* The goroutines of the API process are scheduled; peers do as they like.
FairSpec ==
    /\ Spec
    /\ WF_vars(BroadcastStep)
    /\ \A s \in Sockets : WF_vars(SocketStep(s))

-----------------------------------------------------------------------------
\* Every variable has the shape its comment gives it.
TypeOK ==
    /\ clients \subseteq Sockets
    /\ spc \in [Sockets -> {"new", "adding", "reading", "removing", "done"}]
    /\ peer \in [Sockets -> {"ok", "stalled", "broken"}]
    /\ bpc \in {"idle", "rlock", "sweep"}
    /\ left \subseteq Sockets
    /\ event \in 0..MaxEvents
    /\ inbox \in [Sockets -> Seq(Nat)]
    /\ stalls \in 0..MaxStalls

\* A dashboard sees every event from its first one on, in order and once, and outside
\* a Broadcast it has the latest, unless it broke: others that come, go, stall or
\* fail during a Broadcast do not make it miss one (hub.go:70-75).
SeesEveryEvent ==
    \A s \in Sockets :
        LET n == Len(inbox[s])
        IN  /\ \A i \in 1..(n - 1) : inbox[s][i + 1] = inbox[s][i] + 1
            /\ bpc = "idle" /\ s \in clients /\ peer[s] # "broken" /\ n > 0 =>
                  inbox[s][n] = event

\* Peers that stop reading for good keep Broadcast waiting: there is no deadline.
PeersDrain == \A s \in Sockets : []<>(peer[s] # "stalled")

\* If every peer goes on reading or breaks, Broadcast returns: it never waits for a
\* goroutine that waits for its read lock, nor for ever for the writers (hub.go:67).
BroadcastReturns == PeersDrain => (bpc # "idle" ~> bpc = "idle")

\* Under the same condition a broken connection leaves the map (hub.go:53).
BrokenIsRemoved ==
    PeersDrain => \A s \in Sockets :
        (spc[s] # "new" /\ peer[s] = "broken") ~> (spc[s] = "done" /\ s \notin clients)

(***************************************************************************)
(* Parts of the inductive invariant behind SeesEveryEvent, see HubProofs.  *)
(***************************************************************************)

\* A socket is in the map while its goroutine reads, and has no event before.
Registered ==
    \A s \in Sockets :
        /\ s \in clients <=> spc[s] \in {"reading", "removing"}
        /\ spc[s] \in {"new", "adding"} => inbox[s] = <<>>

\* A socket of the map that works has the current event once the sweep has passed
\* it, and the one before until then.
Position ==
    /\ bpc # "sweep" => left = {}
    /\ left \subseteq clients
    /\ \A s \in clients :
          LET n == Len(inbox[s])
          IN  peer[s] # "broken" /\ n > 0 =>
                inbox[s][n] = IF bpc = "rlock" \/ s \in left THEN event - 1 ELSE event
=============================================================================
