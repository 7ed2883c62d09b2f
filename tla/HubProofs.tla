----------------------------- MODULE HubProofs ------------------------------
(***************************************************************************)
(* The hub gives every dashboard every event, for any number of sockets,   *)
(* events and stalls.                                                      *)
(***************************************************************************)
EXTENDS Hub, TLAPS

\* The first conjunct of SeesEveryEvent.
Consecutive ==
    \A s \in Sockets : \A i \in 1..(Len(inbox[s]) - 1) : inbox[s][i + 1] = inbox[s][i] + 1

HubInv == TypeOK /\ Registered /\ Position /\ Consecutive

\* NewHub: no client, no event.
LEMMA HubInit == Init => HubInv
BY HubAssumption DEF Init, HubInv, TypeOK, Registered, Position, Consecutive

\* Writing an event to a socket that is still to be served continues its sequence.
LEMMA WriteStep ==
    ASSUME HubInv, NEW s \in Sockets, WriteJSON(s)
    PROVE  HubInv'
<1> USE HubAssumption DEF HubInv
<1> DEFINE n == Len(inbox[s])
<1>1. /\ s \in clients /\ inbox[s] \in Seq(Nat) /\ n \in Nat /\ event \in Nat
      /\ clients \subseteq Sockets /\ peer[s] # "broken" /\ s \in left /\ bpc = "sweep"
  BY DEF TypeOK, Position, WriteJSON
<1>2. /\ inbox'[s] = Append(inbox[s], event)
      /\ inbox'[s] \in Seq(Nat)
      /\ Len(inbox'[s]) = n + 1
      /\ inbox'[s][n + 1] = event
      /\ \A i \in 1..n : inbox'[s][i] = inbox[s][i]
  BY <1>1 DEF WriteJSON, TypeOK
<1>3. \A t \in Sockets \ {s} : inbox'[t] = inbox[t]
  BY DEF WriteJSON, TypeOK
<1>4. n > 0 => inbox[s][n] = event - 1
  BY <1>1 DEF Position
<1>5. TypeOK'
  BY <1>2, <1>3 DEF TypeOK, WriteJSON
<1>6. Registered'
  BY <1>1, <1>2, <1>3 DEF Registered, WriteJSON
<1>7. Position'
  BY <1>1, <1>2, <1>3 DEF Position, WriteJSON
<1>8. Consecutive'
  <2> SUFFICES ASSUME NEW t \in Sockets, NEW i \in 1..(Len(inbox'[t]) - 1)
               PROVE  inbox'[t][i + 1] = inbox'[t][i] + 1
    BY DEF Consecutive
  <2>1. CASE t # s
    BY <2>1, <1>3 DEF Consecutive
  <2>2. CASE t = s /\ i = n
    BY <2>2, <1>1, <1>2, <1>4
  <2>3. CASE t = s /\ i # n
    <3>1. i \in 1..(n - 1) /\ i \in 1..n /\ i + 1 \in 1..n
      BY <2>3, <1>1, <1>2
    <3> QED
      BY <2>3, <3>1, <1>2 DEF Consecutive
  <2> QED
    BY <2>1, <2>2, <2>3
<1> QED
  BY <1>5, <1>6, <1>7, <1>8

\* Every other step leaves the inboxes alone.
LEMMA HubStep == HubInv /\ [Next]_vars => HubInv'
<1> SUFFICES ASSUME HubInv, [Next]_vars PROVE HubInv'
  OBVIOUS
<1> USE HubAssumption DEF HubInv
<1>1. CASE UNCHANGED vars
  BY <1>1 DEF vars, TypeOK, Registered, Position, Consecutive
<1>2. CASE Broadcast
  BY <1>2 DEF Broadcast, TypeOK, Registered, Position, Consecutive
<1>3. CASE RLock
  BY <1>3 DEF RLock, TypeOK, Registered, Position, Consecutive
<1>4. CASE RUnlock
  BY <1>4 DEF RUnlock, TypeOK, Registered, Position, Consecutive
<1>5. ASSUME NEW s \in Sockets, SocketStep(s) PROVE HubInv'
  <2>1. CASE Add(s)
    BY <2>1 DEF Add, ReadLocked, TypeOK, Registered, Position, Consecutive
  <2>2. CASE ReadFails(s)
    BY <2>2 DEF ReadFails, ReadLocked, TypeOK, Registered, Position, Consecutive
  <2>3. CASE Remove(s)
    BY <2>3 DEF Remove, ReadLocked, TypeOK, Registered, Position, Consecutive
  <2> QED
    BY <1>5, <2>1, <2>2, <2>3 DEF SocketStep
<1>6. ASSUME NEW s \in Sockets, PeerStep(s) PROVE HubInv'
  <2>1. CASE Upgrade(s)
    BY <2>1 DEF Upgrade, TypeOK, Registered, Position, Consecutive
  <2>2. CASE Stall(s)
    BY <2>2 DEF Stall, TypeOK, Registered, Position, Consecutive
  <2>3. CASE Drain(s)
    BY <2>3 DEF Drain, TypeOK, Registered, Position, Consecutive
  <2>4. CASE Break(s)
    BY <2>4 DEF Break, TypeOK, Registered, Position, Consecutive
  <2> QED
    BY <1>6, <2>1, <2>2, <2>3, <2>4 DEF PeerStep
<1>7. ASSUME NEW s \in Sockets, WriteFails(s) PROVE HubInv'
  BY <1>7 DEF WriteFails, TypeOK, Registered, Position, Consecutive
<1> QED
  BY <1>1, <1>2, <1>3, <1>4, <1>5, <1>6, <1>7, WriteStep DEF Next, BroadcastStep

\* No dashboard misses an event, gets one twice or out of order, however many there
\* are and whatever the others do (hub.go:66-76).
THEOREM HubCorrect == Spec => [](TypeOK /\ SeesEveryEvent)
<1>1. HubInv => TypeOK /\ SeesEveryEvent
  <2> SUFFICES ASSUME HubInv PROVE SeesEveryEvent
    BY DEF HubInv
  <2> QED
    BY DEF HubInv, SeesEveryEvent, Consecutive, Position, TypeOK
<1> QED
  BY HubInit, HubStep, <1>1, PTL DEF Spec
=============================================================================
