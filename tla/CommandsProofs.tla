--------------------------- MODULE CommandsProofs ---------------------------
(***************************************************************************)
(* What becomes of a command, for every number of requests, clients and    *)
(* faults: an inductive invariant says which requests are where.           *)
(***************************************************************************)
EXTENDS Commands, TLAPS

-----------------------------------------------------------------------------
(***************************************************************************)
(* Sequences                                                               *)
(***************************************************************************)
Distinct(s) == \A i, j \in 1..Len(s) : s[i] = s[j] => i = j

\* The elements of a sequence, by position.
LEMMA RangeSeq ==
    ASSUME NEW S, NEW s \in Seq(S)
    PROVE  \A e : e \in Range(s) <=> \E i \in 1..Len(s) : s[i] = e
BY DEF Range

\* What an Append adds, and when it repeats nothing.
LEMMA AppendFacts ==
    ASSUME NEW S, NEW s \in Seq(S), NEW e \in S
    PROVE  /\ Append(s, e) \in Seq(S)
           /\ Range(Append(s, e)) = Range(s) \cup {e}
           /\ Distinct(s) /\ e \notin Range(s) => Distinct(Append(s, e))
<1> DEFINE t == Append(s, e)
<1>1. /\ t \in Seq(S) /\ Len(t) = Len(s) + 1 /\ Len(s) \in Nat
      /\ t[Len(s) + 1] = e /\ \A i \in 1..Len(s) : t[i] = s[i]
  OBVIOUS
<1> HIDE DEF t
<1>2. \A x : x \in Range(t) <=> x \in Range(s) \/ x = e
  <2>1. \A x : x \in Range(t) <=> \E i \in 1..Len(t) : t[i] = x
    BY <1>1, RangeSeq
  <2>2. \A x : x \in Range(s) <=> \E i \in 1..Len(s) : s[i] = x
    BY RangeSeq
  <2>3. ASSUME NEW x, x \in Range(t) PROVE x \in Range(s) \/ x = e
    <3>1. PICK i \in 1..Len(t) : t[i] = x
      BY <2>1, <2>3
    <3>2. i \in 1..Len(s) \/ i = Len(s) + 1
      BY <1>1
    <3> QED
      BY <1>1, <2>2, <3>1, <3>2
  <2>4. ASSUME NEW x, x \in Range(s) PROVE x \in Range(t)
    <3>1. PICK i \in 1..Len(s) : s[i] = x
      BY <2>2, <2>4
    <3>2. i \in 1..Len(t) /\ t[i] = x
      BY <1>1, <3>1
    <3> QED
      BY <2>1, <3>2
  <2>5. e \in Range(t)
    <3>1. Len(s) + 1 \in 1..Len(t)
      BY <1>1
    <3> QED
      BY <1>1, <2>1, <3>1
  <2> QED
    BY <2>3, <2>4, <2>5
<1>3. ASSUME Distinct(s), e \notin Range(s) PROVE Distinct(t)
  <2>1. \A i \in 1..Len(s) : s[i] # e
    BY <1>3, RangeSeq
  <2>2. \A i \in 1..Len(t) : i \in 1..Len(s) \/ i = Len(s) + 1
    BY <1>1
  <2> QED
    BY <1>1, <1>3, <2>1, <2>2 DEF Distinct
<1> QED
  BY <1>1, <1>2, <1>3 DEF t

\* What taking the first element leaves.
LEMMA TailFacts ==
    ASSUME NEW S, NEW s \in Seq(S), s # <<>>
    PROVE  /\ Head(s) \in S /\ Tail(s) \in Seq(S)
           /\ Range(s) = Range(Tail(s)) \cup {Head(s)}
           /\ Distinct(s) => Distinct(Tail(s)) /\ Head(s) \notin Range(Tail(s))
<1> DEFINE t == Tail(s)
<1>1. /\ t \in Seq(S) /\ Len(t) = Len(s) - 1 /\ Len(s) \in Nat /\ Len(s) > 0
      /\ \A i \in 1..Len(t) : t[i] = s[i + 1]
      /\ Head(s) = s[1] /\ s[1] \in S
  OBVIOUS
<1>2. \A x : x \in Range(s) <=> \E i \in 1..Len(s) : s[i] = x
  BY RangeSeq
<1> HIDE DEF t
<1>3. \A x : x \in Range(t) <=> \E i \in 1..Len(t) : t[i] = x
  BY <1>1, RangeSeq
<1>4. ASSUME NEW x, x \in Range(s) PROVE x \in Range(t) \/ x = s[1]
  <2>1. PICK i \in 1..Len(s) : s[i] = x
    BY <1>2, <1>4
  <2>2. CASE i # 1
    <3>1. i - 1 \in 1..Len(t) /\ t[i - 1] = x
      BY <1>1, <2>1, <2>2
    <3> QED
      BY <1>3, <3>1
  <2> QED
    BY <2>1, <2>2
<1>5. ASSUME NEW x, x \in Range(t) PROVE x \in Range(s)
  <2>1. PICK i \in 1..Len(t) : t[i] = x
    BY <1>3, <1>5
  <2>2. i + 1 \in 1..Len(s) /\ s[i + 1] = x
    BY <1>1, <2>1
  <2> QED
    BY <1>2, <2>2
<1>6. s[1] \in Range(s)
  BY <1>1, <1>2
<1>7. ASSUME Distinct(s) PROVE Distinct(t) /\ s[1] \notin Range(t)
  <2>1. \A i \in 1..Len(t) : i + 1 \in 1..Len(s) /\ i + 1 # 1 /\ 1 \in 1..Len(s)
    BY <1>1
  <2>2. s[1] \notin Range(t)
    BY <1>1, <1>3, <1>7, <2>1 DEF Distinct
  <2>3. Distinct(t)
    <3> SUFFICES ASSUME NEW i \in 1..Len(t), NEW j \in 1..Len(t), t[i] = t[j] PROVE i = j
      BY DEF Distinct
    <3>1. s[i + 1] = s[j + 1]
      BY <1>1
    <3>2. i + 1 = j + 1
      BY <1>7, <2>1, <3>1 DEF Distinct
    <3> QED
      BY <3>2
  <2> QED
    BY <2>2, <2>3
<1> QED
  BY <1>1, <1>4, <1>5, <1>6, <1>7 DEF t

-----------------------------------------------------------------------------
(***************************************************************************)
(* Where a command is                                                      *)
(***************************************************************************)

\* Only a request that was answered with 202 has written its command.
OnlyAcceptedSent ==
    \A r \in Reqs : rpc[r] # "202" => r \notin Under \cup Range(received) \cup limited

\* It has written it once: on one wire, at one place, and not if the broker has it.
WrittenOnce ==
    /\ \A cl \in Clients : Distinct(wire[cl])
    /\ \A cl, d \in Clients : cl # d => Range(wire[cl]) \cap Range(wire[d]) = {}
    /\ \A cl \in Clients : Range(wire[cl]) \cap Range(received) = {}
    /\ Distinct(received)

CommandsInv == TypeOK /\ OnlyAcceptedSent /\ WrittenOnce /\ AcceptedIsAccountedFor

\* No request has been made yet.
LEMMA CommandsInit == Init => CommandsInv
<1> SUFFICES ASSUME Init PROVE CommandsInv
  OBVIOUS
<1> USE DEF Init
<1>1. TypeOK
  BY DEF TypeOK
<1>2. Range(received) = {} /\ \A cl \in Clients : Range(wire[cl]) = {}
  BY DEF Range
<1>3. Len(received) = 0 /\ \A cl \in Clients : Len(wire[cl]) = 0
  OBVIOUS
<1>4. OnlyAcceptedSent
  BY <1>2 DEF OnlyAcceptedSent, Under
<1>5. WrittenOnce
  BY <1>2, <1>3 DEF WrittenOnce, Distinct
<1>6. AcceptedIsAccountedFor
  BY <1>3 DEF AcceptedIsAccountedFor
<1> QED
  BY <1>1, <1>4, <1>5, <1>6 DEF CommandsInv

\* An answered request holds no client, and the others hold what they held.
LEMMA AnswerTypes ==
    ASSUME TypeOK, NEW r \in Reqs, NEW status \in {"202", "503"}, Answer(r, status)
    PROVE  /\ rpc' \in [Reqs -> {"new", "send", "202", "503"}]
           /\ rclient' \in [Reqs -> Clients \cup {Nil}]
           /\ \A q \in Reqs : rpc'[q] = "send" => rclient'[q] # Nil
BY DEF TypeOK, Answer

\* Every step keeps the types.
LEMMA CommandsTypes == TypeOK /\ [Next]_vars => TypeOK'
<1> SUFFICES ASSUME TypeOK, [Next]_vars PROVE TypeOK'
  OBVIOUS
<1> USE DEF TypeOK, bridgeVars, requestVars, brokerVars
<1>1. CASE UNCHANGED vars
  BY <1>1 DEF vars
<1>2. CASE BridgeStep \/ Consume \/ BroadcastReturns \/ ReadTimeout \/ Enqueued \/ Dequeued
  BY <1>2 DEF BridgeStep, Dial, SubAck, SubAckUnqueried, NotSubAck, Enqueued, Dequeued,
      setClient, ConsumeFails, clearClient, CloseClient, PubAckSent, PubAckFails,
      PubAckTimesOut, Consume, BroadcastReturns, ReadTimeout
<1>3. ASSUME NEW r \in Reqs, currentClient(r) \/ SendFails(r) \/ SendTimesOut(r) PROVE TypeOK'
  <2>1. CASE currentClient(r)
    <3>1. rpc' \in [Reqs -> {"new", "send", "202", "503"}]
      BY <2>1 DEF currentClient
    <3>2. rclient' \in [Reqs -> Clients \cup {Nil}]
      BY <2>1 DEF currentClient
    <3>3. \A q \in Reqs : rpc'[q] = "send" => rclient'[q] # Nil
      BY <2>1 DEF currentClient
    <3> QED
      BY <2>1, <3>1, <3>2, <3>3 DEF currentClient
  <2>2. CASE SendFails(r)
    BY <2>2, AnswerTypes DEF SendFails
  <2>3. CASE SendTimesOut(r)
    BY <2>3, AnswerTypes DEF SendTimesOut
  <2> QED
    BY <1>3, <2>1, <2>2, <2>3
<1>4. ASSUME NEW r \in Reqs, Send(r) PROVE TypeOK'
  <2>1. wire' \in [Clients -> Seq(Reqs)] /\ lost' \subseteq Reqs
    <3>1. rclient[r] \in Clients
      BY <1>4 DEF Send, Written
    <3>2. Append(wire[rclient[r]], r) \in Seq(Reqs)
      BY <3>1, AppendFacts
    <3> QED
      BY <1>4, <3>2 DEF Send, Written
  <2> QED
    BY <1>4, <2>1, AnswerTypes DEF Send, Written
<1>5. ASSUME NEW cl \in Clients, Lose(cl) \/ CloseArrives(cl) PROVE TypeOK'
  <2>1. Range(wire[cl]) \subseteq Reqs
    BY RangeSeq
  <2>2. wire' \in [Clients -> Seq(Reqs)] /\ lost' \subseteq Reqs
    <3>1. wire' = [wire EXCEPT ![cl] = <<>>] /\ lost' = lost \cup Range(wire[cl])
      BY <1>5 DEF Lose, CloseArrives, Drop
    <3>2. \A e \in Range(wire[cl]) : e \in Reqs
      BY <2>1
    <3>3. lost' \subseteq Reqs
      BY <3>1, <3>2
    <3> QED
      BY <3>1, <3>3
  <2>3. conn' \in [Clients -> {"closed", "open", "mute", "gone"}]
    BY <1>5 DEF Lose, CloseArrives
  <2> QED
    BY <1>5, <2>1, <2>2, <2>3 DEF Lose, CloseArrives
<1>6. ASSUME NEW cl \in Clients, Receive(cl) PROVE TypeOK'
  <2>1. wire[cl] \in Seq(Reqs) /\ wire[cl] # <<>>
    BY <1>6 DEF Receive
  <2>2. Head(wire[cl]) \in Reqs /\ Tail(wire[cl]) \in Seq(Reqs)
    BY <2>1, TailFacts
  <2>3. wire' \in [Clients -> Seq(Reqs)]
    BY <1>6, <2>2 DEF Receive
  <2>4. received' \in Seq(Reqs) /\ limited' \subseteq Reqs
    <3>1. Append(received, Head(wire[cl])) \in Seq(Reqs)
      BY <2>2, AppendFacts
    <3>2. \/ received' = Append(received, Head(wire[cl])) /\ limited' = limited
          \/ limited' = limited \cup {Head(wire[cl])} /\ received' = received
      BY <1>6 DEF Receive
    <3> QED
      BY <2>2, <3>1, <3>2
  <2> QED
    BY <1>6, <2>3, <2>4 DEF Receive
<1> QED
  BY <1>1, <1>2, <1>3, <1>4, <1>5, <1>6 DEF Next, RequestStep

\* A step that moves no command and accepts none.
LEMMA CommandsFrame ==
    ASSUME CommandsInv, UNCHANGED <<wire, received, limited, lost>>,
           \A r \in Reqs : rpc'[r] = "202" <=> rpc[r] = "202"
    PROVE  OnlyAcceptedSent' /\ WrittenOnce' /\ AcceptedIsAccountedFor'
<1>1. Under' = Under
  BY DEF Under
<1>2. OnlyAcceptedSent'
  BY <1>1 DEF CommandsInv, OnlyAcceptedSent
<1>3. WrittenOnce'
  BY DEF CommandsInv, WrittenOnce
<1>4. AcceptedIsAccountedFor'
  BY <1>1 DEF CommandsInv, AcceptedIsAccountedFor
<1> QED
  BY <1>2, <1>3, <1>4

\* The command of a request that is about to send goes on one wire, or is lost.
LEMMA SendKeepsInv ==
    ASSUME CommandsInv, NEW r \in Reqs, Send(r)
    PROVE  OnlyAcceptedSent' /\ WrittenOnce' /\ AcceptedIsAccountedFor'
<1> USE DEF brokerVars
<1> DEFINE cl == rclient[r]
<1>1. /\ cl \in Clients /\ rpc[r] = "send" /\ rpc'[r] = "202"
      /\ \A q \in Reqs \ {r} : rpc'[q] = rpc[q]
      /\ UNCHANGED <<received, limited>>
  BY DEF CommandsInv, TypeOK, Send, Written, Answer
<1>2. r \notin Under \cup Range(received) \cup limited
  BY <1>1 DEF CommandsInv, OnlyAcceptedSent
<1>3. CASE conn[cl] = "open"
  <2>1. wire' = [wire EXCEPT ![cl] = Append(@, r)] /\ UNCHANGED lost
    BY <1>3 DEF Send, Written
  <2> HIDE DEF cl
  <2>2. /\ wire'[cl] = Append(wire[cl], r) /\ wire[cl] \in Seq(Reqs)
        /\ \A d \in Clients \ {cl} : wire'[d] = wire[d]
    BY <1>1, <2>1 DEF CommandsInv, TypeOK
  <2>3. r \notin Range(wire[cl])
    BY <1>1, <1>2 DEF Under
  <2>4. Range(wire'[cl]) = Range(wire[cl]) \cup {r} /\ Distinct(wire'[cl])
    BY <1>1, <2>2, <2>3, AppendFacts DEF CommandsInv, WrittenOnce
  <2>a. \A d \in Clients \ {cl} : Range(wire'[d]) = Range(wire[d])
    BY <2>2
  <2>5. Under' = Under \cup {r}
    BY <1>1, <2>4, <2>a DEF Under
  <2>6. OnlyAcceptedSent'
    BY <1>1, <2>5 DEF CommandsInv, OnlyAcceptedSent
  <2>7. \A d \in Clients : r \notin Range(wire[d])
    BY <1>2 DEF Under
  <2>8. WrittenOnce'
    <3>1. \A d \in Clients : Distinct(wire'[d])
      BY <2>2, <2>4 DEF CommandsInv, WrittenOnce
    <3>2. \A d, e \in Clients : d # e => Range(wire'[d]) \cap Range(wire'[e]) = {}
      BY <2>4, <2>7, <2>a DEF CommandsInv, WrittenOnce
    <3>3. \A d \in Clients : Range(wire'[d]) \cap Range(received') = {}
      BY <1>1, <1>2, <2>4, <2>a DEF CommandsInv, WrittenOnce
    <3> QED
      BY <1>1, <3>1, <3>2, <3>3 DEF CommandsInv, WrittenOnce
  <2>9. AcceptedIsAccountedFor'
    BY <1>1, <2>1, <2>5 DEF CommandsInv, AcceptedIsAccountedFor
  <2> QED
    BY <2>6, <2>8, <2>9
<1>4. CASE conn[cl] # "open"
  <2>1. lost' = lost \cup {r} /\ UNCHANGED wire
    BY <1>4 DEF Send, Written
  <2>2. Under' = Under
    BY <2>1 DEF Under
  <2>3. OnlyAcceptedSent' /\ AcceptedIsAccountedFor'
    BY <1>1, <2>1, <2>2 DEF CommandsInv, OnlyAcceptedSent, AcceptedIsAccountedFor
  <2>4. WrittenOnce'
    BY <1>1, <2>1 DEF CommandsInv, WrittenOnce
  <2> QED
    BY <2>3, <2>4
<1> QED
  BY <1>3, <1>4

\* What is dropped with a connection is lost and nothing else changes.
LEMMA DropKeepsInv ==
    ASSUME CommandsInv, NEW cl \in Clients, Drop(cl), UNCHANGED <<rpc, received, limited>>
    PROVE  OnlyAcceptedSent' /\ WrittenOnce' /\ AcceptedIsAccountedFor'
<1>1. /\ wire'[cl] = <<>> /\ \A d \in Clients \ {cl} : wire'[d] = wire[d]
      /\ lost' = lost \cup Range(wire[cl])
  BY DEF Drop, CommandsInv, TypeOK
<1>2. Range(wire'[cl]) = {} /\ Distinct(wire'[cl])
  BY <1>1 DEF Range, Distinct
<1>3. Under' \subseteq Under /\ Under \subseteq Under' \cup Range(wire[cl])
  BY <1>1, <1>2 DEF Under
<1>4. OnlyAcceptedSent' /\ AcceptedIsAccountedFor'
  BY <1>1, <1>3 DEF CommandsInv, OnlyAcceptedSent, AcceptedIsAccountedFor
<1>5. WrittenOnce'
  BY <1>1, <1>2 DEF CommandsInv, WrittenOnce
<1> QED
  BY <1>4, <1>5

\* The broker takes the first command off a wire.
LEMMA ReceiveKeepsInv ==
    ASSUME CommandsInv, NEW cl \in Clients, Receive(cl)
    PROVE  OnlyAcceptedSent' /\ WrittenOnce' /\ AcceptedIsAccountedFor'
<1> USE DEF requestVars
<1> DEFINE r == Head(wire[cl])
<1>1. /\ wire[cl] # <<>> /\ wire[cl] \in Seq(Reqs) /\ received \in Seq(Reqs)
      /\ wire'[cl] = Tail(wire[cl]) /\ \A d \in Clients \ {cl} : wire'[d] = wire[d]
      /\ UNCHANGED <<rpc, lost>>
      /\ \/ received' = Append(received, r) /\ limited' = limited
         \/ limited' = limited \cup {r} /\ received' = received
  BY DEF Receive, CommandsInv, TypeOK
<1>2. /\ r \in Reqs /\ Range(wire[cl]) = Range(wire'[cl]) \cup {r}
      /\ Distinct(wire'[cl]) /\ r \notin Range(wire'[cl])
  BY <1>1, TailFacts DEF CommandsInv, WrittenOnce
<1> HIDE DEF r
<1>3. r \in Under /\ Under' \subseteq Under /\ Under \subseteq Under' \cup {r}
  BY <1>1, <1>2 DEF Under
<1>4. /\ r \notin Range(received)
      /\ \A d \in Clients \ {cl} : r \notin Range(wire[d])
  BY <1>2 DEF CommandsInv, WrittenOnce
<1>a. \A d \in Clients : /\ Range(wire'[d]) \subseteq Range(wire[d])
                         /\ Distinct(wire'[d]) /\ r \notin Range(wire'[d])
  <2>1. \A d \in Clients \ {cl} : Range(wire'[d]) = Range(wire[d]) /\ Distinct(wire'[d])
    BY <1>1 DEF CommandsInv, WrittenOnce
  <2> QED
    BY <1>2, <1>4, <2>1
<1>b. /\ \A d, e \in Clients : d # e => Range(wire'[d]) \cap Range(wire'[e]) = {}
      /\ \A d \in Clients : Range(wire'[d]) \cap Range(received) = {}
  BY <1>a DEF CommandsInv, WrittenOnce
<1>5. CASE received' = Append(received, r) /\ limited' = limited
  <2>1. Range(received') = Range(received) \cup {r} /\ Distinct(received')
    BY <1>1, <1>2, <1>4, <1>5, AppendFacts DEF CommandsInv, WrittenOnce
  <2>2. OnlyAcceptedSent'
    BY <1>1, <1>3, <1>5, <2>1 DEF CommandsInv, OnlyAcceptedSent
  <2>3. WrittenOnce'
    BY <1>a, <1>b, <2>1 DEF WrittenOnce
  <2>4. AcceptedIsAccountedFor'
    BY <1>1, <1>3, <1>5, <2>1 DEF CommandsInv, AcceptedIsAccountedFor, Distinct
  <2> QED
    BY <2>2, <2>3, <2>4
<1>6. CASE limited' = limited \cup {r} /\ received' = received
  <2>1. OnlyAcceptedSent' /\ AcceptedIsAccountedFor'
    BY <1>1, <1>3, <1>6 DEF CommandsInv, OnlyAcceptedSent, AcceptedIsAccountedFor
  <2>2. WrittenOnce'
    BY <1>6, <1>a, <1>b DEF CommandsInv, WrittenOnce
  <2> QED
    BY <2>1, <2>2
<1> QED
  BY <1>1, <1>5, <1>6

\* Every step keeps the invariant.
LEMMA CommandsStep == CommandsInv /\ [Next]_vars => CommandsInv'
<1> SUFFICES ASSUME CommandsInv, [Next]_vars
             PROVE  OnlyAcceptedSent' /\ WrittenOnce' /\ AcceptedIsAccountedFor'
  BY CommandsTypes DEF CommandsInv
<1> USE DEF bridgeVars, requestVars, brokerVars
<1>1. CASE UNCHANGED vars
  BY <1>1, CommandsFrame DEF vars
<1>2. CASE BridgeStep \/ Consume \/ BroadcastReturns \/ ReadTimeout \/ Enqueued \/ Dequeued
  BY <1>2, CommandsFrame DEF BridgeStep, Dial, SubAck, SubAckUnqueried, NotSubAck, Enqueued,
      Dequeued, setClient, ConsumeFails, clearClient, CloseClient, PubAckSent, PubAckFails,
      PubAckTimesOut, Consume, BroadcastReturns, ReadTimeout
<1>3. ASSUME NEW r \in Reqs, currentClient(r) \/ SendFails(r) \/ SendTimesOut(r)
      PROVE  OnlyAcceptedSent' /\ WrittenOnce' /\ AcceptedIsAccountedFor'
  BY <1>3, CommandsFrame DEF currentClient, SendFails, SendTimesOut, CannotWrite, Answer,
      CommandsInv, TypeOK
<1>4. ASSUME NEW cl \in Clients, Lose(cl) \/ CloseArrives(cl)
      PROVE  OnlyAcceptedSent' /\ WrittenOnce' /\ AcceptedIsAccountedFor'
  BY <1>4, DropKeepsInv DEF Lose, CloseArrives
<1> QED
  BY <1>1, <1>2, <1>3, <1>4, SendKeepsInv, ReceiveKeepsInv DEF Next, RequestStep

\* A request that is about to send holds a client (bridge.go:120-123).
THEOREM CommandsTypeCorrect == Spec => []TypeOK
<1>1. CommandsInv => TypeOK
  BY DEF CommandsInv
<1> QED
  BY CommandsInit, CommandsStep, <1>1, PTL DEF Spec

\* A command that was answered with 503 is nowhere, so it may be sent again, although
\* the bridge may replace the client between currentClient and Send (bridge.go:120-137).
THEOREM RefusedNotSentAlways == Spec => []RefusedNotSent
<1>1. CommandsInv => RefusedNotSent
  BY DEF CommandsInv, OnlyAcceptedSent, RefusedNotSent
<1> QED
  BY CommandsInit, CommandsStep, <1>1, PTL DEF Spec

\* A command that was answered with 202 is under way, received once, turned away or lost
\* with its connection (http.go:152-158).
THEOREM AcceptedIsAccountedForAlways == Spec => []AcceptedIsAccountedFor
<1>1. CommandsInv => AcceptedIsAccountedFor
  BY DEF CommandsInv
<1> QED
  BY CommandsInit, CommandsStep, <1>1, PTL DEF Spec

-----------------------------------------------------------------------------
(***************************************************************************)
(* Every step is a step of CommandFate, or none.  WrittenOnce is what the  *)
(* refinement rests on: a command that leaves one wire is on no other.     *)
(***************************************************************************)

\* The requests that were given an answer.
Answered(status) == {r \in Reqs : rpc[r] = status}

\* A step that moves no command and answers no request is none of CommandFate.
LEMMA FateFrame ==
    ASSUME UNCHANGED <<wire, received, limited, lost>>,
           \A r \in Reqs : \A status \in {"202", "503"} :
              rpc'[r] = status <=> rpc[r] = status
    PROVE  UNCHANGED F!vars
<1>1. Under' = Under /\ Range(received)' = Range(received)
  BY DEF Under
<1>2. Answered("503")' = Answered("503") /\ Answered("202")' = Answered("202")
  BY DEF Answered
<1> QED
  BY <1>1, <1>2, Zenon DEF F!vars, Answered

\* 503 is the answer: nothing was written (bridge.go:120-137).
LEMMA FateRefuses ==
    ASSUME CommandsInv, NEW r \in Reqs, rpc[r] \in {"new", "send"},
           rpc' = [rpc EXCEPT ![r] = "503"], UNCHANGED <<wire, received, limited, lost>>
    PROVE  F!Refuse(r)
<1>1. Under' = Under /\ Range(received)' = Range(received)
  BY DEF Under
<1>2. Answered("503")' = Answered("503") \cup {r} /\ Answered("202")' = Answered("202")
  BY DEF Answered, CommandsInv, TypeOK
<1>3. r \notin Answered("503") \cup Answered("202")
  BY DEF Answered
<1> QED
  BY <1>1, <1>2, <1>3, Zenon DEF F!Refuse, F!Unanswered, Answered

\* 202 is the answer: the command is on the wire, or on one that leads nowhere.
LEMMA FateAccepts ==
    ASSUME CommandsInv, NEW r \in Reqs, Send(r)
    PROVE  F!Accept(r)
<1> DEFINE cl == rclient[r]
<1>1. /\ cl \in Clients /\ rpc[r] = "send" /\ rpc' = [rpc EXCEPT ![r] = "202"]
      /\ UNCHANGED <<received, limited>>
  BY DEF CommandsInv, TypeOK, Send, Written, Answer, brokerVars
<1>2. Answered("202")' = Answered("202") \cup {r} /\ Answered("503")' = Answered("503")
  BY <1>1 DEF Answered, CommandsInv, TypeOK
<1>3. r \notin Answered("503") \cup Answered("202")
  BY <1>1 DEF Answered
<1>4. Range(received)' = Range(received)
  BY <1>1
<1>5. \/ Under' = Under \cup {r} /\ UNCHANGED lost
      \/ lost' = lost \cup {r} /\ Under' = Under
  <2>1. CASE conn[cl] = "open"
    <3>1. wire' = [wire EXCEPT ![cl] = Append(@, r)] /\ UNCHANGED lost
      BY <2>1 DEF Send, Written
    <3> HIDE DEF cl
    <3>2. /\ wire'[cl] = Append(wire[cl], r) /\ wire[cl] \in Seq(Reqs)
          /\ \A d \in Clients \ {cl} : wire'[d] = wire[d]
      BY <1>1, <3>1 DEF CommandsInv, TypeOK
    <3>3. Range(wire'[cl]) = Range(wire[cl]) \cup {r}
      BY <3>2, AppendFacts
    <3>4. \A d \in Clients \ {cl} : Range(wire'[d]) = Range(wire[d])
      BY <3>2
    <3>5. Under' = Under \cup {r}
      BY <1>1, <3>3, <3>4 DEF Under
    <3> QED
      BY <3>1, <3>5
  <2>2. CASE conn[cl] # "open"
    <3>1. lost' = lost \cup {r} /\ UNCHANGED wire
      BY <2>2 DEF Send, Written
    <3> QED
      BY <3>1 DEF Under
  <2> QED
    BY <2>1, <2>2
<1> QED
  BY <1>1, <1>2, <1>3, <1>4, <1>5, Zenon DEF F!Accept, F!Unanswered, Answered

\* What travels on a connection is lost with it, and on no other.
LEMMA FateDrops ==
    ASSUME CommandsInv, NEW cl \in Clients, Drop(cl), UNCHANGED <<rpc, received, limited>>
    PROVE  \E R \in SUBSET Under : F!Drop(R)
<1> DEFINE R == Range(wire[cl])
<1>1. /\ wire'[cl] = <<>> /\ \A d \in Clients \ {cl} : wire'[d] = wire[d]
      /\ lost' = lost \cup R
  BY DEF Drop, CommandsInv, TypeOK
<1>2. Range(wire'[cl]) = {} /\ \A d \in Clients \ {cl} : Range(wire'[d]) = Range(wire[d])
  BY <1>1 DEF Range
<1>3. \A d \in Clients \ {cl} : Range(wire[d]) \cap R = {}
  BY DEF CommandsInv, WrittenOnce
<1>4. R \in SUBSET Under
  BY DEF Under
<1> HIDE DEF R
<1>5. Under' = Under \ R
  <2>1. \A e : e \in Under' <=> \E d \in Clients : e \in Range(wire'[d])
    BY DEF Under
  <2>2. \A e : e \in Under <=> \E d \in Clients : e \in Range(wire[d])
    BY DEF Under
  <2>3. ASSUME NEW d \in Clients, NEW e
        PROVE  e \in Range(wire'[d]) <=> e \in Range(wire[d]) /\ e \notin R
    BY <1>2, <1>3 DEF R
  <2> QED
    BY <2>1, <2>2, <2>3
<1>6. Answered("503")' = Answered("503") /\ Answered("202")' = Answered("202")
  BY DEF Answered
<1>7. Range(received)' = Range(received)
  OBVIOUS
<1>8. F!Drop(R)
  BY <1>1, <1>5, <1>6, <1>7, Zenon DEF F!Drop, Answered
<1> QED
  BY <1>4, <1>8

\* The broker takes a command off the one wire it is on.
LEMMA FateArrives ==
    ASSUME CommandsInv, NEW cl \in Clients, Receive(cl)
    PROVE  \E r \in Reqs : F!Arrive(r)
<1> DEFINE r == Head(wire[cl])
<1>1. /\ wire[cl] # <<>> /\ wire[cl] \in Seq(Reqs) /\ received \in Seq(Reqs)
      /\ wire'[cl] = Tail(wire[cl]) /\ \A d \in Clients \ {cl} : wire'[d] = wire[d]
      /\ UNCHANGED <<rpc, lost>>
      /\ \/ received' = Append(received, r) /\ limited' = limited
         \/ limited' = limited \cup {r} /\ received' = received
  BY DEF Receive, CommandsInv, TypeOK, requestVars
<1>2. /\ r \in Reqs /\ Range(wire[cl]) = Range(wire'[cl]) \cup {r}
      /\ r \notin Range(wire'[cl])
  BY <1>1, TailFacts DEF CommandsInv, WrittenOnce
<1> HIDE DEF r
<1>3. \A d \in Clients \ {cl} : Range(wire'[d]) = Range(wire[d]) /\ r \notin Range(wire[d])
  BY <1>1, <1>2 DEF CommandsInv, WrittenOnce
<1>4. r \in Under /\ Under' = Under \ {r}
  <2>1. \A e : e \in Under' <=> \E d \in Clients : e \in Range(wire'[d])
    BY DEF Under
  <2>2. \A e : e \in Under <=> \E d \in Clients : e \in Range(wire[d])
    BY DEF Under
  <2>3. ASSUME NEW d \in Clients, NEW e
        PROVE  e \in Range(wire'[d]) <=> e \in Range(wire[d]) /\ e # r
    BY <1>2, <1>3
  <2>4. r \in Range(wire[cl])
    BY <1>2
  <2> QED
    BY <2>1, <2>2, <2>3, <2>4
<1>5. \/ Range(received)' = Range(received) \cup {r} /\ UNCHANGED limited
      \/ limited' = limited \cup {r} /\ Range(received)' = Range(received)
  <2>1. Range(Append(received, r)) = Range(received) \cup {r}
    BY <1>1, <1>2, AppendFacts
  <2>2. CASE received' = Append(received, r) /\ limited' = limited
    BY <2>1, <2>2, Zenon
  <2>3. CASE limited' = limited \cup {r} /\ received' = received
    BY <2>3, Zenon
  <2> QED
    BY <1>1, <2>2, <2>3
<1>6. Answered("503")' = Answered("503") /\ Answered("202")' = Answered("202")
  BY <1>1 DEF Answered
<1>7. F!Arrive(r)
  BY <1>1, <1>4, <1>5, <1>6, Zenon DEF F!Arrive, Answered
<1> QED
  BY <1>2, <1>7

\* Every step of the API process, the network or the broker has its place in CommandFate.
LEMMA FateStep == CommandsInv /\ [Next]_vars => [F!Next]_F!vars
<1> SUFFICES ASSUME CommandsInv, [Next]_vars PROVE F!Next \/ UNCHANGED F!vars
  BY Zenon
<1> USE DEF bridgeVars, requestVars, brokerVars
<1>1. CASE UNCHANGED vars
  BY <1>1, FateFrame DEF vars
<1>2. CASE BridgeStep \/ Consume \/ BroadcastReturns \/ ReadTimeout \/ Enqueued \/ Dequeued
  <2>1. UNCHANGED <<wire, received, limited, lost, rpc>>
    BY <1>2 DEF BridgeStep, Dial, SubAck, SubAckUnqueried, NotSubAck, Enqueued, Dequeued,
        setClient, ConsumeFails, clearClient, CloseClient, PubAckSent, PubAckFails,
        PubAckTimesOut, Consume, BroadcastReturns, ReadTimeout
  <2> QED
    BY <2>1, FateFrame
<1>3. ASSUME NEW r \in Reqs, currentClient(r) PROVE F!Next \/ UNCHANGED F!vars
  <2>1. rpc[r] = "new" /\ UNCHANGED <<wire, received, limited, lost>>
    BY <1>3 DEF currentClient
  <2>2. CASE shared = Nil
    <3>1. rpc' = [rpc EXCEPT ![r] = "503"]
      BY <1>3, <2>2 DEF currentClient
    <3>2. F!Refuse(r)
      BY <2>1, <3>1, FateRefuses
    <3> QED
      BY <3>2, Zenon DEF F!Next
  <2>3. CASE shared # Nil
    <3>1. rpc' = [rpc EXCEPT ![r] = "send"]
      BY <1>3, <2>3 DEF currentClient
    <3>2. \A q \in Reqs : \A status \in {"202", "503"} : rpc'[q] = status <=> rpc[q] = status
      BY <2>1, <3>1 DEF CommandsInv, TypeOK
    <3> QED
      BY <2>1, <3>2, FateFrame
  <2> QED
    BY <2>2, <2>3
<1>4. ASSUME NEW r \in Reqs, SendFails(r) \/ SendTimesOut(r) PROVE F!Next
  <2>1. /\ rpc[r] = "send" /\ rpc' = [rpc EXCEPT ![r] = "503"]
        /\ UNCHANGED <<wire, received, limited, lost>>
    BY <1>4 DEF SendFails, SendTimesOut, CannotWrite, Answer
  <2>2. F!Refuse(r)
    BY <2>1, FateRefuses
  <2> QED
    BY <2>2, Zenon DEF F!Next
<1>5. ASSUME NEW r \in Reqs, Send(r) PROVE F!Next
  BY <1>5, FateAccepts, Zenon DEF F!Next
<1>6. ASSUME NEW cl \in Clients, Lose(cl) \/ CloseArrives(cl) PROVE F!Next
  <2>1. Drop(cl) /\ UNCHANGED <<rpc, received, limited>>
    BY <1>6 DEF Lose, CloseArrives
  <2> QED
    BY <2>1, FateDrops, Zenon DEF F!Next
<1>7. ASSUME NEW cl \in Clients, Receive(cl) PROVE F!Next
  BY <1>7, FateArrives, Zenon DEF F!Next
<1> QED
  BY <1>1, <1>2, <1>3, <1>4, <1>5, <1>6, <1>7 DEF Next, RequestStep

\* A request is answered once; an accepted command is sent once and has one final fate;
\* a refused one has none (bridge.go:89-137, http.go:152-158).
THEOREM OneFateAlways == Spec => OneFate
<1>1. Init => F!Init
  <2> SUFFICES ASSUME Init PROVE F!Init
    OBVIOUS
  <2>1. Range(received) = {} /\ \A cl \in Clients : Range(wire[cl]) = {}
    BY DEF Init, Range
  <2>2. Under = {}
    BY <2>1 DEF Under
  <2>3. Answered("503") = {} /\ Answered("202") = {}
    BY DEF Init, Answered
  <2> QED
    BY <2>1, <2>2, <2>3, Zenon DEF Init, F!Init, Answered
<1> QED
  BY <1>1, CommandsInit, CommandsStep, FateStep, PTL DEF Spec, OneFate, F!Spec
=============================================================================
