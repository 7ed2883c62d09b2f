---------------------------- MODULE FleetProofs -----------------------------
(***************************************************************************)
(* Safety of the daemon and a device together, for every number of         *)
(* connections and every bound on the faults.                              *)
(***************************************************************************)
EXTENDS Fleet, TLAPS

\* A goroutine that returned nil was told to stop; one that returned an error failed.
ReturnsTell ==
    \A g \in Goroutines : /\ ret[g] = "nil" => ctxDone
                          /\ ret[g] = "error" => fatal

FleetInv == TypeOK /\ ReturnsTell /\ ExitCodeTells

\* The process has just been started, the device knows nothing yet.
LEMMA FleetInit == Init => FleetInv
<1> SUFFICES ASSUME Init PROVE FleetInv
  OBVIOUS
<1> USE DaemonAssumption, DeviceAssumption DEF Init, DaemonInit, DeviceInit
<1>1. DaemonTypeOK
  <2>1. DaemonFlags
    BY DEF DaemonFlags
  <2> QED
    BY <2>1 DEF NotStarted, DaemonTypeOK
<1>2. TypeOK
  BY <1>1 DEF TypeOK
<1>3. ReturnsTell /\ ExitCodeTells
  BY DEF NotStarted, ReturnsTell, ExitCodeTells
<1> QED
  BY <1>2, <1>3 DEF FleetInv

\* A step of the device keeps its types and the row behind its token.
LEMMA DeviceKeepsTypes ==
    ASSUME TypeOK, UNCHANGED daemonVars,
           \/ DeviceMoves
           \/ \E k \in Slots : ReaderMoves(k) \/ HandlerMoves(k)
           \/ SimSignal \/ Expire \/ Lose
    PROVE  TypeOK'
<1> USE DeviceAssumption DEF TypeOK, clientVars
<1>1. DaemonTypeOK'
  BY DEF DaemonTypeOK, DaemonFlags, daemonVars
<1>2. apiUp \in BOOLEAN
  BY DEF apiUp
<1>3. CASE Register(apiUp) \/ IssueToken(apiUp) \/ BootstrapFails(apiUp)
  BY <1>1, <1>2, <1>3 DEF Register, RegisterDevice, IssueToken, GetDevice, BootstrapFails
<1>4. CASE Dial(brokerUp) \/ DialFails(brokerUp) \/ Established \/ Wake
  BY <1>1, <1>4 DEF Dial, DialFails, Established, Wake
<1>5. CASE ConnectFails \/ LoopEnds
  BY <1>1, <1>5 DEF ConnectFails, LoopEnds, GiveUp
<1>6. ASSUME NEW k \in Slots, ReaderMoves(k) \/ HandlerMoves(k) PROVE TypeOK'
  BY <1>1, <1>6 DEF ReaderMoves, ReadFails, Report, HandlerMoves, HandlerStep, HAuthenticate,
      HReject, HLeave, HandlerAt
<1>7. CASE SimSignal \/ Expire \/ Lose
  BY <1>1, <1>7 DEF SimSignal, Expire, Lose
<1> QED
  BY <1>3, <1>4, <1>5, <1>6, <1>7 DEF DeviceMoves, DeviceStep

\* A step of the daemon keeps the types, and what is returned and the exit code are
\* explained by a signal or a failure.
LEMMA DaemonKeepsInv ==
    ASSUME DaemonTypeOK, ReturnsTell, ExitCodeTells, DaemonStep
    PROVE  DaemonTypeOK' /\ ReturnsTell' /\ ExitCodeTells'
<1> USE DaemonAssumption DEF Fault, NotStarted
<1>1. CASE Open
  <2>1. DaemonTypeOK'
    <3>1. DaemonFlags'
      <4>1. metrics' = FALSE \/ metrics' = ("listen" \in Started)
        BY <1>1, Zenon DEF Open, Exit
      <4>2. metrics' = FALSE \/ metrics' = TRUE
        <5>1. CASE "listen" \in Started
          BY <4>1, <5>1
        <5>2. CASE "listen" \notin Started
          BY <4>1, <5>2
        <5> QED
          BY <5>1, <5>2
      <4> QED
        BY <1>1, <4>2 DEF Open, Exit, DaemonTypeOK, DaemonFlags
    <3> QED
      BY <1>1, <3>1 DEF Open, Exit, DaemonTypeOK
  <2>2. ReturnsTell' /\ ExitCodeTells'
    BY <1>1 DEF Open, Exit, ReturnsTell, ExitCodeTells
  <2> QED
    BY <2>1, <2>2
<1>2. CASE OpenFails \/ Crash
  <2>1. DaemonTypeOK'
    <3>1. DaemonFlags'
      BY <1>2 DEF OpenFails, Crash, Exit, DaemonTypeOK, DaemonFlags
    <3> QED
      BY <1>2, <3>1 DEF OpenFails, Crash, Exit, DaemonTypeOK
  <2>2. ReturnsTell' /\ ExitCodeTells'
    BY <1>2 DEF OpenFails, Crash, Exit, ReturnsTell, ExitCodeTells
  <2> QED
    BY <2>1, <2>2
<1>3. CASE runAPI
  <2>1. DaemonTypeOK'
    <3>1. DaemonFlags'
      BY <1>3 DEF runAPI, Returns, Goroutines, DaemonTypeOK, DaemonFlags
    <3> QED
      BY <1>3, <3>1 DEF runAPI, Returns, Goroutines, DaemonTypeOK
  <2>2. ReturnsTell' /\ ExitCodeTells'
    BY <1>3 DEF runAPI, Returns, Goroutines, ReturnsTell, ExitCodeTells, DaemonTypeOK
  <2> QED
    BY <2>1, <2>2
<1>4. CASE RunReturns
  <2>1. Awaited \subseteq Goroutines
    BY DEF Awaited, Goroutines
  <2>2. DaemonTypeOK'
    <3>1. DaemonFlags'
      BY <1>4 DEF RunReturns, Exit, DaemonTypeOK, DaemonFlags
    <3> QED
      BY <1>4, <3>1 DEF RunReturns, Exit, DaemonTypeOK
  <2>3. ReturnsTell' /\ ExitCodeTells'
    BY <1>4, <2>1 DEF RunReturns, Exit, ReturnsTell, ExitCodeTells
  <2> QED
    BY <2>2, <2>3
<1>5. ASSUME NEW g \in {"listen", "bridge", "serve"}, Fails(g) \/ Stops(g)
      PROVE  DaemonTypeOK' /\ ReturnsTell' /\ ExitCodeTells'
  <2>1. DaemonTypeOK'
    <3>1. DaemonFlags'
      BY <1>5 DEF Fails, Stops, Returns, Goroutines, DaemonTypeOK, DaemonFlags
    <3> QED
      BY <1>5, <3>1 DEF Fails, Stops, Returns, Goroutines, DaemonTypeOK
  <2>2. ReturnsTell' /\ ExitCodeTells'
    BY <1>5 DEF Fails, Stops, Returns, Goroutines, ReturnsTell, ExitCodeTells, DaemonTypeOK
  <2> QED
    BY <2>1, <2>2
<1>6. CASE MetricsFails \/ Signal \/ Restart
  <2>1. DaemonTypeOK'
    <3>1. DaemonFlags'
      BY <1>6 DEF MetricsFails, Signal, Restart, Boot, DaemonTypeOK, DaemonFlags
    <3> QED
      BY <1>6, <3>1 DEF MetricsFails, Signal, Restart, Boot, DaemonTypeOK
  <2>2. ReturnsTell' /\ ExitCodeTells'
    BY <1>6 DEF MetricsFails, Signal, Restart, Boot, ReturnsTell, ExitCodeTells
  <2> QED
    BY <2>1, <2>2
<1> QED
  BY <1>1, <1>2, <1>3, <1>4, <1>5, <1>6 DEF DaemonStep

\* Every step of the fleet keeps the invariant.
LEMMA FleetStep == FleetInv /\ [Next]_vars => FleetInv'
<1> SUFFICES ASSUME FleetInv, [Next]_vars PROVE FleetInv'
  OBVIOUS
<1>1. CASE UNCHANGED daemonVars
  <2>1. ReturnsTell' /\ ExitCodeTells'
    BY <1>1 DEF FleetInv, daemonVars, ReturnsTell, ExitCodeTells
  <2>2. CASE UNCHANGED vars
    BY <2>1, <2>2 DEF FleetInv, vars, daemonVars, deviceVars, clientVars, TypeOK,
        DaemonTypeOK, DaemonFlags
  <2>3. CASE DeviceMoves \/ (\E k \in Slots : ReaderMoves(k) \/ HandlerMoves(k))
                \/ SimSignal \/ Expire \/ Lose
    BY <1>1, <2>1, <2>3, DeviceKeepsTypes DEF FleetInv
  <2>4. CASE Daemon(DaemonStep) /\ ~UNCHANGED vars
    BY <1>1, <2>1, <2>4 DEF Daemon, FleetInv, TypeOK, DaemonTypeOK, DaemonFlags, daemonVars,
        deviceVars, clientVars, BrokerGone
  <2> QED
    BY <2>2, <2>3, <2>4 DEF Next
<1>2. CASE Daemon(DaemonStep)
  <2>1. DaemonTypeOK' /\ ReturnsTell' /\ ExitCodeTells'
    BY <1>2, DaemonKeepsInv DEF Daemon, FleetInv, TypeOK
  <2> QED
    BY <1>2, <2>1 DEF Daemon, BrokerGone, FleetInv, TypeOK, deviceVars, clientVars
<1> QED
  BY <1>1, <1>2 DEF Next, vars, DeviceMoves, ReaderMoves, HandlerMoves

\* The types hold, and no device has a token without a row in the table (devices.go:30).
THEOREM FleetTypeCorrect == Spec => []TypeOK
<1>1. FleetInv => TypeOK
  BY DEF FleetInv
<1> QED
  BY FleetInit, FleetStep, <1>1, PTL DEF Spec

\* The exit code tells what happened, through every nesting of waits (main.go:20-102).
THEOREM ExitCodeTellsAlways == Spec => []ExitCodeTells
<1>1. FleetInv => ExitCodeTells
  BY DEF FleetInv
<1> QED
  BY FleetInit, FleetStep, <1>1, PTL DEF Spec
=============================================================================
