------------------------------- MODULE Fleet --------------------------------
(***************************************************************************)
(* The daemon and a simulated device together: failures, signals and       *)
(* restarts of the one against the reconnect loop of the other.            *)
(***************************************************************************)
EXTENDS Daemon, Device

CONSTANT MaxFaults  \* bound: faults of all kinds together

vars == <<daemonVars, deviceVars>>

Init == DaemonInit /\ DeviceInit

\* A step of the daemon. Its end ends every handler.
Daemon(step) == step /\ IF main' = "exited" THEN BrokerGone ELSE UNCHANGED deviceVars

DeviceMoves == DeviceStep(apiUp, brokerUp) /\ UNCHANGED daemonVars
ReaderMoves(k) == (ReadFails(k) \/ Report(k)) /\ UNCHANGED daemonVars
HandlerMoves(k) == HandlerStep(k) /\ UNCHANGED daemonVars

Next ==
    /\ \/ Daemon(DaemonStep)
       \/ DeviceMoves
       \/ \E k \in Slots : ReaderMoves(k) \/ HandlerMoves(k)
       \/ (SimSignal \/ Expire \/ Lose) /\ UNCHANGED daemonVars
    /\ failures' + losses' + expiries' <= MaxFaults

Spec == Init /\ [][Next]_vars

\* Goroutines that can go on are scheduled, sleeps end, requests are answered or fail,
\* and the container is started again.  Nobody is obliged to send a signal, and
\* nothing is obliged to fail.
FairSpec ==
    /\ Spec
    /\ WF_vars(Daemon(Scheduled))
    /\ WF_vars(DeviceMoves)
    /\ \A k \in Slots : WF_vars(ReaderMoves(k)) /\ WF_vars(HandlerMoves(k))

-----------------------------------------------------------------------------
\* Every variable has the shape its comment gives it, and a device that publishes has
\* a row in the table: no token is issued without one (devices.go:30).
TypeOK ==
    /\ DaemonTypeOK
    /\ registered \in BOOLEAN /\ token \in {"none", "fresh", "expired"}
    /\ dpc \in {"register", "token", "dial", "connack", "telemetry", "sleep", "done"}
    /\ slot \in Slots \cup {NoSlot} /\ open \subseteq Slots
    /\ reader \in [Slots -> {"none", "reading", "sending", "sent"}]
    /\ hpc \in [Slots -> {"none", "auth", "loop"}]
    /\ dpc \in {"connack", "telemetry"} <=> slot # NoSlot
    /\ token # "none" => registered

\* A device comes back: as long as nobody stops the daemon or the simulator, it is
\* publishing again and again, through failures of either server, restarts, lost
\* connections and expired tokens (crabmq-sim/main.go:58-120).
DeviceComesBack ==
    command = "all" /\ <>[](~stopped /\ ~simDone) => []<>(dpc = "telemetry")

\* A signal ends every device of the simulator, so that main's wg.Wait returns,
\* whether or not the servers answer (crabmq-sim/main.go:54-61).
SimulatorStops == simDone ~> dpc = "done"

\* The reader of a client that was given up ends: its last error never waits for a
\* loop that no longer receives (crabmq-sim/main.go:123-126).
ReadersEnd ==
    \A k \in Slots : reader[k] # "none" ~> reader[k] = "none" \/ slot = k
=============================================================================
