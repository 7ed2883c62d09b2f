------------------------------- MODULE Device -------------------------------
(***************************************************************************)
(* A simulated device (cmd/crabmq-sim): it registers and gets a token over *)
(* HTTP (api/handlers, api/services/devices.go, api/db/store.go), connects *)
(* to the broker, publishes telemetry while a goroutine of its own reads   *)
(* commands, and starts over when anything fails.                          *)
(*                                                                         *)
(* What the handlers of its connections do is the subject of Broker; here  *)
(* they accept the token or not and notice that a connection has ended.    *)
(* CONNACK, SUBSCRIBE and SUBACK are one step, see Subscriber.  Up says    *)
(* whether the server that a step talks to is running.                     *)
(***************************************************************************)
EXTENDS Integers

CONSTANTS
    Slots,      \* connections that may exist at the same time
    NoSlot,     \* no connection
    MaxLosses,  \* bound: requests and connections that fail
    MaxExpiries \* bound: how often a token expires

ASSUME DeviceAssumption == NoSlot \notin Slots

VARIABLES
    registered, \* table devices: is there a row for the device?
    token,      \* the token of this turn: "none", "fresh", "expired"
    dpc,        \* runDevice: "register", "token", "dial", "connack", "telemetry",
                \* "sleep", "done"
    slot,       \* its connection
    reader,     \* readCommands on a connection: "none", "reading", "sending" (its
                \* error to errCh), "sent" (the error is in errCh)
    simDone,    \* the simulator's signal context is done
    open,       \* connections that work
    hpc,        \* the handler of a connection: "none", "auth", "loop"
    losses, expiries

clientVars == <<token, dpc, slot, reader>>
deviceVars == <<registered, clientVars, simDone, open, hpc, losses, expiries>>

DeviceInit ==
    /\ registered = FALSE /\ token = "none" /\ dpc = "register" /\ slot = NoSlot
    /\ reader = [k \in Slots |-> "none"] /\ simDone = FALSE
    /\ open = {} /\ hpc = [k \in Slots |-> "none"]
    /\ losses = 0 /\ expiries = 0

\* A request fails: the server is away, the simulator is stopping, or bad luck.
MayFail(up) ==
    \/ (~up \/ simDone) /\ UNCHANGED losses
    \/ losses < MaxLosses /\ losses' = losses + 1

-----------------------------------------------------------------------------
(***************************************************************************)
(* ensureToken and the handlers behind it                                  *)
(***************************************************************************)

\* INSERT ... ON CONFLICT (id) DO UPDATE: afterwards there is a row.
RegisterDevice == registered' = TRUE

\* SELECT ... WHERE id: is there one?
GetDevice == registered

Register(up) ==
    /\ dpc = "register" /\ up
    /\ RegisterDevice
    /\ dpc' = "token"
    /\ UNCHANGED <<token, slot, reader, simDone, open, hpc, losses, expiries>>

\* Plausible bug: the token of an earlier turn is used again.
IssueTokenOnce(up) ==
    /\ dpc = "token" /\ up
    /\ token' = IF token = "none" THEN "fresh" ELSE token
    /\ dpc' = "dial"
    /\ UNCHANGED <<registered, slot, reader, simDone, open, hpc, losses, expiries>>

\* IssueToken finds the row and signs a new token.
IssueToken(up) ==
    /\ dpc = "token" /\ up /\ GetDevice
    /\ token' = "fresh"
    /\ dpc' = "dial"
    /\ UNCHANGED <<registered, slot, reader, simDone, open, hpc, losses, expiries>>

\* No answer, or an error. The row may have been written all the same.
BootstrapFails(up) ==
    /\ dpc \in {"register", "token"}
    /\ MayFail(up)
    /\ UNCHANGED registered \/ (up /\ RegisterDevice)
    /\ dpc' = "sleep"
    /\ UNCHANGED <<token, slot, reader, simDone, open, hpc, expiries>>

Expire ==
    /\ token = "fresh" /\ expiries < MaxExpiries
    /\ token' = "expired"
    /\ expiries' = expiries + 1
    /\ UNCHANGED <<registered, dpc, slot, reader, simDone, open, hpc, losses>>

(***************************************************************************)
(* runDevice                                                               *)
(***************************************************************************)

\* A connection nobody refers to: slots stand for distinct connections.
Fresh(k) == hpc[k] = "none" /\ reader[k] = "none" /\ slot # k

Dial(up) ==
    /\ dpc = "dial" /\ up
    /\ \E k \in Slots :
          /\ Fresh(k)
          /\ slot' = k
          /\ open' = open \cup {k}
          /\ hpc' = [hpc EXCEPT ![k] = "auth"]
    /\ dpc' = "connack"
    /\ UNCHANGED <<registered, token, reader, simDone, losses, expiries>>

DialFails(up) ==
    /\ dpc = "dial"
    /\ MayFail(up)
    /\ dpc' = "sleep"
    /\ UNCHANGED <<registered, token, slot, reader, simDone, open, hpc, expiries>>

\* Plausible bug: the client of a failed turn is kept for the next one.
GiveUpKeepsClient ==
    /\ open' = open \ {slot}
    /\ dpc' = "sleep"
    /\ UNCHANGED <<registered, token, slot, reader, simDone, hpc, losses, expiries>>

\* client.Close, and sleepContext. Nobody receives from this errCh any more.
GiveUp ==
    /\ open' = open \ {slot}
    /\ reader' = [reader EXCEPT ![slot] = IF @ = "sent" THEN "none" ELSE @]
    /\ slot' = NoSlot
    /\ dpc' = "sleep"
    /\ UNCHANGED <<registered, token, simDone, hpc, losses, expiries>>

ConnectFails == dpc = "connack" /\ slot \notin open /\ GiveUp

\* runTelemetryLoop starts the reader.
Established ==
    /\ dpc = "connack" /\ slot \in open /\ hpc[slot] = "loop"
    /\ reader' = [reader EXCEPT ![slot] = "reading"]
    /\ dpc' = "telemetry"
    /\ UNCHANGED <<registered, token, slot, simDone, open, hpc, losses, expiries>>

\* The select of runTelemetryLoop: the context, errCh, or a tick whose Publish fails.
LoopEnds ==
    /\ dpc = "telemetry"
    /\ simDone \/ reader[slot] = "sent" \/ slot \notin open
    /\ GiveUp

\* Plausible bug: the loop does not look at its context.
WakeAgain ==
    /\ dpc = "sleep"
    /\ dpc' = "register"
    /\ UNCHANGED <<registered, token, slot, reader, simDone, open, hpc, losses,
                   expiries>>

\* The sleep is over or interrupted, and the loop looks at its context.
Wake ==
    /\ dpc = "sleep"
    /\ dpc' = IF simDone THEN "done" ELSE "register"
    /\ UNCHANGED <<registered, token, slot, reader, simDone, open, hpc, losses,
                   expiries>>

DeviceStep(api, broker) ==
    \/ Register(api) \/ IssueToken(api) \/ BootstrapFails(api)
    \/ Dial(broker) \/ DialFails(broker) \/ ConnectFails \/ Established
    \/ LoopEnds \/ Wake

ReadFails(k) ==
    /\ reader[k] = "reading" /\ k \notin open
    /\ reader' = [reader EXCEPT ![k] = "sending"]
    /\ UNCHANGED <<registered, token, dpc, slot, simDone, open, hpc, losses, expiries>>

\* Plausible bug: errCh has no buffer.
ReportUnbuffered(k) ==
    /\ reader[k] = "sending" /\ dpc = "telemetry" /\ slot = k
    /\ reader' = [reader EXCEPT ![k] = "sent"]
    /\ UNCHANGED <<registered, token, dpc, slot, simDone, open, hpc, losses, expiries>>

\* errCh has room for one error, whether or not the loop is still there to receive it.
Report(k) ==
    /\ reader[k] = "sending"
    /\ reader' = [reader EXCEPT ![k] = IF dpc = "telemetry" /\ slot = k THEN "sent" ELSE "none"]
    /\ UNCHANGED <<registered, token, dpc, slot, simDone, open, hpc, losses, expiries>>

SimSignal ==
    /\ ~simDone
    /\ simDone' = TRUE
    /\ UNCHANGED <<registered, clientVars, open, hpc, losses, expiries>>

(***************************************************************************)
(* The network and the broker's handlers                                   *)
(***************************************************************************)
Lose ==
    /\ losses < MaxLosses /\ losses' = losses + 1
    /\ \E k \in open : open' = open \ {k}
    /\ UNCHANGED <<registered, clientVars, simDone, hpc, expiries>>

HandlerAt(k, from, to) == hpc[k] = from /\ hpc' = [hpc EXCEPT ![k] = to]

HAuthenticate(k) ==
    /\ HandlerAt(k, "auth", "loop")
    /\ k \in open /\ token = "fresh"
    /\ UNCHANGED <<registered, clientVars, simDone, open, losses, expiries>>

\* The connection is gone, or Parse refuses the token.
HReject(k) ==
    /\ HandlerAt(k, "auth", "none")
    /\ k \notin open \/ token = "expired"
    /\ open' = open \ {k}
    /\ UNCHANGED <<registered, clientVars, simDone, losses, expiries>>

\* Receive fails.
HLeave(k) ==
    /\ HandlerAt(k, "loop", "none")
    /\ k \notin open
    /\ UNCHANGED <<registered, clientVars, simDone, open, losses, expiries>>

HandlerStep(k) ==
    HAuthenticate(k) \/ HReject(k) \/ HLeave(k)

\* The broker process is gone, and its connections with it.
BrokerGone ==
    /\ open' = {} /\ hpc' = [k \in Slots |-> "none"]
    /\ UNCHANGED <<registered, clientVars, simDone, losses, expiries>>
=============================================================================
