------------------------------- MODULE Daemon -------------------------------
(***************************************************************************)
(* The process crabmqd (cmd/crabmqd): main opens the database and runs the *)
(* broker, the API or both; each runs goroutines that report their end on  *)
(* a channel, main ends with the first of them or with a signal, and the   *)
(* container is started again unless an operator has stopped it.           *)
(*                                                                         *)
(* errCh has room for both its senders, so a report is the return value of *)
(* its goroutine, whether or not somebody still waits for it.              *)
(***************************************************************************)
EXTENDS Integers

CONSTANTS
    Args,           \* the commands the process may be started with
    MaxFailures     \* bound: failures, crashes and stray signals

ASSUME DaemonAssumption == MaxFailures \in Nat

VARIABLES
    command,    \* os.Args[1]
    main,       \* "open" (db.Open), "run", "exited"
    ctxDone,    \* the signal context is done
    ret,        \* a goroutine: "none", "running", or what it returned
    metrics,    \* is the metrics endpoint served?
    exit,       \* exit code of the process
    fatal,      \* history: something failed that must end the process
    stopped,    \* an operator has stopped the container
    failures    \* failures so far

daemonVars == <<command, main, ctxDone, ret, metrics, exit, fatal, stopped, failures>>

\* runBroker's accept loop, bridge.Start, httpServer.Serve and runAPI.
Goroutines == {"listen", "bridge", "serve", "api"}
NotStarted == [g \in Goroutines |-> "none"]

\* What the run function of the command waits for.
Awaited ==
    CASE command = "broker" -> {"listen"}
      [] command = "api" -> {"api"}
      [] command = "all" -> {"listen", "api"}
      [] OTHER -> {}

Started == IF "api" \in Awaited THEN Awaited \cup {"bridge", "serve"} ELSE Awaited

\* A new process.
Boot ==
    /\ main' = "open" /\ ctxDone' = FALSE /\ ret' = NotStarted /\ metrics' = FALSE
    /\ exit' = 0 /\ fatal' = FALSE

DaemonInit ==
    /\ command \in Args
    /\ main = "open" /\ ctxDone = FALSE /\ ret = NotStarted /\ metrics = FALSE
    /\ exit = 0 /\ fatal = FALSE /\ stopped = FALSE /\ failures = 0

-----------------------------------------------------------------------------
Exit(code) ==
    /\ main' = "exited" /\ exit' = code
    /\ ret' = NotStarted /\ metrics' = FALSE
    /\ UNCHANGED <<command, ctxDone, stopped>>

Fault == failures < MaxFailures /\ failures' = failures + 1

\* db.Open: a signal interrupts it, which is an error like any other.
OpenFails ==
    /\ main = "open"
    /\ Fault \/ (ctxDone /\ UNCHANGED failures)
    /\ fatal' = TRUE
    /\ Exit(1)

\* The database is open: run the command, or complain about an unknown one.
Open ==
    /\ main = "open"
    /\ IF Awaited = {} THEN Exit(2)
       ELSE /\ main' = "run"
            /\ ret' = [g \in Goroutines |-> IF g \in Started THEN "running" ELSE "none"]
            /\ metrics' = ("listen" \in Started)
            /\ UNCHANGED <<command, ctxDone, exit, stopped>>
    /\ UNCHANGED <<fatal, failures>>

Returns(g, value) ==
    /\ ret[g] = "running"
    /\ ret' = [ret EXCEPT ![g] = value]
    /\ UNCHANGED <<command, main, ctxDone, metrics, exit, stopped>>

\* Plausible bug: an error of Accept ends the loop as if the context were done.
FailsQuietly(g) ==
    /\ Fault
    /\ Returns(g, "nil")
    /\ fatal' = TRUE

\* The port is taken, Accept fails, ListenAndServe fails, no admin token is issued.
Fails(g) ==
    /\ Fault
    /\ Returns(g, "error")
    /\ fatal' = TRUE

\* Plausible bug: the accept loop does not look at the context.
StopsUnlessListening(g) ==
    /\ ctxDone /\ g # "listen"
    /\ Returns(g, "nil")
    /\ UNCHANGED <<fatal, failures>>

\* The context is done: Accept, ListenAndServe after Shutdown, or the bridge returns.
Stops(g) ==
    /\ ctxDone
    /\ Returns(g, "nil")
    /\ UNCHANGED <<fatal, failures>>

runAPI ==
    /\ \/ ctxDone /\ Returns("api", "nil")
       \/ \E g \in {"bridge", "serve"} : ret[g] \in {"nil", "error"} /\ Returns("api", ret[g])
    /\ UNCHANGED <<fatal, failures>>

\* The run function has returned; only runAll looks at the context itself.
RunReturns ==
    /\ main = "run"
    /\ \/ command = "all" /\ ctxDone /\ Exit(0)
       \/ \E g \in Awaited : ret[g] = "nil" /\ Exit(0)
       \/ \E g \in Awaited : ret[g] = "error" /\ Exit(1)
    /\ UNCHANGED <<fatal, failures>>

\* The metrics endpoint fails, which is only logged.
MetricsFails ==
    /\ metrics /\ Fault
    /\ metrics' = FALSE
    /\ UNCHANGED <<command, main, ctxDone, ret, exit, fatal, stopped>>

(***************************************************************************)
(* The surroundings: signals, crashes and the container's restart policy   *)
(***************************************************************************)
Signal ==
    /\ main # "exited" /\ ~ctxDone
    /\ ctxDone' = TRUE
    /\ \/ stopped' = TRUE /\ UNCHANGED failures
       \/ Fault /\ UNCHANGED stopped
    /\ UNCHANGED <<command, main, ret, metrics, exit, fatal>>

Crash ==
    /\ main # "exited" /\ Fault
    /\ fatal' = TRUE
    /\ Exit(137)

\* restart: unless-stopped (docker-compose.yml).
Restart ==
    /\ main = "exited" /\ ~stopped
    /\ Boot
    /\ UNCHANGED <<command, stopped, failures>>

\* What goes on by itself once it can. The bridge may be inside a broadcast to a
\* dashboard that does not read, so nothing is promised about its return.
Scheduled ==
    \/ Open \/ Stops("listen") \/ Stops("serve") \/ runAPI \/ RunReturns \/ Restart

DaemonStep ==
    \/ Open \/ OpenFails \/ runAPI \/ RunReturns \/ MetricsFails
    \/ \E g \in {"listen", "bridge", "serve"} : Fails(g) \/ Stops(g)
    \/ Signal \/ Crash \/ Restart

brokerUp == ret["listen"] = "running"
apiUp == ret["serve"] = "running"

-----------------------------------------------------------------------------
DaemonFlags == {ctxDone, metrics, fatal, stopped} \subseteq BOOLEAN

DaemonTypeOK ==
    /\ DaemonFlags
    /\ command \in Args /\ main \in {"open", "run", "exited"}
    /\ ret \in [Goroutines -> {"none", "running", "nil", "error"}]
    /\ exit \in {0, 1, 2, 137} /\ failures \in 0..MaxFailures

\* The exit code tells what happened, through up to three nested waits that may be
\* woken by a signal and a failure at once: 0 only after a signal, 1 only after a
\* failure, and a failure of the metrics endpoint is no failure (main.go:20-102).
ExitCodeTells ==
    main = "exited" =>
        /\ exit = 0 => ctxDone
        /\ exit = 1 => fatal

\* A signal, or a failure of the broker, the HTTP server or the bridge, ends the whole
\* process: it does not linger with the rest of its goroutines (main.go:79-101).
ProcessEnds == fatal \/ ctxDone ~> main = "exited"
=============================================================================
