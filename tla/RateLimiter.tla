---------------------------- MODULE RateLimiter -----------------------------
(***************************************************************************)
(* The broker's rate limiter (internal/broker/server/limiter.go): a fixed  *)
(* window per client id, opened by the first packet after the last window  *)
(* has ended.  Allow runs under a mutex, so each outcome is one step.      *)
(*                                                                         *)
(* Time is the wall clock: time.Now().UTC() drops Go's monotonic reading,  *)
(* so the clock may also be set back (ClockSteps may hold negative steps). *)
(***************************************************************************)
EXTENDS Integers, Sequences, FiniteSets

CONSTANTS
    Clients,
    Limit,          \* packets per window; any int the environment gives
    Window,         \* its length
    ClockSteps,     \* by how much the wall clock may change
    MaxTime         \* bound: the last instant that is considered

ASSUME LimiterAssumption ==
    Limit \in Int /\ Window \in Nat /\ ClockSteps \subseteq Int /\ MaxTime \in Nat

VARIABLES
    now,            \* the wall clock
    seen,           \* the map: client -> [resetAt, count]
    windows,        \* history: the windows of a client, with the packets let through
    admitted,       \* history: the packets of a client let through, each with its
                    \* window, its place in the window and the instant
    steady          \* history: the clock was never set back

vars == <<now, seen, windows, admitted, steady>>

NoEntry == [resetAt |-> 0, count |-> 0]

Instants == 0..MaxTime

\* newRateLimiter
Init ==
    /\ now = 0
    /\ seen = [c \in Clients |-> NoEntry]
    /\ windows = [c \in Clients |-> <<>>]
    /\ admitted = [c \in Clients |-> {}]
    /\ steady = TRUE

\* Plausible bug: the new window starts while the old one lasts.
ExpiredEarly(c) == seen[c] = NoEntry \/ now >= seen[c].resetAt

\* No entry, or now is after its end.
Expired(c) == seen[c] = NoEntry \/ now > seen[c].resetAt

\* Plausible bug: the comparison lets one packet more through.
UsedUpLate(c) == seen[c].count > Limit

\* Plausible bug: the packet is counted before the comparison.
UsedUpEarly(c) == seen[c].count + 1 >= Limit

UsedUp(c) == seen[c].count >= Limit

\* A packet of c goes through, as the nth of its window.
Admit(c, win, nth) ==
    admitted' = [admitted EXCEPT ![c] = @ \cup {[win |-> win, nth |-> nth, at |-> now]}]

\* A new window: the packet is let through whatever the limit is.
OpenWindow(c) ==
    /\ Expired(c)
    /\ seen' = [seen EXCEPT ![c] = [resetAt |-> now + Window, count |-> 1]]
    /\ windows' = [windows EXCEPT ![c] = Append(@, [start |-> now, count |-> 1])]
    /\ Admit(c, Len(windows[c]) + 1, 1)
    /\ UNCHANGED <<now, steady>>

CountPacket(c) ==
    /\ ~Expired(c) /\ ~UsedUp(c)
    /\ seen' = [seen EXCEPT ![c].count = @ + 1]
    /\ windows' = [windows EXCEPT ![c][Len(windows[c])].count = @ + 1]
    /\ Admit(c, Len(windows[c]), seen[c].count + 1)
    /\ UNCHANGED <<now, steady>>

\* The packet is turned away and does not count.
Refuse(c) == ~Expired(c) /\ UsedUp(c) /\ UNCHANGED vars

Allow(c) == OpenWindow(c) \/ CountPacket(c) \/ Refuse(c)

ClockChange ==
    /\ \E d \in ClockSteps :
          /\ now + d \in Instants
          /\ now' = now + d
          /\ steady' = (steady /\ d >= 0)
    /\ UNCHANGED <<seen, windows, admitted>>

Next == ClockChange \/ \E c \in Clients : Allow(c)

Spec == Init /\ [][Next]_vars

-----------------------------------------------------------------------------
\* Every variable has the shape its comment gives it.
TypeOK ==
    /\ now \in Instants
    /\ seen \in [Clients -> [resetAt : Nat, count : Nat]]
    /\ windows \in [Clients -> Seq([start : Nat, count : Nat])]
    /\ admitted \in [Clients -> SUBSET [win : Nat, nth : Nat, at : Instants]]
    /\ steady \in BOOLEAN

\* What a client may send in one window: a limit below one still lets one through.
Budget == IF Limit > 1 THEN Limit ELSE 1

\* The limiter keeps its promise whatever the wall clock does: no window lets more
\* than the budget through, and a window starts only after its predecessor ended.
WindowsKeepBudget ==
    \A c \in Clients : \A i \in 1..Len(windows[c]) :
        /\ windows[c][i].count <= Budget
        /\ i > 1 => windows[c][i].start > windows[c][i - 1].start + Window

\* How many packets of c were let through from instant t on, for n more instants.
Passed(c, t, n) == Cardinality({p \in admitted[c] : p.at \in t..(t + n)})

\* While the clock is not set back, no span as long as a window sees more than
\* two budgets, however the packets straddle the end of a window.
BurstBound ==
    steady => \A c \in Clients : \A t \in Instants : Passed(c, t, Window) <= 2 * Budget

\* While the clock is not set back, a client is refused only if it was given its
\* whole budget within the last window's length: nobody is starved by old traffic.
RefusedHadBudget ==
    steady => \A c \in Clients :
        ~Expired(c) /\ UsedUp(c) => Passed(c, now - Window, Window) >= Budget

\* The entry of a client is the last of its windows.
EntryIsLast ==
    \A c \in Clients :
        LET n == Len(windows[c])
        IN  /\ seen[c] = NoEntry <=> n = 0
            /\ n > 0 => seen[c] = [resetAt |-> windows[c][n].start + Window,
                                   count |-> windows[c][n].count]
            /\ n > 0 => seen[c].count >= 1
=============================================================================
