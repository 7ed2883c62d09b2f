---------------------------- MODULE CommandFate ----------------------------
(***************************************************************************)
(* What POST /devices/{id}/command promises about a command, without the   *)
(* bridge, its clients or their connections (api/handlers/http.go).  A     *)
(* request is answered once.  A refused command is never sent.  An         *)
(* accepted one is sent once; it then arrives at the broker, which serves  *)
(* it or turns it away, or is lost.  Nothing happens to it after that.     *)
(***************************************************************************)
CONSTANT Reqs

VARIABLES
    refused,    \* answered with 503
    accepted,   \* answered with 202
    under,      \* under way to the broker
    served,     \* the broker has it
    limited,    \* turned away by the rate limiter
    lost        \* never arrives

vars == <<refused, accepted, under, served, limited, lost>>

Init ==
    /\ refused = {} /\ accepted = {}
    /\ under = {} /\ served = {} /\ limited = {} /\ lost = {}

Unanswered(r) == r \notin refused \cup accepted

Refuse(r) ==
    /\ Unanswered(r)
    /\ refused' = refused \cup {r}
    /\ UNCHANGED <<accepted, under, served, limited, lost>>

Accept(r) ==
    /\ Unanswered(r)
    /\ accepted' = accepted \cup {r}
    /\ \/ under' = under \cup {r} /\ UNCHANGED lost
       \/ lost' = lost \cup {r} /\ UNCHANGED under
    /\ UNCHANGED <<refused, served, limited>>

Arrive(r) ==
    /\ r \in under
    /\ under' = under \ {r}
    /\ \/ served' = served \cup {r} /\ UNCHANGED limited
       \/ limited' = limited \cup {r} /\ UNCHANGED served
    /\ UNCHANGED <<refused, accepted, lost>>

\* Commands that travel together are lost together.
Drop(R) ==
    /\ under' = under \ R
    /\ lost' = lost \cup R
    /\ UNCHANGED <<refused, accepted, served, limited>>

Next ==
    \/ \E r \in Reqs : Refuse(r) \/ Accept(r) \/ Arrive(r)
    \/ \E R \in SUBSET under : Drop(R)

Spec == Init /\ [][Next]_vars
=============================================================================
