------------------------------- MODULE Ledger -------------------------------
(***************************************************************************)
(* What the broker promises about a packet, without connections, sessions, *)
(* handlers or subscriptions (docs/qtt-spec.md, "Offline Delivery"; the    *)
(* tables of api/db/store.go).  Accepting a packet comes first and is      *)
(* never undone.  Copies of it may then leave in any number and may be     *)
(* lost; its publisher may be told; it may be put aside for subscribers    *)
(* that are away, and is taken from there only after somebody acknowledged *)
(* a copy that did leave.                                                  *)
(***************************************************************************)
CONSTANT PacketIds

VARIABLES
    accepted,   \* packets with a row in the message table
    copies,     \* packets of which a client may still read or acknowledge a copy
    told,       \* packets whose publisher was sent PUBACK
    waiting,    \* packets with a row in the offline queue
    seen        \* packets some client has acknowledged

vars == <<accepted, copies, told, waiting, seen>>

Init == accepted = {} /\ copies = {} /\ told = {} /\ waiting = {} /\ seen = {}

Accept(id) ==
    /\ accepted' = accepted \cup {id}
    /\ UNCHANGED <<copies, told, waiting, seen>>

Emit(id) ==
    /\ id \in accepted
    /\ copies' = copies \cup {id}
    /\ UNCHANGED <<accepted, told, waiting, seen>>

\* Copies are read, or lost with their connection or with the broker.
Lose ==
    /\ copies' \subseteq copies
    /\ UNCHANGED <<accepted, told, waiting, seen>>

Tell(id) ==
    /\ id \in accepted
    /\ told' = told \cup {id}
    /\ UNCHANGED <<accepted, copies, waiting, seen>>

PutAside(id) ==
    /\ id \in accepted
    /\ waiting' = waiting \cup {id}
    /\ UNCHANGED <<accepted, copies, told, seen>>

\* A client acknowledges a copy it was sent.
Acknowledge(id) ==
    /\ id \in copies
    /\ seen' = seen \cup {id}
    /\ copies' \in {copies, copies \ {id}}
    /\ UNCHANGED <<accepted, told, waiting>>

Remove(id) ==
    /\ id \in seen
    /\ waiting' = waiting \ {id}
    /\ UNCHANGED <<accepted, copies, told, seen>>

Next ==
    \/ Lose
    \/ \E id \in PacketIds :
          \/ Accept(id) \/ Emit(id) \/ Tell(id)
          \/ PutAside(id) \/ Acknowledge(id) \/ Remove(id)

Spec == Init /\ [][Next]_vars
=============================================================================
