---------------------------- MODULE SessionStore ----------------------------
(***************************************************************************)
(* The in-memory session store (internal/broker/session).  Each operation  *)
(* holds the store's mutex throughout, so each is one step.                *)
(***************************************************************************)
EXTENDS Qtt

VARIABLE sessions   \* what the map holds for each client id

Session == [present : BOOLEAN, online : BOOLEAN,
            conn : Conns \cup {NoConn}, subs : SubMap]

\* NewStore: an empty map.
NoSessions ==
    [c \in ClientIds |->
        [present |-> FALSE, online |-> FALSE, conn |-> NoConn, subs |-> NoSubs]]

\* The new session keeps the subscriptions of the one it replaces.
UpsertConnected(c, k) ==
    sessions' = [sessions EXCEPT ![c] =
        [present |-> TRUE, online |-> TRUE, conn |-> k, subs |-> @.subs]]

\* Plausible bug: only the subscriptions of an online session are recorded.
AddSubscriptionsOnline(c, new) ==
    sessions' = IF sessions[c].online
                THEN [sessions EXCEPT ![c].subs = Replace(@, new)]
                ELSE sessions

AddSubscriptions(c, new) ==
    sessions' = IF sessions[c].present
                THEN [sessions EXCEPT ![c].subs = Replace(@, new)]
                ELSE sessions

\* Plausible bug: the connection of an offline session is kept.
DisconnectKeepsConn(c) ==
    sessions' = IF sessions[c].present
                THEN [sessions EXCEPT ![c].online = FALSE]
                ELSE sessions

\* Plausible bug: the session is removed from the map.
DisconnectForgets(c) ==
    sessions' = [sessions EXCEPT ![c] = NoSessions[c]]

\* Looks the session up by client id: whichever connection it now belongs to.
Disconnect(c) ==
    sessions' = IF sessions[c].present
                THEN [sessions EXCEPT ![c].online = FALSE, ![c].conn = NoConn]
                ELSE sessions
=============================================================================
