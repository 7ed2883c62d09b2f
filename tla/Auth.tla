-------------------------------- MODULE Auth --------------------------------
(***************************************************************************)
(* Tokens (internal/auth/jwt), access control (internal/auth/acl) and the  *)
(* identity a CONNECT packet is given (authenticate in the broker server). *)
(*                                                                         *)
(* A token is a record [valid, claims].  valid stands for everything Parse *)
(* verifies: a token is there, its HMAC signature is the service's and it  *)
(* has not expired.  An id is, like a topic, the sequence of its levels,   *)
(* so that "device/<id>/" is a prefix of a topic's levels whatever the id. *)
(***************************************************************************)
EXTENDS Topics

\* The empty string: as an id it has one, empty, level.
NoId == <<"">>

NoRole == ""

Claims(clientId, deviceId, role) ==
    [clientId |-> clientId, deviceId |-> deviceId, role |-> role]

NoClaims == Claims(NoId, NoId, NoRole)

issueToken(clientId, deviceId, role) ==
    [valid |-> TRUE, claims |-> Claims(clientId, deviceId, role)]

IssueDeviceToken(deviceId) == issueToken(deviceId, deviceId, "device")

IssueAdminToken(clientId) == issueToken(clientId, NoId, "admin")

\* The token Parse rejects: missing, malformed, foreign or expired.
InvalidToken == [valid |-> FALSE, claims |-> NoClaims]

CommandTopic(deviceId) == <<"device">> \o deviceId \o <<"command">>

\* The topic begins with "device/<id>/".
UnderDevice(deviceId, topic) ==
    /\ Len(topic) > Len(deviceId) + 1
    /\ topic[1] = "device"
    /\ \A i \in 1..Len(deviceId) : topic[i + 1] = deviceId[i]

\* Plausible bug: devices may publish command topics of their own subtree.
CanPublishCommands(claims, topic) ==
    \/ claims.role = "admin"
    \/ claims.role = "device" /\ UnderDevice(claims.deviceId, topic)

\* An admin may publish anywhere. A device publishes under "device/<id>/", but
\* never to a topic that ends in "/command". Any other role is refused.
CanPublish(claims, topic) ==
    \/ claims.role = "admin"
    \/ /\ claims.role = "device"
       /\ UnderDevice(claims.deviceId, topic)
       /\ topic[Len(topic)] # "command"

\* An admin may subscribe to any filter, a device to its command topic only.
CanSubscribe(claims, filter) ==
    \/ claims.role = "admin"
    \/ claims.role = "device" /\ filter = CommandTopic(claims.deviceId)

\* The client id a CONNECT packet asks for: its own, else the token's.
RequestedId(packet) ==
    IF packet.clientId # NoId THEN packet.clientId ELSE packet.token.claims.clientId

\* Parse succeeds, there is a client id, and a device token is used by its device.
Accepts(packet) ==
    /\ packet.token.valid
    /\ RequestedId(packet) # NoId
    /\ ~ ( packet.token.claims.role = "device"
           /\ packet.token.claims.deviceId # RequestedId(packet) )
=============================================================================
