------------------------------ MODULE MCBroker ------------------------------
(***************************************************************************)
(* Instances of the broker for TLC.                                        *)
(***************************************************************************)
EXTENDS Broker, TLC

CONSTANTS o1, a1, a2, b1, cmd1, cmd2, tel1

Connect(id, token) == [clientId |-> id, token |-> token]

ops == <<"ops">>
d1 == <<"d1">>
d2 == <<"d1", "x">>
m1 == <<"m1">>
m2 == <<"m2">>

\* Commands: an operator and two devices, the id of the second one below the first.  The
\* third connection is a second one of the first device or the first one of the second,
\* or presents the wrong token.
CmdClients == {ops, d1, d2}
CmdFilters == {CommandTopic(d1), CommandTopic(d2)}
CmdConnect ==
    (o1 :> {Connect(ops, IssueAdminToken(ops))}) @@
    (a1 :> {Connect(NoId, IssueDeviceToken(d1))}) @@
    (a2 :> {Connect(d1, IssueDeviceToken(d1)), Connect(d2, IssueDeviceToken(d2)),
            Connect(d1, IssueDeviceToken(d2))})
CmdSubscribes ==
    [c \in CmdClients |->
        CASE c = ops -> {}
          [] OTHER -> {(CommandTopic(c) :> 1), (CommandTopic(d1) :> 1)}]
CmdPublishes == [c \in CmdClients |-> PacketIds]
CmdTopic == [id \in PacketIds |-> CommandTopic(IF id = cmd1 THEN d1 ELSE d2)]
CmdQos == [id \in PacketIds |-> IF id = cmd1 THEN 1 ELSE 0]

\* Telemetry: a device publishes to two monitors, one with overlapping filters.
TelFilter == <<"device", "+", "telemetry">>
AllFilter == <<"#">>
TelClients == {d1, m1, m2}
TelFilters == {TelFilter, AllFilter}
TelConnect ==
    (o1 :> {Connect(d1, IssueDeviceToken(d1))}) @@
    (a1 :> {Connect(m1, IssueAdminToken(m1))}) @@
    (a2 :> {Connect(m1, IssueAdminToken(m1))}) @@
    (b1 :> {Connect(m2, IssueAdminToken(m2))})
TelSubscribes ==
    [c \in TelClients |->
        CASE c = m1 -> {(TelFilter :> 1) @@ (AllFilter :> 0)}
          [] c = m2 -> {(TelFilter :> 1)}
          [] OTHER -> {}]
TelPublishes == [c \in TelClients |-> IF c = d1 THEN PacketIds ELSE {}]
TelTopic == [id \in PacketIds |-> <<"device", "d1", "telemetry">>]
TelQos == [id \in PacketIds |-> 1]
=============================================================================
