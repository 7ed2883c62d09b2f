------------------------------ MODULE MCTopics ------------------------------
(***************************************************************************)
(* Enumerates filters and topics level by level and compares the matching  *)
(* and access-control operators with independent definitions of what they  *)
(* should compute.                                                         *)
(***************************************************************************)
EXTENDS Auth

CONSTANTS FilterLevels, TopicLevels, MaxFilter, MaxTopic, DeviceIds

\* An id is a sequence of levels, at least one: any id a token may carry.
ASSUME TopicsAssumption == DeviceIds \subseteq Seq(STRING) \ {<<>>}

\* A plain id, one below it, one that looks like a command and one that is a wildcard.
MCDeviceIds == {<<"d1">>, <<"d1", "d1">>, <<"command">>, <<"+">>}

VARIABLES filter, topic

vars == <<filter, topic>>

Init == /\ filter \in {<<l>> : l \in FilterLevels}
        /\ topic \in {<<l>> : l \in TopicLevels}

GrowFilter == /\ Len(filter) < MaxFilter
              /\ \E l \in FilterLevels : filter' = Append(filter, l)
              /\ UNCHANGED topic

GrowTopic == /\ Len(topic) < MaxTopic
             /\ \E l \in TopicLevels : topic' = Append(topic, l)
             /\ UNCHANGED filter

Next == GrowFilter \/ GrowTopic

Spec == Init /\ [][Next]_vars

\* A filter is well formed when "#" appears in its last level only.
WellFormed == \A i \in 1..(Len(filter) - 1) : filter[i] # "#"

\* The set of topics a well-formed filter stands for, spelled out: replace each
\* "+" by some level and a final "#" by any number of levels, zero included.
Denotes ==
    LET open == filter[Len(filter)] = "#"
        n == IF open THEN Len(filter) - 1 ELSE Len(filter)
        \* the first n levels the filter admits, given the topic's own levels
        heads == {h \in [1..n -> TopicLevels] : \A i \in 1..n : filter[i] \in {"+", h[i]}}
    IN  \E h \in heads :
            IF open THEN Len(topic) >= n /\ SubSeq(topic, 1, n) = h ELSE topic = h

\* MatchTopic (helpers.go:40) accepts exactly the topics the filter denotes: "+"
\* is one level, a final "#" the parent and everything below it, and a filter
\* without "#" never matches a longer or a shorter topic.
MatchIsDenotation == WellFormed => (MatchTopic(filter, topic) <=> Denotes)

\* Access control (acl/service.go) keeps devices apart: nothing a device may publish
\* reaches a filter that any device, itself included, may subscribe to, whatever levels
\* and "+" the two ids have. The subscriber's id has no level "#": the filter
\* device/#/command would match every topic under device/.
DevicesCannotReachDevices ==
    \A a, b \in DeviceIds : ~HasLevel(b, "#") =>
        ~ /\ CanPublish(IssueDeviceToken(a).claims, topic)
          /\ CanSubscribe(IssueDeviceToken(b).claims, filter)
          /\ MatchTopic(filter, topic)

\* The filter the bridge subscribes to.
BridgeFilter == <<"device", "+", "telemetry">>

\* The label the bridge puts on an event is the id of the device that published it
\* (helpers.go:28, bridge.go:76-153, acl/service.go:19-36): no device can publish a
\* topic that is shown under another's id, also when ids are prefixes of each other.
LabelIsPublisher ==
    \A a \in DeviceIds :
        MatchTopic(BridgeFilter, topic) /\ CanPublish(IssueDeviceToken(a).claims, topic)
            => a = <<TopicOwner(topic)>>
=============================================================================
