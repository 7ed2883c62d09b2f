---------------------------- MODULE TopicsProofs ----------------------------
(***************************************************************************)
(* Topic matching, access control and the owner of a topic, for filters    *)
(* and topics of every length over every set of levels.                    *)
(***************************************************************************)
EXTENDS MCTopics, SequenceTheorems, TLAPS

\* strings.Split returns at least one level.
Levels == /\ filter \in Seq(FilterLevels) /\ Len(filter) >= 1
          /\ topic \in Seq(TopicLevels) /\ Len(topic) >= 1

\* Filters and topics are built level by level.
LEMMA LevelsInv == Spec => []Levels
<1>1. Init => Levels
  <2> SUFFICES ASSUME Init PROVE Levels
    OBVIOUS
  <2>1. PICK l \in FilterLevels, m \in TopicLevels : filter = <<l>> /\ topic = <<m>>
    BY Zenon DEF Init
  <2> QED
    BY <2>1 DEF Levels
<1>2. Levels /\ [Next]_vars => Levels'
  <2> SUFFICES ASSUME Levels, [Next]_vars PROVE Levels'
    OBVIOUS
  <2>1. CASE GrowFilter
    <3>1. PICK l \in FilterLevels : filter' = Append(filter, l)
      BY <2>1, Zenon DEF GrowFilter
    <3> QED
      BY <2>1, <3>1, AppendProperties DEF GrowFilter, Levels
  <2>2. CASE GrowTopic
    <3>1. PICK l \in TopicLevels : topic' = Append(topic, l)
      BY <2>2, Zenon DEF GrowTopic
    <3> QED
      BY <2>2, <3>1, AppendProperties DEF GrowTopic, Levels
  <2>3. CASE UNCHANGED vars
    BY <2>3, Zenon DEF vars, Levels
  <2> QED
    BY <2>1, <2>2, <2>3, Zenon DEF Next
<1> QED
  BY <1>1, <1>2, PTL DEF Spec

\* The loop goes past a level of the filter exactly when the topic has that level and
\* the filter admits it (helpers.go:40-58).
LEMMA PassesLevel ==
    ASSUME Levels, NEW i \in 1..Len(filter)
    PROVE  ~StopsAt(filter, topic, i) <=>
               i <= Len(topic) /\ filter[i] # "#" /\ filter[i] \in {"+", topic[i]}
BY DEF Levels, StopsAt

\* A filter without "#" matches topics of its own length, level by level.
LEMMA ClosedMatch ==
    ASSUME Levels, \A i \in 1..Len(filter) : filter[i] # "#"
    PROVE  MatchTopic(filter, topic) <=>
               /\ Len(topic) = Len(filter)
               /\ \A i \in 1..Len(filter) : filter[i] \in {"+", topic[i]}
<1>1. Len(filter) \in Nat /\ Len(topic) \in Nat
  BY DEF Levels
<1>2. MatchTopic(filter, topic) <=>
          (\A i \in 1..Len(filter) : ~StopsAt(filter, topic, i)) /\ Len(filter) = Len(topic)
  BY Zenon DEF MatchTopic
<1> QED
  BY <1>1, <1>2, PassesLevel

\* A filter that ends in "#", and has no other, matches its levels and what is below.
LEMMA OpenMatch ==
    ASSUME Levels, WellFormed, filter[Len(filter)] = "#"
    PROVE  MatchTopic(filter, topic) <=>
               /\ Len(topic) >= Len(filter) - 1
               /\ \A i \in 1..(Len(filter) - 1) : filter[i] \in {"+", topic[i]}
<1> DEFINE n == Len(filter)
<1>1. n \in Nat /\ n >= 1 /\ Len(topic) \in Nat
  BY DEF Levels
<1>2. n \in 1..n /\ StopsAt(filter, topic, n)
  BY <1>1 DEF StopsAt
<1>3. \A i \in 1..n : filter[i] = "#" => i = n
  BY <1>1 DEF WellFormed
<1>4. MatchTopic(filter, topic) <=> \A j \in 1..(n - 1) : ~StopsAt(filter, topic, j)
  BY <1>1, <1>2, <1>3 DEF MatchTopic
<1>5. \A i \in 1..(n - 1) : i \in 1..n /\ filter[i] # "#"
  BY <1>1, <1>3
<1>6. MatchTopic(filter, topic) <=>
          \A i \in 1..(n - 1) : i <= Len(topic) /\ filter[i] \in {"+", topic[i]}
  BY <1>4, <1>5, PassesLevel
<1>7. (\A i \in 1..(n - 1) : i <= Len(topic)) <=> Len(topic) >= n - 1
  <2>1. ASSUME \A i \in 1..(n - 1) : i <= Len(topic) PROVE Len(topic) >= n - 1
    <3>1. CASE n = 1
      BY <1>1, <3>1
    <3>2. CASE n # 1
      BY <1>1, <2>1, <3>2
    <3> QED
      BY <3>1, <3>2
  <2> QED
    BY <1>1, <2>1
<1> QED
  BY <1>6, <1>7, Zenon

\* A well-formed filter matches exactly the topics it denotes, whatever its length and
\* the topic's: "+" is one level, a final "#" any number of them (helpers.go:40-58).
THEOREM MatchIsDenotationAlways == Spec => []MatchIsDenotation
<1>1. Levels => MatchIsDenotation
  <2> SUFFICES ASSUME Levels, WellFormed
               PROVE  MatchTopic(filter, topic) <=> Denotes
    BY Zenon DEF MatchIsDenotation
  <2>1. /\ Len(filter) \in Nat /\ Len(filter) >= 1 /\ Len(topic) \in Nat
        /\ topic \in [1..Len(topic) -> TopicLevels]
    BY DEF Levels
  <2>2. CASE filter[Len(filter)] = "#"
    <3> DEFINE n == Len(filter) - 1
               Open(h) == Len(topic) >= n /\ SubSeq(topic, 1, n) = h
               heads == {h \in [1..n -> TopicLevels] :
                           \A i \in 1..n : filter[i] \in {"+", h[i]}}
    <3>1. Denotes <=> \E h \in heads : Open(h)
      BY <2>2, Zenon DEF Denotes
    <3>2. ASSUME Len(topic) >= n
          PROVE  /\ SubSeq(topic, 1, n) \in [1..n -> TopicLevels]
                 /\ \A i \in 1..n : SubSeq(topic, 1, n)[i] = topic[i]
      <4>1. n \in Nat /\ 1 \in Int /\ n \in Int /\ \A i \in 1..n : topic[i] \in TopicLevels
        BY <2>1, <3>2
      <4> HIDE DEF n
      <4>3. /\ SubSeq(topic, 1, n) \in Seq(TopicLevels)
            /\ Len(SubSeq(topic, 1, n)) = IF 1 <= n THEN n - 1 + 1 ELSE 0
            /\ \A i \in 1..(n - 1 + 1) : SubSeq(topic, 1, n)[i] = topic[1 + i - 1]
        BY <4>1, SubSeqProperties
      <4>2. /\ SubSeq(topic, 1, n) \in Seq(TopicLevels)
            /\ Len(SubSeq(topic, 1, n)) = n
            /\ \A i \in 1..n : SubSeq(topic, 1, n)[i] = topic[i]
        BY <4>1, <4>3
      <4> QED
        BY <4>2, LenProperties
    <3>3. (\E h \in heads : Open(h)) <=>
              Len(topic) >= n /\ \A i \in 1..n : filter[i] \in {"+", topic[i]}
      BY <3>2, Zenon
    <3> QED
      BY <2>2, <3>1, <3>3, OpenMatch
  <2>3. CASE filter[Len(filter)] # "#"
    <3> DEFINE n == Len(filter)
               heads == {h \in [1..n -> TopicLevels] :
                           \A i \in 1..n : filter[i] \in {"+", h[i]}}
    <3>1. Denotes <=> \E h \in heads : topic = h
      BY <2>3, Zenon DEF Denotes
    <3>2. topic \in [1..n -> TopicLevels] <=> Len(topic) = n
      BY <2>1
    <3>3. \A i \in 1..n : filter[i] # "#"
      BY <2>1, <2>3 DEF WellFormed
    <3> QED
      BY <3>1, <3>2, <3>3, ClosedMatch
  <2> QED
    BY <2>2, <2>3, Zenon
<1> QED
  BY LevelsInv, <1>1, PTL

\* The levels of a device's command topic.
LEMMA CommandLevels ==
    ASSUME NEW id \in Seq(STRING)
    PROVE  /\ Len(CommandTopic(id)) = Len(id) + 2
           /\ CommandTopic(id)[1] = "device"
           /\ \A i \in 1..Len(id) : CommandTopic(id)[i + 1] = id[i]
           /\ CommandTopic(id)[Len(id) + 2] = "command"
BY DEF CommandTopic

\* The command topic of a device, as a filter, matches topics that end in "command".
LEMMA CommandFilterMatches ==
    ASSUME Levels, NEW b \in DeviceIds, ~HasLevel(b, "#"),
           filter = CommandTopic(b), MatchTopic(filter, topic)
    PROVE  topic[Len(topic)] = "command"
<1> DEFINE n == Len(b)
<1>1. b \in Seq(STRING) /\ n \in Nat
  BY TopicsAssumption
<1>2. /\ Len(filter) = n + 2 /\ filter[1] = "device" /\ filter[n + 2] = "command"
      /\ \A i \in 1..n : filter[i + 1] = b[i]
  BY <1>1, CommandLevels
<1>3. ASSUME NEW i \in 1..Len(filter) PROVE filter[i] # "#"
  <2>1. CASE i = 1 \/ i = n + 2
    BY <1>2, <2>1
  <2>2. CASE i # 1 /\ i # n + 2
    <3>1. i - 1 \in 1..n /\ (i - 1) + 1 = i
      BY <1>1, <1>2, <2>2
    <3>2. filter[(i - 1) + 1] = b[i - 1]
      BY <1>2, <3>1
    <3>3. b[i - 1] # "#"
      BY <3>1, Zenon DEF HasLevel
    <3> QED
      BY <3>1, <3>2, <3>3
  <2> QED
    BY <2>1, <2>2
<1>4. Len(topic) = Len(filter) /\ \A i \in 1..Len(filter) : filter[i] \in {"+", topic[i]}
  BY <1>3, ClosedMatch, Zenon
<1>5. n + 2 \in 1..Len(filter)
  BY <1>1, <1>2
<1>6. filter[n + 2] \in {"+", topic[n + 2]}
  BY <1>4, <1>5, Zenon
<1> QED
  BY <1>2, <1>4, <1>6

\* Nothing a device may publish reaches a filter that a device may subscribe to, for any
\* number of devices, ids of any levels (but "#" in the subscriber's, as the property
\* says) and topics of any depth (acl/service.go:19-53, helpers.go:40).
THEOREM DevicesCannotReachDevicesAlways == Spec => []DevicesCannotReachDevices
<1>1. Levels => DevicesCannotReachDevices
  <2> SUFFICES ASSUME Levels, NEW a \in DeviceIds, NEW b \in DeviceIds,
                      ~HasLevel(b, "#"),
                      CanPublish(IssueDeviceToken(a).claims, topic),
                      CanSubscribe(IssueDeviceToken(b).claims, filter),
                      MatchTopic(filter, topic)
               PROVE  FALSE
    BY Zenon DEF DevicesCannotReachDevices
  <2>1. topic[Len(topic)] # "command"
    BY DEF CanPublish, IssueDeviceToken, issueToken, Claims
  <2>2. filter = CommandTopic(b)
    BY DEF CanSubscribe, IssueDeviceToken, issueToken, Claims
  <2> QED
    BY <2>1, <2>2, CommandFilterMatches, Zenon
<1> QED
  BY LevelsInv, <1>1, PTL

\* A topic the bridge's filter matches has three levels, the outer two the filter's.
LEMMA BridgeMatches ==
    ASSUME Levels, MatchTopic(BridgeFilter, topic)
    PROVE  Len(topic) = 3 /\ topic[1] = "device" /\ topic[3] = "telemetry"
<1>1. /\ Len(BridgeFilter) = 3 /\ BridgeFilter[1] = "device"
      /\ BridgeFilter[2] = "+" /\ BridgeFilter[3] = "telemetry"
  BY DEF BridgeFilter
<1>2. (\A i \in 1..3 : ~StopsAt(BridgeFilter, topic, i)) /\ Len(topic) = 3
  BY <1>1 DEF MatchTopic
<1> QED
  BY <1>1, <1>2 DEF StopsAt

\* The bridge labels what a device published with that device's id, whatever the ids and
\* the topic are (helpers.go:28-58, bridge.go:76-153, acl/service.go:19-36).
THEOREM LabelIsPublisherAlways == Spec => []LabelIsPublisher
<1>1. Levels => LabelIsPublisher
  <2> SUFFICES ASSUME Levels, NEW a \in DeviceIds, MatchTopic(BridgeFilter, topic),
                      CanPublish(IssueDeviceToken(a).claims, topic)
               PROVE  a = <<TopicOwner(topic)>>
    BY Zenon DEF LabelIsPublisher
  <2>1. UnderDevice(a, topic)
    BY DEF CanPublish, IssueDeviceToken, issueToken, Claims
  <2>2. Len(topic) = 3 /\ topic[1] = "device"
    BY BridgeMatches
  <2>3. a \in Seq(STRING) /\ Len(a) \in Nat /\ Len(a) # 0
    BY TopicsAssumption, EmptySeq
  <2>4. Len(a) = 1
    <3>1. Len(topic) > Len(a) + 1
      BY <2>1, Zenon DEF UnderDevice
    <3>2. 3 > Len(a) + 1
      BY <2>2, <3>1, Zenon
    <3>3. \A n \in Nat : n # 0 /\ 3 > n + 1 => n = 1
      OBVIOUS
    <3> QED
      BY <2>3, <3>2, <3>3, Zenon
  <2>5. topic[2] = a[1]
    BY <2>1, <2>4 DEF UnderDevice
  <2>6. TopicOwner(topic) = a[1]
    BY <2>2, <2>5 DEF TopicOwner
  <2> DEFINE owner == TopicOwner(topic)
  <2> HIDE DEF owner
  <2>7. a[1] = owner
    BY <2>6 DEF owner
  <2>8. a = <<owner>>
    BY <2>3, <2>4, <2>7
  <2> QED
    BY <2>8 DEF owner
<1> QED
  BY LevelsInv, <1>1, PTL
=============================================================================
