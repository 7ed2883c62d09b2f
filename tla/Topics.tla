------------------------------- MODULE Topics -------------------------------
(***************************************************************************)
(* Topic names and topic filters (pkg/qtt/utils/helpers.go).               *)
(*                                                                         *)
(* A topic is the sequence of levels strings.Split(topic, "/") returns.    *)
(* It is never empty: the empty string splits into one empty level.        *)
(***************************************************************************)
EXTENDS Integers, Sequences

EmptyTopic == <<"">>

\* The loop of MatchTopic returns while it looks at level idx of the filter.
StopsAt(filter, topic, idx) ==
    \/ idx > Len(topic)
    \/ filter[idx] = "#"
    \/ filter[idx] # "+" /\ filter[idx] # topic[idx]

\* Plausible bug: the loop forgets that the topic may be longer than the filter.
MatchTopicPrefix(filter, topic) ==
    \A idx \in 1..Len(filter) :
        StopsAt(filter, topic, idx) =>
            \E j \in 1..idx : StopsAt(filter, topic, j) /\ filter[j] = "#"

\* The loop visits the filter's levels in order. At the first level where it
\* returns, the answer is whether that level is "#": past the end of the topic
\* that is the test itself, and a level that differs is not "#".
MatchTopic(filter, topic) ==
    IF \E idx \in 1..Len(filter) : StopsAt(filter, topic, idx)
    THEN \E idx \in 1..Len(filter) :
            /\ StopsAt(filter, topic, idx)
            /\ \A j \in 1..(idx - 1) : ~StopsAt(filter, topic, j)
            /\ filter[idx] = "#"
    ELSE Len(filter) = Len(topic)

\* Plausible bug: the owner is taken to be the last level.
TopicOwnerLast(topic) ==
    IF Len(topic) < 2 \/ topic[1] # "device" THEN "" ELSE topic[Len(topic)]

\* The device a topic belongs to, if any: the label of an event on the dashboard.
TopicOwner(topic) ==
    IF Len(topic) < 2 \/ topic[1] # "device" THEN "" ELSE topic[2]

\* Some level of the topic, filter or id is this one.
HasLevel(levels, level) == \E i \in 1..Len(levels) : levels[i] = level
=============================================================================
