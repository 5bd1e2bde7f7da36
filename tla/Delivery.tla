------------------------------ MODULE Delivery ------------------------------
(***************************************************************************)
(* What the consumer service promises to somebody who writes the topic and *)
(* reads Redis, without processes, offsets in memory or commands: the      *)
(* records of a partition are shown one after the other, a record is       *)
(* finished only after it was shown, and what was shown may be shown again *)
(* (at-least-once).                                                        *)
(*                                                                         *)
(* StaleReplicas says whether a replica that lost its partitions may still *)
(* be writing: then a record that was finished long ago can come back.     *)
(***************************************************************************)
EXTENDS KafkaTopic

CONSTANT StaleReplicas

VARIABLES
    done,       \* done[p]: how many records of p are finished
    visible     \* visible[t]: the entry shown for trace id t, None when t is not listed

vars == <<topic, done, visible>>

Init ==
    /\ TopicInit
    /\ done = [p \in Partitions |-> 0]
    /\ visible = [t \in TraceIds |-> None]

Accept(p, payload) ==
    /\ AppendRecord(p, payload)
    /\ UNCHANGED <<done, visible>>

Show(p, i) ==
    /\ i \in 1 .. Len(topic[p])
    /\ IF StaleReplicas THEN i <= done[p] + 1 ELSE i = done[p] + 1
    /\ topic[p][i] # Malformed
    /\ visible' = [visible EXCEPT ![topic[p][i].trace_id] = topic[p][i].entry]
    /\ UNCHANGED <<topic, done>>

Shown(payload) ==
    payload # Malformed =>
        IF StaleReplicas THEN visible[payload.trace_id] # None
                         ELSE visible[payload.trace_id] = payload.entry

Finish(p) ==
    /\ done[p] < Len(topic[p])
    /\ Shown(topic[p][done[p] + 1])
    /\ done' = [done EXCEPT ![p] = @ + 1]
    /\ UNCHANGED <<topic, visible>>

Next ==
    \E p \in Partitions :
        \/ \E payload \in Payloads : Accept(p, payload)
        \/ \E i \in 1 .. Len(topic[p]) : Show(p, i)
        \/ Finish(p)

Spec == Init /\ [][Next]_vars
=============================================================================
