----------------------------- MODULE KafkaTopic -----------------------------
(***************************************************************************)
(* The Kafka topic between the two services (logsage_common.kafka_config). *)
(* The broker is external: a partition is a sequence of payloads that only *)
(* grows at its end, and readers remember offsets into it.                 *)
(***************************************************************************)
EXTENDS Messages, Sequences, Naturals

CONSTANTS
    Partitions,     \* the partitions of the topic
    MaxRecords      \* bound: what a partition holds before it takes only acknowledged records

ASSUME NoneIsNoPartition == None \notin Partitions
ASSUME MaxRecordsAssumption == MaxRecords \in Nat

VARIABLE topic          \* topic[p]: the payloads of partition p

TopicTypeOK == topic \in [Partitions -> Seq(Payloads)]

TopicInit == topic = [p \in Partitions |-> <<>>]

AppendRecord(p, payload) == topic' = [topic EXCEPT ![p] = Append(@, payload)]

HasRoom(p) == Len(topic[p]) < MaxRecords

(* The offsets (from 1) at which partition p has a record of trace id t.    *)
Offsets(p, t) == {i \in 1 .. Len(topic[p]) :
                    topic[p][i] # Malformed /\ topic[p][i].trace_id = t}

IsNewest(p, t, i) == i \in Offsets(p, t) /\ \A j \in Offsets(p, t) : j <= i
=============================================================================
