------------------------------ MODULE MCConsumer ------------------------------
(***************************************************************************)
(* ConsumerService for TLC, over two partitions.  Trace ids are            *)
(* interchangeable, so the first to be in the topic is t1: that leaves out *)
(* no behaviour.  What does is a bound: p2 takes at most one record.       *)
(***************************************************************************)
EXTENDS ConsumerService

CONSTANTS p1, p2, t1, t2

MCPartitions == {p1, p2}
MCTraceIds == {t1, t2}

InTopic(t) == \E p \in Partitions : Offsets(p, t) # {}

Canonical ==
    /\ InTopic(t2) => InTopic(t1)
    /\ Len(topic[p2]) <= 1

MCSpec == Init /\ [][Next /\ Canonical']_vars /\ Fairness
=============================================================================
