----------------------- MODULE ConsumerServiceProofs -----------------------
(***************************************************************************)
(* What ConsumerService's runs check on two replicas, for any number of    *)
(* replicas, partitions and records.                                       *)
(*                                                                         *)
(* CommittedIsStored is not inductive: a commit covers every partition the *)
(* replica owns, so the proof needs to know that of all the positions of a *)
(* member only the one of the record in its hands is past the committed    *)
(* offset (OneRecordAtRisk), that this record's writes are done by the     *)
(* time it is committed (RecordInHand), and that no two members own the    *)
(* same partition.  IInv is the conjunction.                               *)
(*                                                                         *)
(* The second part shows that ConsumerService implements Delivery.  Two    *)
(* facts are needed beyond IInv.  What Redis holds for a trace id is the   *)
(* entry of a record that is committed or next in line - a stale replica   *)
(* included, since it must commit between two records and dies when it     *)
(* tries (NearTheCommit, HeldIsARecord).  And a lone replica has nobody    *)
(* who writes between its own SET and its commit (LoneWriter).             *)
(***************************************************************************)
EXTENDS ConsumerService, TLAPS

USE NoneIsNoEntry, MalformedIsNoRecord, NoneIsNoPartition,
    MaxRecordsAssumption, MaxRetriesAssumption

InTopicSoFar == \A p \in Partitions : committed[p] <= Len(topic[p])

MembersAreUp == \A c \in members : pc[c] \in {Polling} \cup InHand

(* What a replica has in its hands, a stale one included.                   *)
HandOf(c) ==
    /\ pc[c] \notin InHand => current[c] = None
    /\ pc[c] \in InHand =>
         /\ current[c] \in assigned[c]
         /\ position[c][current[c]] \in 1 .. Len(topic[current[c]])
    /\ pc[c] \in {Setting, Indexing} => Message(c) # Malformed
    /\ pc[c] = Indexing => kv[Message(c).trace_id] # None
    /\ pc[c] = Committing => Stored(Message(c))

RecordInHand == \A c \in Consumers : HandOf(c)

IInv ==
    /\ TypeOK
    /\ InTopicSoFar
    /\ MembersAreUp
    /\ RecordInHand
    /\ OneRecordAtRisk
    /\ NoDanglingIndex
    /\ CommittedIsStored

-----------------------------------------------------------------------------
(* The payload in the hands of a replica that is saving is a record.        *)
LEMMA MessageIsRecord ==
    ASSUME TypeOK, RecordInHand, NEW c \in Consumers, pc[c] \in {Setting, Indexing}
    PROVE  /\ Message(c) \in Records
           /\ Message(c).trace_id \in TraceIds
           /\ Message(c).entry \in Entries
<1>1. current[c] \in Partitions
  BY DEF TypeOK, RecordInHand, HandOf, InHand
<1>2. position[c][current[c]] \in 1 .. Len(topic[current[c]])
  BY DEF RecordInHand, HandOf, InHand
<1>3. topic[current[c]] \in Seq(Payloads)
  BY <1>1 DEF TypeOK, TopicTypeOK
<1>4. Message(c) \in Payloads
  BY <1>2, <1>3 DEF Message
<1>5. Message(c) \in Records
  BY <1>4 DEF RecordInHand, HandOf, Payloads
<1> QED
  BY <1>5 DEF Records

LEMMA InitIInv == Init => IInv
<1> SUFFICES ASSUME Init PROVE IInv
  OBVIOUS
<1>1. TypeOK
  BY DEF Init, LogStoreInit, TopicInit, TypeOK, LogStoreTypeOK, TopicTypeOK, PcValues
<1>2. InTopicSoFar /\ CommittedIsStored
  BY DEF Init, TopicInit, InTopicSoFar, CommittedIsStored
<1>3. MembersAreUp /\ OneRecordAtRisk /\ NoDanglingIndex
  BY DEF Init, LogStoreInit, MembersAreUp, OneRecordAtRisk, NoDanglingIndex
<1>4. RecordInHand
  BY DEF Init, RecordInHand, HandOf, InHand, Connecting, Setting, Indexing, Committing
<1> QED
  BY <1>1, <1>2, <1>3, <1>4 DEF IInv

(* Appending to a partition leaves what was in it where it was.             *)
LEMMA AppendKeepsOffsets ==
    ASSUME TopicTypeOK, NEW p \in Partitions, NEW payload \in Payloads,
           AppendRecord(p, payload)
    PROVE  /\ TopicTypeOK'
           /\ \A q \in Partitions :
                /\ Len(topic[q]) <= Len(topic'[q])
                /\ \A i \in 1 .. Len(topic[q]) : topic'[q][i] = topic[q][i]
<1>1. \A q \in Partitions :
        topic'[q] = IF q = p THEN Append(topic[q], payload) ELSE topic[q]
  BY DEF AppendRecord, TopicTypeOK
<1>2. \A q \in Partitions : topic[q] \in Seq(Payloads)
  BY DEF TopicTypeOK
<1>3. TopicTypeOK'
  BY <1>2 DEF AppendRecord, TopicTypeOK
<1>4. ASSUME NEW q \in Partitions
      PROVE  /\ Len(topic[q]) <= Len(topic'[q])
             /\ \A i \in 1 .. Len(topic[q]) : topic'[q][i] = topic[q][i]
  <2>1. CASE q = p
    <3>1. topic'[q] = Append(topic[q], payload) /\ topic[q] \in Seq(Payloads)
      BY <2>1, <1>1, <1>2
    <3>2. ASSUME NEW s \in Seq(Payloads), NEW i \in 1 .. Len(s)
          PROVE  Append(s, payload)[i] = s[i] /\ Len(Append(s, payload)) = Len(s) + 1
      OBVIOUS
    <3>3. Len(topic[q]) \in Nat /\ Len(Append(topic[q], payload)) = Len(topic[q]) + 1
      BY <3>1
    <3> QED
      BY <3>1, <3>2, <3>3
  <2>2. CASE q # p
    <3>1. topic'[q] = topic[q] /\ Len(topic[q]) \in Nat
      BY <2>2, <1>1, <1>2
    <3> QED
      BY <3>1
  <2> QED
    BY <2>1, <2>2
<1> QED
  BY <1>3, <1>4

(* The consumers do not rely on the bound of Produce: records may come from *)
(* any publisher of the topic.                                              *)
Arrive(p, payload) ==
    /\ AppendRecord(p, payload)
    /\ UNCHANGED <<committed, members, replica, logStore>>

OpenNext ==
    \/ \E p \in Partitions, payload \in Payloads : Arrive(p, payload)
    \/ ConsumerNext

LEMMA NextIsOpen == [Next]_vars => [OpenNext]_vars
BY DEF Next, OpenNext, Produce, Arrive

LEMMA ArriveIInv ==
    ASSUME IInv, NEW p \in Partitions, NEW payload \in Payloads, Arrive(p, payload)
    PROVE  IInv'
<1> USE DEF Arrive, replica, logStore
<1>1. /\ TopicTypeOK'
      /\ \A q \in Partitions :
           /\ Len(topic[q]) <= Len(topic'[q])
           /\ \A i \in 1 .. Len(topic[q]) : topic'[q][i] = topic[q][i]
  BY AppendKeepsOffsets DEF IInv, TypeOK
<1>2. \A q \in Partitions : Len(topic[q]) \in Nat /\ Len(topic'[q]) \in Nat
  BY <1>1 DEF IInv, TypeOK, TopicTypeOK
<1>3. TypeOK'
  BY <1>1 DEF IInv, TypeOK, LogStoreTypeOK
<1>4. InTopicSoFar'
  BY <1>1, <1>2 DEF IInv, TypeOK, InTopicSoFar
<1>5. CommittedIsStored'
  <2> SUFFICES ASSUME NEW q \in Partitions, NEW i \in 1 .. committed'[q]
               PROVE  (i <= Len(topic[q]) /\ Stored(topic[q][i]))'
    BY DEF CommittedIsStored
  <2>1. i \in 1 .. committed[q] /\ committed[q] \in Nat
    BY DEF IInv, TypeOK
  <2>2. i <= Len(topic[q]) /\ Stored(topic[q][i])
    BY <2>1 DEF IInv, CommittedIsStored
  <2>3. i \in 1 .. Len(topic[q]) /\ topic'[q][i] = topic[q][i] /\ i <= Len(topic'[q])
    BY <1>1, <1>2, <2>1, <2>2
  <2> QED
    BY <2>2, <2>3 DEF Stored, Visible, ListTraceIds, Get
<1>6. MembersAreUp' /\ OneRecordAtRisk' /\ NoDanglingIndex'
  BY DEF IInv, MembersAreUp, OneRecordAtRisk, NoDanglingIndex
<1>7. \A c \in Consumers : pc[c] \in InHand =>
        /\ position[c][current[c]] \in 1 .. Len(topic'[current[c]])
        /\ Message(c)' = Message(c)
  BY <1>1, <1>2 DEF IInv, TypeOK, RecordInHand, HandOf, Message
<1>8. RecordInHand'
  BY <1>7 DEF IInv, RecordInHand, HandOf, Stored, Visible, ListTraceIds, Get, InHand
<1> QED
  BY <1>3, <1>4, <1>5, <1>6, <1>8 DEF IInv

(* A process that ends takes no part in anything the invariant speaks of.   *)
LEMMA DieIInv ==
    ASSUME IInv, NEW c \in Consumers, Die(c)
    PROVE  IInv'
<1> USE DEF Die, logStore
<1>1. TypeOK'
  BY DEF IInv, TypeOK, LogStoreTypeOK, TopicTypeOK, PcValues
<1>2. InTopicSoFar' /\ NoDanglingIndex' /\ CommittedIsStored'
  BY DEF IInv, InTopicSoFar, NoDanglingIndex, CommittedIsStored, Stored, Visible,
         ListTraceIds, Get
<1>3. /\ \A d \in Consumers \ {c} : /\ pc'[d] = pc[d]
                                    /\ assigned'[d] = assigned[d]
                                    /\ position'[d] = position[d]
                                    /\ current'[d] = current[d]
      /\ pc'[c] = Down /\ current'[c] = None
      /\ members' \subseteq members \ {c}
      /\ members \subseteq Consumers
  BY DEF IInv, TypeOK
<1>4. MembersAreUp'
  BY <1>3 DEF IInv, MembersAreUp
<1>5. OneRecordAtRisk'
  BY <1>3 DEF IInv, OneRecordAtRisk
<1>6. RecordInHand'
  <2>1. HandOf(c)'
    BY <1>3 DEF HandOf, InHand, Down, Setting, Indexing, Committing
  <2>2. ASSUME NEW d \in Consumers \ {c} PROVE HandOf(d)'
    <3>1. HandOf(d) /\ Message(d)' = Message(d)
      BY <1>3 DEF Message, IInv, RecordInHand
    <3>2. /\ pc'[d] = pc[d]
          /\ assigned'[d] = assigned[d]
          /\ position'[d] = position[d]
          /\ current'[d] = current[d]
          /\ UNCHANGED <<topic, kv, index>>
      BY <1>3
    <3> QED
      BY <3>1, <3>2 DEF HandOf, Stored, Visible, ListTraceIds, Get
  <2> QED
    BY <2>1, <2>2 DEF RecordInHand
<1> QED
  BY <1>1, <1>2, <1>4, <1>5, <1>6 DEF IInv

(* The steps before a replica polls.                                        *)
LEMMA ConnectIInv ==
    ASSUME IInv, NEW c \in Consumers, Restart(c) \/ ConnectOk(c) \/ ConnectFails(c)
    PROVE  IInv'
<1> USE DEF Restart, ConnectOk, ConnectFails, broker, logStore
<1>1. pc[c] \in {Down, Connecting} /\ pc'[c] \in {Connecting, Polling}
  BY DEF IInv, TypeOK
<1>2. \A d \in Consumers \ {c} : pc'[d] = pc[d]
  BY DEF IInv, TypeOK
<1>3. c \notin members
  BY <1>1 DEF IInv, MembersAreUp, InHand, Down, Connecting, Polling, Setting, Indexing,
              Committing
<1>4. TypeOK'
  <2>1. /\ attempt' \in [Consumers -> 0 .. MaxRetries]
        /\ pc' \in [Consumers -> PcValues]
    <3>1. CASE Restart(c)
      BY <3>1 DEF IInv, TypeOK, PcValues
    <3>2. CASE ConnectOk(c)
      BY <3>2 DEF IInv, TypeOK, PcValues
    <3>3. CASE ConnectFails(c)
      BY <3>3 DEF IInv, TypeOK
    <3> QED
      BY <3>1, <3>2, <3>3
  <2>2. /\ UNCHANGED <<topic, committed, members, assigned, position, current>>
        /\ UNCHANGED <<kv, index>>
    OBVIOUS
  <2> QED
    BY <2>1, <2>2 DEF IInv, TypeOK, LogStoreTypeOK, TopicTypeOK
<1>5. InTopicSoFar' /\ NoDanglingIndex' /\ CommittedIsStored' /\ OneRecordAtRisk'
  BY DEF IInv, InTopicSoFar, NoDanglingIndex, CommittedIsStored, OneRecordAtRisk, Stored,
         Visible, ListTraceIds, Get
<1>6. MembersAreUp'
  BY <1>2, <1>3 DEF IInv, TypeOK, MembersAreUp
<1>7. \A d \in Consumers : Message(d)' = Message(d)
  BY DEF Message
<1>8. pc[c] \notin InHand /\ pc'[c] \notin InHand
  BY <1>1 DEF InHand, Down, Connecting, Polling, Setting, Indexing, Committing
<1>9. RecordInHand'
  BY <1>2, <1>7, <1>8 DEF IInv, RecordInHand, HandOf, Stored, Visible, ListTraceIds, Get, InHand
<1> QED
  BY <1>4, <1>5, <1>6, <1>9 DEF IInv

LEMMA EvictIInv ==
    ASSUME IInv, NEW c \in Consumers, Evict(c)
    PROVE  IInv'
<1> USE DEF Evict, replica, logStore
<1>1. TypeOK'
  BY DEF IInv, TypeOK, LogStoreTypeOK, TopicTypeOK
<1>2. InTopicSoFar' /\ NoDanglingIndex' /\ CommittedIsStored' /\ RecordInHand'
  BY DEF IInv, InTopicSoFar, NoDanglingIndex, CommittedIsStored, RecordInHand, HandOf, Stored,
         Visible, ListTraceIds, Get, Message
<1>3. MembersAreUp' /\ OneRecordAtRisk'
  BY DEF IInv, MembersAreUp, OneRecordAtRisk
<1> QED
  BY <1>1, <1>2, <1>3 DEF IInv

(* A new owner starts at the committed offset.                              *)
LEMMA StartsAtCommitted ==
    ASSUME TypeOK PROVE committed = [p \in Partitions |-> StartOffset(p)]
BY DEF TypeOK, StartOffset

(* A new generation: each partition has one owner, who starts at the        *)
(* committed offset with nothing in hand.                                   *)
LEMMA RebalanceIInv ==
    ASSUME IInv, NEW joined \in SUBSET Consumers, Rebalance(joined)
    PROVE  IInv'
<1> USE DEF Rebalance, logStore
<1> PICK owner \in [Partitions -> joined] :
      assigned' = [c \in Consumers |->
                     IF c \in joined THEN {p \in Partitions : owner[p] = c}
                                     ELSE assigned[c]]
  OBVIOUS
<1>0. position' = [c \in Consumers |-> IF c \in joined THEN committed ELSE position[c]]
  BY StartsAtCommitted DEF IInv
<1>1. TypeOK'
  BY <1>0 DEF IInv, TypeOK, LogStoreTypeOK, TopicTypeOK
<1>2. InTopicSoFar' /\ NoDanglingIndex' /\ CommittedIsStored'
  BY DEF IInv, InTopicSoFar, NoDanglingIndex, CommittedIsStored, Stored, Visible,
         ListTraceIds, Get
<1>3. MembersAreUp'
  BY DEF IInv, MembersAreUp
<1>4. OneRecordAtRisk'
  <2> SUFFICES ASSUME NEW c \in joined, NEW p \in assigned'[c]
               PROVE  (/\ position[c][p] = committed[p] + (IF current[c] = p THEN 1 ELSE 0)
                       /\ \A d \in members \ {c} : p \notin assigned[d])'
    BY DEF OneRecordAtRisk
  <2>1. c \in Consumers /\ p \in Partitions /\ owner[p] = c
    OBVIOUS
  <2>2. \A d \in joined \ {c} : p \notin assigned'[d]
    BY <2>1
  <2>3. current[c] = None /\ p # None
    BY <2>1 DEF IInv, RecordInHand, HandOf, InHand, Polling, Setting, Indexing, Committing
  <2>4. position'[c][p] = committed[p] /\ committed[p] \in Nat
    BY <1>0, <2>1 DEF IInv, TypeOK
  <2> QED
    BY <2>2, <2>3, <2>4
<1>5. RecordInHand'
  <2> SUFFICES ASSUME NEW c \in Consumers PROVE HandOf(c)'
    BY DEF RecordInHand
  <2>1. CASE c \in joined
    BY <1>0, <2>1 DEF IInv, RecordInHand, HandOf, InHand, Polling, Setting, Indexing, Committing
  <2>2. CASE c \notin joined
    <3>1. assigned'[c] = assigned[c] /\ position'[c] = position[c]
      BY <1>0, <2>2
    <3>2. Message(c)' = Message(c) /\ HandOf(c)
      BY <3>1 DEF IInv, RecordInHand, Message
    <3> QED
      BY <3>1, <3>2 DEF HandOf, Stored, Visible, ListTraceIds, Get
  <2> QED
    BY <2>1, <2>2
<1> QED
  BY <1>1, <1>2, <1>3, <1>4, <1>5 DEF IInv

(* The hand of a replica that takes no part in a step of another one is     *)
(* disturbed only if a key it relies on could vanish; no step removes one.  *)
LEMMA OtherHands ==
    ASSUME TypeOK, RecordInHand, NEW c \in Consumers, NEW d \in Consumers \ {c},
           pc'[d] = pc[d], assigned'[d] = assigned[d], position'[d] = position[d],
           current'[d] = current[d], UNCHANGED topic,
           \A t \in TraceIds : kv[t] # None => kv'[t] # None,
           index \subseteq index'
    PROVE  HandOf(d)'
<1>1. HandOf(d) /\ Message(d)' = Message(d)
  BY DEF RecordInHand, Message
<1>2. pc[d] = Indexing => kv'[Message(d).trace_id] # None
  BY <1>1, MessageIsRecord DEF HandOf
<1>3. Stored(Message(d)) => Stored(Message(d))'
  BY <1>1 DEF TypeOK, LogStoreTypeOK, Stored, Visible, ListTraceIds, Get
<1> QED
  BY <1>1, <1>2, <1>3 DEF HandOf

LEMMA FetchIInv ==
    ASSUME IInv, NEW c \in Consumers, NEW p \in Partitions, Fetch(c, p)
    PROVE  IInv'
<1> USE DEF Fetch, broker, logStore
<1>1. /\ \A d \in Consumers \ {c} : /\ pc'[d] = pc[d]
                                    /\ position'[d] = position[d]
                                    /\ current'[d] = current[d]
      /\ current'[c] = p
      /\ position'[c] = [position[c] EXCEPT ![p] = @ + 1]
      /\ position[c] \in [Partitions -> Nat]
      /\ members \subseteq Consumers
      /\ UNCHANGED <<topic, committed, members, attempt, assigned, kv, index>>
  BY DEF IInv, TypeOK
<1>2. pc'[c] = IF topic[p][position[c][p] + 1] = Malformed THEN Committing ELSE Setting
  BY DEF IInv, TypeOK
<1>3. position[c][p] + 1 \in 1 .. Len(topic[p])
  BY <1>1 DEF IInv, TypeOK, TopicTypeOK
<1>4. Message(c)' = topic[p][position[c][p] + 1]
  BY <1>1 DEF Message
<1>5. TypeOK'
  BY DEF IInv, TypeOK, LogStoreTypeOK, TopicTypeOK, PcValues, InHand
<1>6. InTopicSoFar' /\ NoDanglingIndex' /\ CommittedIsStored'
  BY DEF IInv, InTopicSoFar, NoDanglingIndex, CommittedIsStored, Stored, Visible,
         ListTraceIds, Get
<1>7. MembersAreUp'
  BY <1>1, <1>2 DEF IInv, MembersAreUp, InHand
<1>8. current[c] = None
  BY DEF IInv, RecordInHand, HandOf, InHand, Polling, Setting, Indexing, Committing
<1>9. OneRecordAtRisk'
  <2> SUFFICES ASSUME NEW d \in members, NEW q \in assigned[d]
               PROVE  /\ position'[d][q] = committed[q] + (IF current'[d] = q THEN 1 ELSE 0)
                      /\ \A e \in members \ {d} : q \notin assigned[e]
    BY <1>1 DEF OneRecordAtRisk
  <2>1. q \in Partitions /\ d \in Consumers
    BY DEF IInv, TypeOK
  <2>2. /\ position[d][q] = committed[q] + (IF current[d] = q THEN 1 ELSE 0)
        /\ \A e \in members \ {d} : q \notin assigned[e]
    BY DEF IInv, OneRecordAtRisk
  <2>3. CASE d = c
    <3>1. position[c][q] = committed[q] /\ committed[q] \in Nat
      BY <2>1, <2>2, <2>3, <1>8 DEF IInv, TypeOK
    <3>2. position'[c][q] = IF q = p THEN position[c][q] + 1 ELSE position[c][q]
      BY <2>1, <1>1
    <3> QED
      BY <2>2, <2>3, <3>1, <3>2, <1>1
  <2>4. CASE d # c
    BY <2>1, <2>2, <2>4, <1>1
  <2> QED
    BY <2>3, <2>4
<1>10. RecordInHand'
  <2>1. HandOf(c)'
    BY <1>1, <1>2, <1>3, <1>4
    DEF HandOf, InHand, Setting, Indexing, Committing, Stored
  <2>2. ASSUME NEW d \in Consumers \ {c} PROVE HandOf(d)'
    BY <1>1, OtherHands DEF IInv
  <2> QED
    BY <2>1, <2>2 DEF RecordInHand
<1> QED
  BY <1>5, <1>6, <1>7, <1>9, <1>10 DEF IInv

(* Neither write of save() unstores anything.                               *)
LEMMA StoredStays ==
    ASSUME TypeOK, \A t \in TraceIds : kv[t] # None => kv'[t] # None,
           index \subseteq index', UNCHANGED <<topic, committed>>, CommittedIsStored
    PROVE  CommittedIsStored'
<1> SUFFICES ASSUME NEW p \in Partitions, NEW i \in 1 .. committed[p]
             PROVE  (i <= Len(topic[p]) /\ Stored(topic[p][i]))'
  BY DEF CommittedIsStored
<1>1. i <= Len(topic[p]) /\ Stored(topic[p][i])
  BY DEF CommittedIsStored
<1> QED
  BY <1>1 DEF TypeOK, LogStoreTypeOK, Stored, Visible, ListTraceIds, Get

LEMMA SaveEntryIInv ==
    ASSUME IInv, NEW c \in Consumers, SaveEntry(c)
    PROVE  IInv'
<1> USE DEF SaveEntry, SetEntry, broker
<1> DEFINE t == Message(c).trace_id
           e == Message(c).entry
<1>1. t \in TraceIds /\ e \in Entries /\ e # None
  BY MessageIsRecord DEF IInv
<1>2. /\ \A d \in Consumers \ {c} : pc'[d] = pc[d]
      /\ pc[c] = Setting /\ pc'[c] = Indexing
      /\ members \subseteq Consumers
      /\ UNCHANGED <<topic, committed, members, attempt, assigned, position, current, index>>
      /\ Message(c)' = Message(c)
  BY DEF IInv, TypeOK, Message
<1>3. \A u \in TraceIds : kv'[u] = IF u = t THEN e ELSE kv[u]
  BY <1>1 DEF IInv, TypeOK, LogStoreTypeOK
<1>4. TypeOK'
  BY <1>1 DEF IInv, TypeOK, LogStoreTypeOK, TopicTypeOK, PcValues, InHand
<1>5. InTopicSoFar' /\ OneRecordAtRisk'
  BY DEF IInv, InTopicSoFar, OneRecordAtRisk
<1>6. NoDanglingIndex'
  BY <1>1, <1>2, <1>3 DEF IInv, TypeOK, LogStoreTypeOK, NoDanglingIndex
<1>7. MembersAreUp'
  BY <1>2 DEF IInv, MembersAreUp, InHand
<1>8. CommittedIsStored'
  BY <1>1, <1>2, <1>3, StoredStays DEF IInv
<1>9. RecordInHand'
  <2>1. HandOf(c)'
    <3>1. HandOf(c)
      BY DEF IInv, RecordInHand
    <3> QED
      BY <3>1, <1>1, <1>2, <1>3 DEF HandOf, InHand, Setting, Indexing, Committing
  <2>2. ASSUME NEW d \in Consumers \ {c} PROVE HandOf(d)'
    BY <1>1, <1>2, <1>3, OtherHands DEF IInv
  <2> QED
    BY <2>1, <2>2 DEF RecordInHand
<1> QED
  BY <1>4, <1>5, <1>6, <1>7, <1>8, <1>9 DEF IInv

LEMMA SaveIndexIInv ==
    ASSUME IInv, NEW c \in Consumers, SaveIndex(c)
    PROVE  IInv'
<1> USE DEF SaveIndex, AddToIndex, broker
<1> DEFINE t == Message(c).trace_id
<1>1. t \in TraceIds
  BY MessageIsRecord DEF IInv
<1>2. /\ \A d \in Consumers \ {c} : pc'[d] = pc[d]
      /\ pc[c] = Indexing /\ pc'[c] = Committing
      /\ members \subseteq Consumers
      /\ UNCHANGED <<topic, committed, members, attempt, assigned, position, current, kv>>
      /\ Message(c)' = Message(c)
  BY DEF IInv, TypeOK, Message
<1>3. HandOf(c) /\ kv[t] # None
  BY <1>2 DEF IInv, RecordInHand, HandOf
<1>4. TypeOK'
  BY <1>1 DEF IInv, TypeOK, LogStoreTypeOK, TopicTypeOK, PcValues, InHand
<1>5. InTopicSoFar' /\ OneRecordAtRisk'
  BY DEF IInv, InTopicSoFar, OneRecordAtRisk
<1>6. NoDanglingIndex'
  BY <1>2, <1>3 DEF IInv, NoDanglingIndex
<1>7. MembersAreUp'
  BY <1>2 DEF IInv, MembersAreUp, InHand
<1>8. CommittedIsStored'
  BY <1>2, StoredStays DEF IInv
<1>9. RecordInHand'
  <2>1. HandOf(c)'
    BY <1>2, <1>3
    DEF HandOf, InHand, Setting, Indexing, Committing, Stored, Visible, ListTraceIds, Get
  <2>2. ASSUME NEW d \in Consumers \ {c} PROVE HandOf(d)'
    BY <1>2, OtherHands DEF IInv
  <2> QED
    BY <2>1, <2>2 DEF RecordInHand
<1> QED
  BY <1>4, <1>5, <1>6, <1>7, <1>8, <1>9 DEF IInv

(* The only step that commits: of the partitions it covers, the one of the  *)
(* record in hand moves by that record, the others stay where they are.     *)
LEMMA CommitMovesByOne ==
    ASSUME IInv, NEW c \in Consumers, CommitAccepted(c)
    PROVE  /\ current[c] \in assigned[c] /\ current[c] \in Partitions
           /\ committed' = [committed EXCEPT ![current[c]] = @ + 1]
           /\ committed[current[c]] + 1 = position[c][current[c]]
<1> USE DEF CommitAccepted
<1>1. current[c] \in assigned[c] /\ assigned[c] \subseteq Partitions
  BY DEF IInv, TypeOK, RecordInHand, HandOf, InHand
<1>2. \A p \in assigned[c] :
        position[c][p] = committed[p] + (IF current[c] = p THEN 1 ELSE 0)
  BY DEF IInv, OneRecordAtRisk
<1>3. committed \in [Partitions -> Nat]
  BY DEF IInv, TypeOK
<1>4. \A p \in Partitions :
        committed'[p] = IF p = current[c] THEN committed[p] + 1 ELSE committed[p]
  BY <1>1, <1>2, <1>3
<1> QED
  BY <1>1, <1>2, <1>3, <1>4

LEMMA CommitAcceptedIInv ==
    ASSUME IInv, NEW c \in Consumers, CommitAccepted(c)
    PROVE  IInv'
<1> USE DEF CommitAccepted, logStore
<1> DEFINE m == current[c]
<1>1. /\ m \in assigned[c] /\ m \in Partitions
      /\ committed' = [committed EXCEPT ![m] = @ + 1]
      /\ committed[m] + 1 = position[c][m]
  BY CommitMovesByOne
<1>2. /\ \A d \in Consumers \ {c} : pc'[d] = pc[d] /\ current'[d] = current[d]
      /\ pc'[c] = Polling /\ current'[c] = None
      /\ members \subseteq Consumers
      /\ committed \in [Partitions -> Nat]
      /\ UNCHANGED <<topic, members, attempt, assigned, position, kv, index>>
  BY DEF IInv, TypeOK
<1>3. HandOf(c) /\ pc[c] = Committing
  BY DEF IInv, RecordInHand
<1>4. committed[m] + 1 \in 1 .. Len(topic[m]) /\ Stored(topic[m][committed[m] + 1])
  BY <1>1, <1>3 DEF HandOf, InHand, Message
<1>5. TypeOK'
  BY <1>1 DEF IInv, TypeOK, LogStoreTypeOK, TopicTypeOK, PcValues
<1>6. InTopicSoFar'
  BY <1>1, <1>2, <1>4 DEF IInv, InTopicSoFar
<1>7. NoDanglingIndex'
  BY DEF IInv, NoDanglingIndex
<1>8. MembersAreUp'
  BY <1>2 DEF IInv, MembersAreUp
<1>9. CommittedIsStored'
  <2> SUFFICES ASSUME NEW p \in Partitions, NEW i \in 1 .. committed'[p]
               PROVE  i <= Len(topic[p]) /\ Stored(topic[p][i])
    BY <1>2 DEF CommittedIsStored, Stored, Visible, ListTraceIds, Get
  <2>1. CASE i \in 1 .. committed[p]
    BY <2>1 DEF IInv, CommittedIsStored
  <2>2. CASE i \notin 1 .. committed[p]
    <3>1. p = m /\ i = committed[m] + 1
      BY <2>2, <1>1, <1>2
    <3> QED
      BY <3>1, <1>4
  <2> QED
    BY <2>1, <2>2
<1>10. OneRecordAtRisk'
  <2> SUFFICES ASSUME NEW d \in members, NEW q \in assigned[d]
               PROVE  /\ position[d][q] = committed'[q] + (IF current'[d] = q THEN 1 ELSE 0)
                      /\ \A e \in members \ {d} : q \notin assigned[e]
    BY <1>2 DEF OneRecordAtRisk
  <2>1. q \in Partitions /\ d \in Consumers /\ q # None
    BY DEF IInv, TypeOK
  <2>2. /\ position[d][q] = committed[q] + (IF current[d] = q THEN 1 ELSE 0)
        /\ \A e \in members \ {d} : q \notin assigned[e]
    BY DEF IInv, OneRecordAtRisk
  <2>3. CASE d = c
    BY <2>1, <2>2, <2>3, <1>1, <1>2
  <2>4. CASE d # c
    <3>1. q # m
      BY <2>2, <2>4, <1>1
    <3> QED
      BY <2>1, <2>2, <2>4, <3>1, <1>1, <1>2
  <2> QED
    BY <2>3, <2>4
<1>11. RecordInHand'
  <2>1. HandOf(c)'
    BY <1>2 DEF HandOf, InHand, Polling, Setting, Indexing, Committing
  <2>2. ASSUME NEW d \in Consumers \ {c} PROVE HandOf(d)'
    BY <1>2, OtherHands DEF IInv
  <2> QED
    BY <2>1, <2>2 DEF RecordInHand
<1> QED
  BY <1>5, <1>6, <1>7, <1>8, <1>9, <1>10, <1>11 DEF IInv

-----------------------------------------------------------------------------
LEMMA OpenIInv == IInv /\ [OpenNext]_vars => IInv'
<1> SUFFICES ASSUME IInv, [OpenNext]_vars PROVE IInv'
  OBVIOUS
<1>1. ASSUME NEW p \in Partitions, NEW payload \in Payloads, Arrive(p, payload)
      PROVE  IInv'
  BY <1>1, ArriveIInv
<1>2. ASSUME SomeRebalance PROVE IInv'
  BY <1>2, RebalanceIInv DEF SomeRebalance
<1>3. ASSUME NEW c \in Consumers, Fault(c) PROVE IInv'
  <2>1. CASE Die(c)
    BY <2>1, DieIInv
  <2>2. CASE ConnectFails(c)
    BY <2>2, ConnectIInv
  <2>3. CASE Evict(c)
    BY <2>3, EvictIInv
  <2> QED
    BY <1>3, <2>1, <2>2, <2>3 DEF Fault, Kill, ConnectGivesUp, SaveFails
<1>4. ASSUME NEW c \in Consumers, Progress(c) PROVE IInv'
  <2>1. CASE Restart(c) \/ ConnectOk(c)
    BY <2>1, ConnectIInv
  <2>2. CASE \E p \in Partitions : Fetch(c, p)
    BY <2>2, FetchIInv
  <2>3. CASE SaveEntry(c)
    BY <2>3, SaveEntryIInv
  <2>4. CASE SaveIndex(c)
    BY <2>4, SaveIndexIInv
  <2>5. CASE CommitAccepted(c)
    BY <2>5, CommitAcceptedIInv
  <2>6. CASE CommitRejected(c)
    BY <2>6, DieIInv DEF CommitRejected
  <2> QED
    BY <1>4, <2>1, <2>2, <2>3, <2>4, <2>5, <2>6 DEF Progress
<1>5. CASE UNCHANGED vars
  BY <1>5 DEF vars, broker, replica, logStore, IInv, TypeOK, LogStoreTypeOK, TopicTypeOK,
              InTopicSoFar, MembersAreUp, RecordInHand, HandOf, OneRecordAtRisk,
              NoDanglingIndex, CommittedIsStored, Stored, Visible, ListTraceIds, Get, Message
<1> QED
  BY <1>1, <1>2, <1>3, <1>4, <1>5 DEF OpenNext, ConsumerNext

LEMMA NextIInv == IInv /\ [Next]_vars => IInv'
BY OpenIInv, NextIsOpen

THEOREM Invariance == Spec => []IInv
<1>1. Init => IInv
  BY InitIInv
<1>2. IInv /\ [Next]_vars => IInv'
  BY NextIInv
<1> QED
  BY <1>1, <1>2, PTL DEF Spec

(* Every variable keeps its type, so every step of a replica is defined:    *)
(* the record it saves is a record, never a malformed payload.              *)
THEOREM TypeCorrect == Spec => []TypeOK
<1>1. IInv => TypeOK
  BY DEF IInv
<1> QED
  BY <1>1, Invariance, PTL

(* What is committed can be listed and read (main.py:95-103), for every     *)
(* number of replicas and partitions and whichever of them fail when.       *)
THEOREM CommittedRecordsAreStored == Spec => []CommittedIsStored
<1>1. IInv => CommittedIsStored
  BY DEF IInv
<1> QED
  BY <1>1, Invariance, PTL

(* SET before SADD: the index never names a missing key                     *)
(* (log_store.py:41-43), although several replicas run save() at once.      *)
THEOREM IndexNeverDangles == Spec => []NoDanglingIndex
<1>1. IInv => NoDanglingIndex
  BY DEF IInv
<1> QED
  BY <1>1, Invariance, PTL

(* A crash, an eviction or a rebalance makes the group repeat one record    *)
(* per member at most, although commit() covers all of its partitions.      *)
THEOREM RepeatsOneRecord == Spec => []OneRecordAtRisk
<1>1. IInv => OneRecordAtRisk
  BY DEF IInv
<1> QED
  BY <1>1, Invariance, PTL

(* The committed offsets only grow, stale replicas or not.                  *)
THEOREM CommitsOnlyAdvance == Spec => CommitNeverRegresses
<1>1. ASSUME IInv, [Next]_vars
      PROVE  [\A p \in Partitions : committed'[p] >= committed[p]]_vars
  <2>0. committed \in [Partitions -> Nat]
    BY <1>1 DEF IInv, TypeOK
  <2>1. ASSUME NEW c \in Consumers, CommitAccepted(c)
        PROVE  \A p \in Partitions : committed'[p] >= committed[p]
    BY <1>1, <2>0, <2>1, CommitMovesByOne
  <2>2. ASSUME UNCHANGED committed
        PROVE  \A p \in Partitions : committed'[p] >= committed[p]
    BY <2>0, <2>2
  <2>3. CASE Next
    <3>1. CASE \E c \in Consumers : CommitAccepted(c)
      BY <3>1, <2>1
    <3>2. CASE ~ \E c \in Consumers : CommitAccepted(c)
      <4>1. UNCHANGED committed
        BY <2>3, <3>2
        DEF Next, ConsumerNext, SomeRebalance, Produce, Rebalance, Fault, Progress, Kill,
            ConnectFails, ConnectGivesUp, Evict, SaveFails, Restart, ConnectOk, Fetch,
            SaveEntry, SaveIndex, CommitRejected, Die, broker
      <4> QED
        BY <4>1, <2>2
    <3> QED
      BY <3>1, <3>2
  <2>4. CASE UNCHANGED vars
    BY <2>4
  <2> QED
    BY <1>1, <2>3, <2>4
<1> QED
  BY <1>1, Invariance, PTL DEF Spec, CommitNeverRegresses

-----------------------------------------------------------------------------
Several == \E c, d \in Consumers : c # d

(* How far ahead of the commits a replica can be, stale or not.             *)
NearTheCommit ==
    \A c \in Consumers : \A p \in assigned[c] :
        position[c][p] <= committed[p] + (IF current[c] = p THEN 1 ELSE 0)

HeldFrom(t, p, i) ==
    /\ i \in 1 .. Len(topic[p])
    /\ i <= committed[p] + 1
    /\ topic[p][i] # Malformed
    /\ topic[p][i].trace_id = t
    /\ topic[p][i].entry = kv[t]

HeldIsARecord ==
    \A t \in TraceIds : kv[t] # None =>
        \E p \in Partitions : \E i \in 1 .. Len(topic[p]) : HeldFrom(t, p, i)

LoneHand(c) ==
    /\ \A p \in assigned[c] :
         position[c][p] = committed[p] + (IF current[c] = p THEN 1 ELSE 0)
    /\ pc[c] \in {Indexing, Committing} /\ Message(c) # Malformed =>
         kv[Message(c).trace_id] = Message(c).entry

LoneWriter == ~Several => \A c \in Consumers : LoneHand(c)

RInv == IInv /\ NearTheCommit /\ HeldIsARecord /\ LoneWriter

LEMMA InitRInv == Init => RInv
<1> SUFFICES ASSUME Init PROVE RInv
  OBVIOUS
<1>1. IInv
  BY InitIInv
<1>2. NearTheCommit
  BY DEF Init, NearTheCommit
<1>3. HeldIsARecord
  BY DEF Init, LogStoreInit, HeldIsARecord
<1>4. LoneWriter
  BY DEF Init, LoneWriter, LoneHand, Connecting, Indexing, Committing
<1> QED
  BY <1>1, <1>2, <1>3, <1>4 DEF RInv

(* A step that leaves the topic's records, the keys and the commits alone   *)
(* changes nothing of what is held.                                         *)
LEMMA HeldStays ==
    ASSUME TypeOK, HeldIsARecord,
           UNCHANGED kv,
           \A p \in Partitions :
             /\ committed[p] <= committed'[p]
             /\ committed'[p] \in Nat
             /\ Len(topic[p]) <= Len(topic'[p])
             /\ Len(topic[p]) \in Nat /\ Len(topic'[p]) \in Nat
             /\ \A i \in 1 .. Len(topic[p]) : topic'[p][i] = topic[p][i]
    PROVE  HeldIsARecord'
<1> SUFFICES ASSUME NEW t \in TraceIds, kv[t] # None
             PROVE  \E p \in Partitions : \E i \in 1 .. Len(topic'[p]) : HeldFrom(t, p, i)'
  BY DEF HeldIsARecord
<1>1. PICK p \in Partitions : \E i \in 1 .. Len(topic[p]) : HeldFrom(t, p, i)
  BY DEF HeldIsARecord
<1>2. PICK i \in 1 .. Len(topic[p]) : HeldFrom(t, p, i)
  BY <1>1
<1>3. i \in 1 .. Len(topic'[p]) /\ i <= committed'[p] + 1 /\ topic'[p][i] = topic[p][i]
  BY <1>2 DEF TypeOK, HeldFrom
<1>4. HeldFrom(t, p, i)'
  BY <1>2, <1>3 DEF HeldFrom
<1> QED
  BY <1>3, <1>4

-----------------------------------------------------------------------------
LEMMA ArriveRInv ==
    ASSUME RInv, NEW p \in Partitions, NEW payload \in Payloads, Arrive(p, payload)
    PROVE  NearTheCommit' /\ HeldIsARecord' /\ LoneWriter'
<1> USE DEF Arrive, replica, logStore
<1>1. /\ TopicTypeOK'
      /\ \A q \in Partitions :
           /\ Len(topic[q]) <= Len(topic'[q])
           /\ \A i \in 1 .. Len(topic[q]) : topic'[q][i] = topic[q][i]
  BY AppendKeepsOffsets DEF RInv, IInv, TypeOK
<1>2. \A q \in Partitions : Len(topic[q]) \in Nat /\ Len(topic'[q]) \in Nat
  BY <1>1 DEF RInv, IInv, TypeOK, TopicTypeOK
<1>3. NearTheCommit'
  BY DEF RInv, NearTheCommit
<1>4. HeldIsARecord'
  BY <1>1, <1>2, HeldStays DEF RInv, IInv, TypeOK
<1>5. LoneWriter'
  <2> SUFFICES ASSUME ~Several, NEW c \in Consumers PROVE LoneHand(c)'
    BY DEF LoneWriter, Several
  <2>1. LoneHand(c) /\ HandOf(c)
    BY DEF RInv, IInv, LoneWriter, RecordInHand
  <2>2. pc[c] \in InHand => Message(c)' = Message(c)
    BY <2>1, <1>1 DEF RInv, IInv, TypeOK, HandOf, Message
  <2> QED
    BY <2>1, <2>2 DEF LoneHand, InHand
<1> QED
  BY <1>3, <1>4, <1>5

(* Die, Restart, the connection attempts, Evict and Rebalance: the stores   *)
(* and the commits stay, and a replica whose view changes has nothing in    *)
(* hand afterwards.                                                         *)
LEMMA EmptyHandRInv ==
    ASSUME RInv, UNCHANGED <<topic, committed, kv>>,
           \A d \in Consumers :
             \/ /\ assigned'[d] = assigned[d]
                /\ position'[d] = position[d]
                /\ current'[d] = current[d]
                /\ pc'[d] = pc[d] \/ pc'[d] \notin InHand
             \/ /\ pc'[d] \notin InHand
                /\ assigned'[d] \subseteq Partitions
                /\ current'[d] = None
                /\ assigned'[d] = {} \/ position'[d] = committed
    PROVE  NearTheCommit' /\ HeldIsARecord' /\ LoneWriter'
<1>1. \A p \in Partitions :
        committed[p] \in Nat /\ Len(topic[p]) \in Nat /\ p # None
  BY DEF RInv, IInv, TypeOK, TopicTypeOK
<1>2. NearTheCommit'
  <2> SUFFICES ASSUME NEW c \in Consumers, NEW p \in assigned'[c]
               PROVE  (position[c][p] <= committed[p] + (IF current[c] = p THEN 1 ELSE 0))'
    BY DEF NearTheCommit
  <2> QED
    BY <1>1 DEF RInv, NearTheCommit
<1>3. HeldIsARecord'
  BY <1>1, HeldStays DEF RInv, IInv
<1>4. LoneWriter'
  <2> SUFFICES ASSUME ~Several, NEW c \in Consumers PROVE LoneHand(c)'
    BY DEF LoneWriter, Several
  <2>1. LoneHand(c)
    BY DEF RInv, LoneWriter
  <2>2. ASSUME NEW p \in assigned'[c]
        PROVE  position'[c][p] = committed[p] + (IF current'[c] = p THEN 1 ELSE 0)
    BY <2>1, <1>1 DEF LoneHand
  <2>3. ASSUME pc'[c] \in {Indexing, Committing}, Message(c)' # Malformed
        PROVE  kv'[Message(c)'.trace_id] = Message(c)'.entry
    <3>1. /\ pc'[c] \in InHand
          /\ pc'[c] = pc[c] /\ position'[c] = position[c] /\ current'[c] = current[c]
      BY <2>3 DEF InHand
    <3>2. Message(c)' = Message(c)
      BY <3>1 DEF Message
    <3> QED
      BY <2>1, <2>3, <3>1, <3>2 DEF LoneHand
  <2> QED
    BY <2>2, <2>3 DEF LoneHand
<1> QED
  BY <1>2, <1>3, <1>4

LEMMA FetchRInv ==
    ASSUME RInv, NEW c \in Consumers, NEW p \in Partitions, Fetch(c, p)
    PROVE  NearTheCommit' /\ HeldIsARecord' /\ LoneWriter'
<1> USE DEF Fetch, broker, logStore
<1>1. /\ \A d \in Consumers \ {c} : position'[d] = position[d] /\ current'[d] = current[d]
      /\ current'[c] = p
      /\ \A q \in Partitions :
           position'[c][q] = IF q = p THEN position[c][q] + 1 ELSE position[c][q]
      /\ UNCHANGED <<topic, committed, assigned, kv>>
      /\ \A d \in Consumers : assigned[d] \subseteq Partitions
      /\ \A d \in Consumers : \A q \in Partitions : position[d][q] \in Nat
  BY DEF RInv, IInv, TypeOK
<1>2. \A q \in Partitions : committed[q] \in Nat /\ Len(topic[q]) \in Nat /\ q # None
  BY DEF RInv, IInv, TypeOK, TopicTypeOK
<1>3. current[c] = None
  BY DEF RInv, IInv, RecordInHand, HandOf, InHand, Polling, Setting, Indexing, Committing
<1>4. NearTheCommit'
  <2> SUFFICES ASSUME NEW d \in Consumers, NEW q \in assigned[d]
               PROVE  position'[d][q] <= committed[q] + (IF current'[d] = q THEN 1 ELSE 0)
    BY <1>1 DEF NearTheCommit
  <2>1. position[d][q] <= committed[q] + (IF current[d] = q THEN 1 ELSE 0)
    BY DEF RInv, NearTheCommit
  <2> QED
    BY <2>1, <1>1, <1>2, <1>3
<1>5. HeldIsARecord'
  BY <1>1, <1>2, HeldStays DEF RInv, IInv
<1>6. LoneWriter'
  <2> SUFFICES ASSUME ~Several, NEW d \in Consumers PROVE LoneHand(d)'
    BY DEF LoneWriter, Several
  <2>1. d = c /\ LoneHand(c)
    BY DEF RInv, LoneWriter, Several
  <2>2. \A q \in assigned[c] :
          position'[c][q] = committed[q] + (IF current'[c] = q THEN 1 ELSE 0)
    BY <2>1, <1>1, <1>2, <1>3 DEF LoneHand
  <2>3. pc'[c] \in {Indexing, Committing} => Message(c)' = Malformed
    BY <1>1 DEF RInv, IInv, TypeOK, Message, Setting, Indexing, Committing
  <2> QED
    BY <2>1, <2>2, <2>3, <1>1 DEF LoneHand
<1> QED
  BY <1>4, <1>5, <1>6

LEMMA SaveEntryRInv ==
    ASSUME RInv, NEW c \in Consumers, SaveEntry(c)
    PROVE  NearTheCommit' /\ HeldIsARecord' /\ LoneWriter'
<1> USE DEF SaveEntry, SetEntry, broker
<1> DEFINE m == Message(c)
           p == current[c]
           i == position[c][p]
<1>1. m \in Records /\ m.trace_id \in TraceIds /\ m.entry \in Entries
  BY MessageIsRecord DEF RInv, IInv
<1>2. /\ UNCHANGED <<topic, committed, assigned, position, current>>
      /\ kv' = [kv EXCEPT ![m.trace_id] = m.entry]
      /\ kv \in [TraceIds -> Entries \cup {None}]
  BY DEF RInv, IInv, TypeOK, LogStoreTypeOK
<1>3. p \in Partitions /\ i \in 1 .. Len(topic[p]) /\ i <= committed[p] + 1
  BY DEF RInv, IInv, TypeOK, RecordInHand, HandOf, InHand, NearTheCommit
<1>4. topic[p][i] = m /\ m # Malformed
  BY <1>1 DEF Message
<1>5. NearTheCommit'
  BY <1>2 DEF RInv, NearTheCommit
<1>6. HeldIsARecord'
  <2> SUFFICES ASSUME NEW t \in TraceIds, kv'[t] # None
               PROVE  \E q \in Partitions : \E j \in 1 .. Len(topic[q]) : HeldFrom(t, q, j)'
    BY <1>2 DEF HeldIsARecord
  <2>1. CASE t = m.trace_id
    <3>1. HeldFrom(t, p, i)'
      BY <2>1, <1>1, <1>2, <1>3, <1>4 DEF HeldFrom
    <3> QED
      BY <3>1, <1>3
  <2>2. CASE t # m.trace_id
    <3>1. kv'[t] = kv[t]
      BY <2>2, <1>2
    <3>2. PICK q \in Partitions : \E j \in 1 .. Len(topic[q]) : HeldFrom(t, q, j)
      BY <3>1 DEF RInv, HeldIsARecord
    <3>3. PICK j \in 1 .. Len(topic[q]) : HeldFrom(t, q, j)
      BY <3>2
    <3>4. HeldFrom(t, q, j)'
      BY <3>1, <3>3, <1>2 DEF HeldFrom
    <3> QED
      BY <3>4
  <2> QED
    BY <2>1, <2>2
<1>7. LoneWriter'
  <2> SUFFICES ASSUME ~Several, NEW d \in Consumers PROVE LoneHand(d)'
    BY DEF LoneWriter, Several
  <2>1. d = c /\ LoneHand(c)
    BY DEF RInv, LoneWriter, Several
  <2>2. Message(c)' = m /\ kv'[m.trace_id] = m.entry
    BY <1>1, <1>2 DEF Message
  <2> QED
    BY <2>1, <2>2, <1>2 DEF LoneHand
<1> QED
  BY <1>5, <1>6, <1>7

LEMMA SaveIndexRInv ==
    ASSUME RInv, NEW c \in Consumers, SaveIndex(c)
    PROVE  NearTheCommit' /\ HeldIsARecord' /\ LoneWriter'
<1> USE DEF SaveIndex, AddToIndex, broker
<1>1. UNCHANGED <<topic, committed, assigned, position, current, kv>>
  OBVIOUS
<1>2. NearTheCommit' /\ HeldIsARecord'
  BY <1>1 DEF RInv, NearTheCommit, HeldIsARecord, HeldFrom
<1>3. LoneWriter'
  <2> SUFFICES ASSUME ~Several, NEW d \in Consumers PROVE LoneHand(d)'
    BY DEF LoneWriter, Several
  <2>1. d = c /\ LoneHand(c)
    BY DEF RInv, LoneWriter, Several
  <2>2. Message(c)' = Message(c)
    BY <1>1 DEF Message
  <2> QED
    BY <2>1, <2>2, <1>1 DEF LoneHand, Indexing, Committing
<1> QED
  BY <1>2, <1>3

LEMMA CommitAcceptedRInv ==
    ASSUME RInv, NEW c \in Consumers, CommitAccepted(c)
    PROVE  NearTheCommit' /\ HeldIsARecord' /\ LoneWriter'
<1> USE DEF CommitAccepted, logStore
<1>1. /\ current[c] \in assigned[c] /\ current[c] \in Partitions
      /\ committed' = [committed EXCEPT ![current[c]] = @ + 1]
      /\ committed[current[c]] + 1 = position[c][current[c]]
  BY CommitMovesByOne DEF RInv
<1>2. /\ \A d \in Consumers \ {c} : current'[d] = current[d]
      /\ current'[c] = None /\ pc'[c] = Polling
      /\ committed \in [Partitions -> Nat]
      /\ \A d \in Consumers : assigned[d] \subseteq Partitions
      /\ \A d \in Consumers : \A q \in Partitions : position[d][q] \in Nat
      /\ UNCHANGED <<topic, assigned, position, kv>>
  BY DEF RInv, IInv, TypeOK
<1>3. \A q \in Partitions : Len(topic[q]) \in Nat /\ q # None
  BY DEF RInv, IInv, TypeOK, TopicTypeOK
<1>4. \A q \in assigned[c] : position[c][q] = committed'[q]
  <2> SUFFICES ASSUME NEW q \in assigned[c] PROVE position[c][q] = committed'[q]
    OBVIOUS
  <2>1. position[c][q] = committed[q] + (IF current[c] = q THEN 1 ELSE 0)
    BY DEF RInv, IInv, OneRecordAtRisk
  <2> QED
    BY <2>1, <1>1, <1>2
<1>5. NearTheCommit'
  <2> SUFFICES ASSUME NEW d \in Consumers, NEW q \in assigned[d]
               PROVE  position[d][q] <= committed'[q] + (IF current'[d] = q THEN 1 ELSE 0)
    BY <1>2 DEF NearTheCommit
  <2>1. position[d][q] <= committed[q] + (IF current[d] = q THEN 1 ELSE 0)
    BY DEF RInv, NearTheCommit
  <2>2. CASE d = c
    BY <2>2, <1>2, <1>3, <1>4
  <2>3. CASE d # c
    BY <2>1, <2>3, <1>1, <1>2
  <2> QED
    BY <2>2, <2>3
<1>6. HeldIsARecord'
  BY <1>1, <1>2, <1>3, HeldStays DEF RInv, IInv
<1>7. LoneWriter'
  <2> SUFFICES ASSUME ~Several, NEW d \in Consumers PROVE LoneHand(d)'
    BY DEF LoneWriter, Several
  <2>1. d = c
    BY DEF Several
  <2> QED
    BY <2>1, <1>2, <1>3, <1>4 DEF LoneHand, Polling, Indexing, Committing
<1> QED
  BY <1>5, <1>6, <1>7

-----------------------------------------------------------------------------
LEMMA NextRInv == RInv /\ [OpenNext]_vars => RInv'
<1> SUFFICES ASSUME RInv, [OpenNext]_vars PROVE RInv'
  OBVIOUS
<1>1. IInv'
  BY OpenIInv DEF RInv
<1> DEFINE Goal == NearTheCommit' /\ HeldIsARecord' /\ LoneWriter'
<1>2. ASSUME NEW c \in Consumers, Die(c) PROVE Goal
  <2>1. \A d \in Consumers \ {c} :
          /\ assigned'[d] = assigned[d] /\ position'[d] = position[d]
          /\ current'[d] = current[d] /\ pc'[d] = pc[d]
    BY <1>2 DEF Die, RInv, IInv, TypeOK
  <2>2. pc'[c] \notin InHand /\ assigned'[c] = {} /\ current'[c] = None
    BY <1>2 DEF Die, RInv, IInv, TypeOK, InHand, Down, Setting, Indexing, Committing
  <2>3. UNCHANGED <<topic, committed, kv>>
    BY <1>2 DEF Die, logStore
  <2> QED
    BY <2>1, <2>2, <2>3, EmptyHandRInv
<1>3. ASSUME NEW c \in Consumers, Restart(c) \/ ConnectOk(c) \/ ConnectFails(c) PROVE Goal
  <2>1. /\ UNCHANGED <<topic, committed, kv, assigned, position, current>>
        /\ \A d \in Consumers : pc'[d] = pc[d] \/ pc'[d] \in {Connecting, Polling}
    BY <1>3 DEF Restart, ConnectOk, ConnectFails, broker, logStore, RInv, IInv, TypeOK
  <2>2. \A d \in Consumers : pc'[d] = pc[d] \/ pc'[d] \notin InHand
    BY <2>1 DEF InHand, Connecting, Polling, Setting, Indexing, Committing
  <2> QED
    BY <2>1, <2>2, EmptyHandRInv
<1>4. ASSUME SomeRebalance PROVE Goal
  <2> PICK joined \in SUBSET Consumers : Rebalance(joined)
    BY <1>4 DEF SomeRebalance
  <2> PICK owner \in [Partitions -> joined] :
        assigned' = [c \in Consumers |->
                       IF c \in joined THEN {p \in Partitions : owner[p] = c}
                                       ELSE assigned[c]]
    BY DEF Rebalance
  <2>1. /\ UNCHANGED <<topic, committed, kv, pc, current>>
        /\ \A d \in joined : pc[d] = Polling
        /\ position' = [c \in Consumers |-> IF c \in joined THEN committed ELSE position[c]]
    BY StartsAtCommitted DEF Rebalance, logStore, RInv, IInv
  <2>2. \A d \in joined : pc[d] \notin InHand /\ current[d] = None
    BY <2>1 DEF RInv, IInv, RecordInHand, HandOf, InHand, Polling, Setting, Indexing,
                Committing
  <2>3. ASSUME NEW d \in joined
        PROVE  /\ pc'[d] \notin InHand
               /\ assigned'[d] \subseteq Partitions
               /\ current'[d] = None
               /\ position'[d] = committed
    BY <2>1, <2>2
  <2>4. ASSUME NEW d \in Consumers \ joined
        PROVE  /\ assigned'[d] = assigned[d] /\ position'[d] = position[d]
               /\ current'[d] = current[d] /\ pc'[d] = pc[d]
    BY <2>1
  <2> QED
    BY <2>1, <2>3, <2>4, EmptyHandRInv
<1>5. ASSUME NEW c \in Consumers, Evict(c) PROVE Goal
  <2>1. UNCHANGED <<topic, committed, kv, assigned, position, current, pc>>
    BY <1>5 DEF Evict, replica, logStore
  <2> QED
    BY <2>1, EmptyHandRInv
<1>6. ASSUME UNCHANGED vars PROVE Goal
  <2>1. UNCHANGED <<topic, committed, kv, assigned, position, current, pc>>
    BY <1>6 DEF vars, broker, replica, logStore
  <2> QED
    BY <2>1, EmptyHandRInv
<1>7. ASSUME NEW c \in Consumers, Fault(c) PROVE Goal
  BY <1>7, <1>2, <1>3, <1>5 DEF Fault, Kill, ConnectGivesUp, SaveFails
<1>8. ASSUME NEW c \in Consumers, Progress(c) PROVE Goal
  BY <1>8, <1>2, <1>3, FetchRInv, SaveEntryRInv, SaveIndexRInv, CommitAcceptedRInv
  DEF Progress, CommitRejected
<1>9. Goal
  BY <1>4, <1>6, <1>7, <1>8, ArriveRInv DEF OpenNext, ConsumerNext
<1> QED
  BY <1>1, <1>9 DEF RInv

THEOREM RInvariance == Spec => []RInv
<1>1. Init => RInv
  BY InitRInv
<1>2. RInv /\ [Next]_vars => RInv'
  BY NextRInv, NextIsOpen
<1> QED
  BY <1>1, <1>2, PTL DEF Spec

-----------------------------------------------------------------------------
(* The refinement, step by step.                                            *)
seen == [t \in TraceIds |-> Visible(t)]

LEMMA SaveShows ==
    ASSUME RInv, NEW c \in Consumers, SaveEntry(c) \/ SaveIndex(c)
    PROVE  \/ UNCHANGED <<topic, committed, seen>>
           \/ \E p \in Partitions : \E i \in 1 .. Len(topic[p]) : D!Show(p, i)
<1> DEFINE m == Message(c)
           q == current[c]
           n == position[c][q]
<1>1. m \in Records /\ m.trace_id \in TraceIds /\ m.entry \in Entries /\ m # Malformed
  BY MessageIsRecord DEF RInv, IInv, SaveEntry, SaveIndex
<1>2. q \in Partitions /\ n \in 1 .. Len(topic[q]) /\ n <= committed[q] + 1
  BY DEF RInv, IInv, TypeOK, RecordInHand, HandOf, InHand, NearTheCommit, SaveEntry, SaveIndex
<1>3. topic[q][n] = m
  BY DEF Message
<1>4. ~Several => n = committed[q] + 1
  BY <1>2 DEF RInv, IInv, RecordInHand, HandOf, InHand, LoneWriter, LoneHand, SaveEntry,
              SaveIndex
<1>5. UNCHANGED <<topic, committed>>
  BY DEF SaveEntry, SaveIndex, broker
<1>6. kv \in [TraceIds -> Entries \cup {None}]
  BY DEF RInv, IInv, TypeOK, LogStoreTypeOK
<1>7. CASE SaveEntry(c)
  <2>1. kv' = [kv EXCEPT ![m.trace_id] = m.entry] /\ UNCHANGED index
    BY <1>7 DEF SaveEntry, SetEntry
  <2>2. CASE m.trace_id \in index
    <3>1. seen' = [seen EXCEPT ![m.trace_id] = m.entry]
      BY <2>1, <2>2, <1>1, <1>6 DEF seen, Visible, ListTraceIds, Get
    <3>2. D!Show(q, n)
      BY <3>1, <1>1, <1>2, <1>3, <1>4, <1>5 DEF D!Show, seen, Several
    <3> QED
      BY <3>2, <1>2
  <2>3. CASE m.trace_id \notin index
    <3>1. seen' = seen
      BY <2>1, <2>3, <1>1, <1>6 DEF seen, Visible, ListTraceIds, Get
    <3> QED
      BY <3>1, <1>5
  <2> QED
    BY <2>2, <2>3
<1>8. CASE SaveIndex(c)
  <2>1. index' = index \cup {m.trace_id} /\ UNCHANGED kv
    BY <1>8 DEF SaveIndex, AddToIndex
  <2>2. seen' = [seen EXCEPT ![m.trace_id] = kv[m.trace_id]]
    BY <2>1, <1>1, <1>6 DEF seen, Visible, ListTraceIds, Get
  <2>3. kv[m.trace_id] # None
    BY <1>8 DEF SaveIndex, RInv, IInv, RecordInHand, HandOf
  <2>4. PICK p \in Partitions : \E i \in 1 .. Len(topic[p]) : HeldFrom(m.trace_id, p, i)
    BY <2>3, <1>1 DEF RInv, HeldIsARecord
  <2>5. PICK i \in 1 .. Len(topic[p]) : HeldFrom(m.trace_id, p, i)
    BY <2>4
  <2>6. CASE Several
    <3>1. D!Show(p, i)
      BY <2>2, <2>5, <2>6, <1>5 DEF D!Show, seen, Several, HeldFrom
    <3> QED
      BY <3>1
  <2>7. CASE ~Several
    <3>1. kv[m.trace_id] = m.entry
      BY <2>7, <1>1, <1>8 DEF SaveIndex, RInv, LoneWriter, LoneHand
    <3>2. D!Show(q, n)
      BY <2>2, <2>7, <3>1, <1>1, <1>2, <1>3, <1>4, <1>5 DEF D!Show, seen, Several
    <3> QED
      BY <3>2, <1>2
  <2> QED
    BY <2>6, <2>7
<1> QED
  BY <1>7, <1>8

LEMMA CommitFinishes ==
    ASSUME RInv, NEW c \in Consumers, CommitAccepted(c)
    PROVE  \E p \in Partitions : D!Finish(p)
<1> DEFINE q == current[c]
           m == topic[q][committed[q] + 1]
<1>1. /\ q \in Partitions
      /\ committed' = [committed EXCEPT ![q] = @ + 1]
      /\ committed[q] + 1 = position[c][q]
  BY CommitMovesByOne DEF RInv
<1>2. HandOf(c) /\ pc[c] = Committing
  BY DEF CommitAccepted, RInv, IInv, RecordInHand
<1>3. /\ committed[q] \in Nat /\ Len(topic[q]) \in Nat
      /\ topic[q] \in Seq(Payloads)
  BY <1>1 DEF RInv, IInv, TypeOK, TopicTypeOK
<1>4. committed[q] + 1 \in 1 .. Len(topic[q]) /\ m = Message(c) /\ Stored(m)
  BY <1>1, <1>2 DEF HandOf, InHand, Message
<1>5. UNCHANGED <<topic, seen>>
  BY DEF CommitAccepted, logStore, seen, Visible, ListTraceIds, Get
<1>6. m # Malformed => m.trace_id \in TraceIds
  BY <1>3, <1>4 DEF Payloads, Records
<1>7. D!Shown(m)
  <2> SUFFICES ASSUME m # Malformed
               PROVE  IF Several THEN seen[m.trace_id] # None
                                 ELSE seen[m.trace_id] = m.entry
    BY DEF D!Shown, seen, Several
  <2>1. seen[m.trace_id] = Visible(m.trace_id) /\ Visible(m.trace_id) # None
    BY <1>4, <1>6 DEF seen, Stored
  <2>2. Visible(m.trace_id) = kv[m.trace_id]
    BY <2>1 DEF Visible, ListTraceIds, Get
  <2>3. ~Several => kv[m.trace_id] = m.entry
    BY <1>2, <1>4 DEF RInv, LoneWriter, LoneHand
  <2> QED
    BY <2>1, <2>2, <2>3
<1>8. D!Finish(q)
  BY <1>1, <1>3, <1>4, <1>5, <1>7 DEF D!Finish, seen
<1> QED
  BY <1>1, <1>8

LEMMA InitRefines == Init => D!Init
  BY DEF Init, LogStoreInit, TopicInit, D!Init, D!TopicInit, Visible, ListTraceIds, Get

LEMMA NextRefines == RInv /\ [OpenNext]_vars => [D!Next]_(D!vars)
<1> SUFFICES ASSUME RInv, [OpenNext]_vars PROVE [D!Next]_(D!vars)
  OBVIOUS
<1> DEFINE Same == UNCHANGED <<topic, committed, seen>>
<1>1. Same => UNCHANGED D!vars
  BY DEF D!vars, seen
<1>2. ASSUME UNCHANGED <<topic, committed, logStore>> PROVE Same
  BY <1>2 DEF logStore, seen, Visible, ListTraceIds, Get
<1>3. ASSUME NEW p \in Partitions, NEW payload \in Payloads, Arrive(p, payload)
      PROVE  D!Accept(p, payload)
  <2>1. UNCHANGED <<committed, seen>> /\ AppendRecord(p, payload)
    BY <1>3 DEF Arrive, logStore, seen, Visible, ListTraceIds, Get
  <2> QED
    BY <2>1 DEF D!Accept, D!AppendRecord, AppendRecord, seen
<1>4. ASSUME NEW c \in Consumers, Die(c) PROVE Same
  BY <1>4, <1>2 DEF Die
<1>5. ASSUME NEW c \in Consumers, Fault(c) PROVE Same
  BY <1>5, <1>4, <1>2
  DEF Fault, Kill, ConnectGivesUp, SaveFails, ConnectFails, Evict, broker
<1>6. ASSUME SomeRebalance PROVE Same
  BY <1>6, <1>2 DEF SomeRebalance, Rebalance
<1>7. ASSUME NEW c \in Consumers, Progress(c)
      PROVE  \/ Same
             \/ \E p \in Partitions :
                  (\E i \in 1 .. Len(topic[p]) : D!Show(p, i)) \/ D!Finish(p)
  <2>1. CASE Restart(c) \/ ConnectOk(c) \/ (\E p \in Partitions : Fetch(c, p))
    BY <2>1, <1>2 DEF Restart, ConnectOk, Fetch, broker
  <2>2. CASE SaveEntry(c) \/ SaveIndex(c)
    BY <2>2, SaveShows
  <2>3. CASE CommitAccepted(c)
    BY <2>3, CommitFinishes
  <2>4. CASE CommitRejected(c)
    BY <2>4, <1>4 DEF CommitRejected
  <2> QED
    BY <1>7, <2>1, <2>2, <2>3, <2>4 DEF Progress
<1>8. CASE UNCHANGED vars
  BY <1>8, <1>1, <1>2 DEF vars, broker
<1>9. CASE OpenNext
  <2>1. CASE \E p \in Partitions, payload \in Payloads : Arrive(p, payload)
    BY <2>1, <1>3 DEF D!Next, D!Payloads, D!Records, Payloads, Records
  <2>2. CASE Same
    BY <2>2, <1>1
  <2>3. CASE \E p \in Partitions :
               (\E i \in 1 .. Len(topic[p]) : D!Show(p, i)) \/ D!Finish(p)
    BY <2>3 DEF D!Next
  <2>4. CASE SomeRebalance
    BY <2>2, <2>4, <1>6
  <2>5. CASE \E c \in Consumers : Fault(c) \/ Progress(c)
    BY <2>2, <2>3, <2>5, <1>5, <1>7
  <2> QED
    BY <1>9, <2>1, <2>4, <2>5 DEF OpenNext, ConsumerNext
<1> QED
  BY <1>8, <1>9

(* However many replicas there are and whatever happens to them, a client   *)
(* of Redis sees an at-least-once delivery of the topic; with one replica   *)
(* it sees each record in its turn (main.py:71-103).                        *)
THEOREM Refinement == Spec => ImplementsDelivery
<1>1. Init => D!Init
  BY InitRefines
<1>2. RInv /\ [Next]_vars => [D!Next]_(D!vars)
  BY NextRefines, NextIsOpen
<1> QED
  BY <1>1, <1>2, RInvariance, PTL DEF Spec, D!Spec, ImplementsDelivery

-----------------------------------------------------------------------------
(* A lone replica and the newest entries, whatever the partitions: of the   *)
(* records that are done, none of a partition is later than the one whose   *)
(* entry Redis holds.                                                       *)
ShowsLast(t) ==
    \E p \in Partitions : \E i \in 1 .. Len(topic[p]) :
        /\ HeldFrom(t, p, i)
        /\ \A j \in Offsets(p, t) : j <= committed[p] => j <= i

LastIsHeld == ~Several => \A t \in TraceIds : kv[t] # None => ShowsLast(t)

LInv == RInv /\ LastIsHeld

(* Appending records does not make any of those that are done.              *)
LEMMA LastStays ==
    ASSUME RInv, LastIsHeld, UNCHANGED <<committed, kv>>,
           \A p \in Partitions :
             /\ Len(topic[p]) \in Nat /\ Len(topic'[p]) \in Nat
             /\ Len(topic[p]) <= Len(topic'[p])
             /\ \A i \in 1 .. Len(topic[p]) : topic'[p][i] = topic[p][i]
    PROVE  LastIsHeld'
<1> SUFFICES ASSUME ~Several, NEW t \in TraceIds, kv[t] # None PROVE ShowsLast(t)'
  BY DEF LastIsHeld, Several
<1>1. ShowsLast(t)
  BY DEF LastIsHeld
<1>2. PICK p \in Partitions : \E i \in 1 .. Len(topic[p]) :
        HeldFrom(t, p, i) /\ \A j \in Offsets(p, t) : j <= committed[p] => j <= i
  BY <1>1 DEF ShowsLast
<1>3. PICK i \in 1 .. Len(topic[p]) :
        HeldFrom(t, p, i) /\ \A j \in Offsets(p, t) : j <= committed[p] => j <= i
  BY <1>2
<1>4. i \in 1 .. Len(topic'[p]) /\ topic'[p][i] = topic[p][i]
  BY <1>2, <1>3
<1>5. HeldFrom(t, p, i)'
  BY <1>3, <1>4 DEF HeldFrom
<1>6. ASSUME NEW j \in Offsets(p, t)', j <= committed[p] PROVE j <= i
  <2>1. committed[p] \in Nat /\ committed[p] <= Len(topic[p])
    BY DEF RInv, IInv, TypeOK, InTopicSoFar
  <2>2. /\ j \in 1 .. Len(topic'[p])
        /\ topic'[p][j] # Malformed /\ topic'[p][j].trace_id = t
    BY <1>6 DEF Offsets
  <2>3. j \in 1 .. Len(topic[p])
    BY <1>6, <2>1, <2>2
  <2>4. j \in Offsets(p, t)
    BY <2>2, <2>3 DEF Offsets
  <2> QED
    BY <1>3, <1>6, <2>4
<1> QED
  BY <1>4, <1>5, <1>6 DEF ShowsLast

LEMMA SaveEntryLast ==
    ASSUME LInv, NEW c \in Consumers, SaveEntry(c)
    PROVE  LastIsHeld'
<1> SUFFICES ASSUME ~Several, NEW t \in TraceIds, kv'[t] # None PROVE ShowsLast(t)'
  BY DEF LastIsHeld, Several
<1> PICK p \in Partitions, i \in Nat : p = current[c] /\ i = position[c][p]
  BY DEF SaveEntry, LInv, RInv, IInv, TypeOK, RecordInHand, HandOf, InHand
<1> PICK m \in Records : m = Message(c)
  BY MessageIsRecord DEF LInv, RInv, IInv, SaveEntry
<1>1. m \in Records /\ m.trace_id \in TraceIds /\ m.entry \in Entries
  BY MessageIsRecord DEF LInv, RInv, IInv, SaveEntry
<1>2. /\ UNCHANGED <<topic, committed>>
      /\ kv' = [kv EXCEPT ![m.trace_id] = m.entry]
      /\ kv \in [TraceIds -> Entries \cup {None}]
  BY DEF SaveEntry, SetEntry, broker, LInv, RInv, IInv, TypeOK, LogStoreTypeOK
<1>3. /\ p \in Partitions /\ i \in 1 .. Len(topic[p])
      /\ i = committed[p] + 1 /\ committed[p] \in Nat
  BY DEF SaveEntry, LInv, RInv, IInv, TypeOK, RecordInHand, HandOf, InHand, LoneWriter,
         LoneHand
<1>4. topic[p][i] = m /\ m # Malformed
  BY <1>1 DEF Message
<1>5. CASE t = m.trace_id
  <2>1. HeldFrom(t, p, i)'
    BY <1>5, <1>1, <1>2, <1>3, <1>4 DEF HeldFrom
  <2>2. \A j \in Offsets(p, t)' : j <= committed'[p] => j <= i
    BY <1>2, <1>3 DEF Offsets
  <2> QED
    BY <2>1, <2>2, <1>2, <1>3 DEF ShowsLast
<1>6. CASE t # m.trace_id
  <2>1. kv'[t] = kv[t]
    BY <1>6, <1>2
  <2>2. ShowsLast(t)
    BY <2>1 DEF LInv, LastIsHeld
  <2> QED
    BY <2>1, <2>2, <1>2 DEF ShowsLast, HeldFrom, Offsets
<1> QED
  BY <1>5, <1>6

LEMMA CommitLast ==
    ASSUME LInv, NEW c \in Consumers, CommitAccepted(c)
    PROVE  LastIsHeld'
<1> SUFFICES ASSUME ~Several, NEW t \in TraceIds, kv'[t] # None PROVE ShowsLast(t)'
  BY DEF LastIsHeld, Several
<1>0. current[c] \in Partitions /\ position[c][current[c]] \in Nat
  BY CommitMovesByOne DEF LInv, RInv, IInv, TypeOK
<1> PICK q \in Partitions, n \in Nat : q = current[c] /\ n = position[c][q]
  BY <1>0
<1>1. /\ q \in Partitions
      /\ committed' = [committed EXCEPT ![q] = @ + 1]
      /\ committed[q] + 1 = n
  BY CommitMovesByOne DEF LInv, RInv
<1>2. HandOf(c) /\ pc[c] = Committing /\ UNCHANGED <<topic, kv>>
  BY DEF CommitAccepted, LInv, RInv, IInv, RecordInHand, logStore
<1>3. /\ n \in 1 .. Len(topic[q]) /\ topic[q][n] = Message(c)
      /\ committed \in [Partitions -> Nat]
  BY <1>2 DEF HandOf, InHand, Message, LInv, RInv, IInv, TypeOK
<1>4. Message(c) # Malformed => kv[Message(c).trace_id] = Message(c).entry
  BY <1>2 DEF LInv, RInv, LoneWriter, LoneHand
<1>5. CASE topic[q][n] # Malformed /\ topic[q][n].trace_id = t
  <2>1. HeldFrom(t, q, n)'
    BY <1>5, <1>1, <1>2, <1>3, <1>4 DEF HeldFrom
  <2>2. \A j \in Offsets(q, t)' : j <= committed'[q] => j <= n
    BY <1>1, <1>3
  <2> QED
    BY <2>1, <2>2, <1>1, <1>2, <1>3 DEF ShowsLast
<1>6. CASE ~(topic[q][n] # Malformed /\ topic[q][n].trace_id = t)
  <2>1. ShowsLast(t)
    BY <1>2 DEF LInv, LastIsHeld
  <2>2. PICK p \in Partitions : \E i \in 1 .. Len(topic[p]) :
          HeldFrom(t, p, i) /\ \A j \in Offsets(p, t) : j <= committed[p] => j <= i
    BY <2>1 DEF ShowsLast
  <2>3. PICK i \in 1 .. Len(topic[p]) :
          HeldFrom(t, p, i) /\ \A j \in Offsets(p, t) : j <= committed[p] => j <= i
    BY <2>2
  <2>4. committed[p] \in Nat /\ committed'[p] = IF p = q THEN committed[p] + 1 ELSE committed[p]
    BY <1>1, <1>3
  <2>5. HeldFrom(t, p, i)'
    BY <2>3, <2>4, <1>2 DEF HeldFrom
  <2>6. ASSUME NEW j \in Offsets(p, t), j <= committed'[p] PROVE j <= i
    <3>1. j \in 1 .. Len(topic[p]) /\ topic[p][j] # Malformed /\ topic[p][j].trace_id = t
      BY <2>6 DEF Offsets
    <3>2. ~(p = q /\ j = n)
      BY <3>1, <1>6
    <3>3. j <= committed[p]
      BY <2>4, <2>6, <3>1, <3>2, <1>1
    <3> QED
      BY <2>3, <2>6, <3>3
  <2>7. Offsets(p, t)' = Offsets(p, t)
    BY <1>2 DEF Offsets
  <2> QED
    BY <2>3, <2>5, <2>6, <2>7, <1>2 DEF ShowsLast
<1> QED
  BY <1>5, <1>6

LEMMA NextLast == LInv /\ [OpenNext]_vars => LInv'
<1> SUFFICES ASSUME LInv, [OpenNext]_vars PROVE LInv'
  OBVIOUS
<1>1. RInv'
  BY NextRInv DEF LInv
<1>2. \A p \in Partitions : Len(topic[p]) \in Nat
  BY DEF LInv, RInv, IInv, TypeOK, TopicTypeOK
<1>3. ASSUME UNCHANGED <<topic, committed, kv>> PROVE LastIsHeld'
  BY <1>2, <1>3, LastStays DEF LInv
<1>4. ASSUME NEW p \in Partitions, NEW payload \in Payloads, Arrive(p, payload)
      PROVE  LastIsHeld'
  <2>1. UNCHANGED <<committed, kv>> /\ AppendRecord(p, payload)
    BY <1>4 DEF Arrive, logStore
  <2>2. /\ TopicTypeOK'
        /\ \A r \in Partitions :
             /\ Len(topic[r]) <= Len(topic'[r])
             /\ \A i \in 1 .. Len(topic[r]) : topic'[r][i] = topic[r][i]
    BY <2>1, AppendKeepsOffsets DEF LInv, RInv, IInv, TypeOK
  <2>3. \A r \in Partitions : Len(topic'[r]) \in Nat
    BY <2>2 DEF TopicTypeOK
  <2> QED
    BY <1>2, <2>1, <2>2, <2>3, LastStays DEF LInv
<1>5. ASSUME NEW c \in Consumers, Fault(c) PROVE LastIsHeld'
  BY <1>3, <1>5
  DEF Fault, Kill, ConnectGivesUp, SaveFails, ConnectFails, Evict, Die, broker, replica,
      logStore
<1>6. ASSUME SomeRebalance PROVE LastIsHeld'
  BY <1>3, <1>6 DEF SomeRebalance, Rebalance, logStore
<1>7. ASSUME NEW c \in Consumers, Progress(c) PROVE LastIsHeld'
  <2>1. CASE Restart(c) \/ ConnectOk(c) \/ (\E p \in Partitions : Fetch(c, p))
    BY <2>1, <1>3 DEF Restart, ConnectOk, Fetch, broker, logStore
  <2>2. CASE SaveIndex(c)
    BY <2>2, <1>3 DEF SaveIndex, AddToIndex, broker
  <2>3. CASE CommitRejected(c)
    BY <2>3, <1>3 DEF CommitRejected, Die, logStore
  <2> QED
    BY <1>7, <2>1, <2>2, <2>3, SaveEntryLast, CommitLast DEF Progress
<1>8. ASSUME UNCHANGED vars PROVE LastIsHeld'
  BY <1>3, <1>8 DEF vars, broker, logStore
<1>9. LastIsHeld'
  BY <1>4, <1>5, <1>6, <1>7, <1>8 DEF OpenNext, ConsumerNext
<1> QED
  BY <1>1, <1>9 DEF LInv

LEMMA LoneShowsNewest == LInv /\ ~Several => NewestEntryWins
<1> SUFFICES ASSUME LInv, ~Several, Idle, NEW t \in TraceIds,
                    NEW p \in Partitions, NEW j \in Offsets(p, t)
             PROVE  \E q \in Partitions : \E i \in DOMAIN topic[q] :
                      IsNewest(q, t, i) /\ Visible(t) = topic[q][i].entry
  BY DEF NewestEntryWins
<1>1. \A q \in Partitions : committed[q] = Len(topic[q]) /\ topic[q] \in Seq(Payloads)
  BY DEF Idle, Drained, LInv, RInv, IInv, TypeOK, TopicTypeOK
<1>2. j \in 1 .. committed[p] /\ topic[p][j] # Malformed /\ topic[p][j].trace_id = t
  BY <1>1 DEF Offsets
<1>3. Visible(t) # None
  BY <1>2 DEF LInv, RInv, IInv, CommittedIsStored, Stored
<1>4. Visible(t) = kv[t]
  BY <1>3 DEF Visible, ListTraceIds, Get
<1>5. ShowsLast(t)
  BY <1>3, <1>4 DEF LInv, LastIsHeld
<1>6. PICK q \in Partitions : \E i \in 1 .. Len(topic[q]) :
        HeldFrom(t, q, i) /\ \A k \in Offsets(q, t) : k <= committed[q] => k <= i
  BY <1>5 DEF ShowsLast
<1>7. PICK i \in 1 .. Len(topic[q]) :
        HeldFrom(t, q, i) /\ \A k \in Offsets(q, t) : k <= committed[q] => k <= i
  BY <1>6
<1>8. \A k \in Offsets(q, t) : k \in 1 .. committed[q]
  BY <1>1 DEF Offsets
<1>9. committed[q] \in Nat
  BY DEF LInv, RInv, IInv, TypeOK
<1>10. IsNewest(q, t, i)
  <2>1. \A k \in Offsets(q, t) : k <= i
    BY <1>7, <1>8, <1>9
  <2>2. i \in Offsets(q, t)
    BY <1>7 DEF HeldFrom, Offsets
  <2>3. QED
    BY <2>1, <2>2 DEF IsNewest
<1>11. i \in DOMAIN topic[q] /\ Visible(t) = topic[q][i].entry
  BY <1>1, <1>4, <1>7 DEF HeldFrom
<1> QED
  BY <1>10, <1>11

(* It takes a second replica to put an older entry back: with one, killed   *)
(* and restarted as often as may be, over any number of partitions, the     *)
(* records of a partition are written in their order (main.py:79-103).      *)
THEOREM LoneReplicaShowsNewest ==
    ASSUME ~Several
    PROVE  Spec => []NewestEntryWins
<1>1. Init => LInv
  BY InitRInv DEF LInv, LastIsHeld, Init, LogStoreInit
<1>2. LInv /\ [Next]_vars => LInv'
  BY NextLast, NextIsOpen
<1>3. LInv => NewestEntryWins
  BY LoneShowsNewest
<1> QED
  BY <1>1, <1>2, <1>3, PTL DEF Spec
=============================================================================
