--------------------------- MODULE PipelineProofs ---------------------------
(***************************************************************************)
(* What the two services promise together.                                 *)
(*                                                                         *)
(* First what the flush at the end of publish_batch buys, for every number *)
(* of uploads, batch sizes, partitions and producer retries.               *)
(* UploadsStayInOrder rests on the barrier: whatever is in flight belongs  *)
(* to the current upload, and nothing is in flight between two uploads.    *)
(* AnswerNeverOverstates rests on counting: the records counted so far are *)
(* distinct trace ids of this upload that are in the topic.                *)
(*                                                                         *)
(* The publisher's theorems speak of the topic it writes, the consumer's   *)
(* of whatever topic it reads (Arrive); a step of the pipeline is a step   *)
(* of one of them and, where it appends a record, an arrival for the       *)
(* other.                                                                  *)
(***************************************************************************)
EXTENDS Pipeline, FiniteSetTheorems, TLAPS

USE MaxUploadsAssumption, MaxSendsAssumption, MaxConnectsAssumption, EntriesAssumption,
    MalformedIsNoRecord

UploadRecords == [trace_id : TraceIds, entry : Uploads]

Types ==
    /\ topic \in [Partitions -> Seq(UploadRecords)]
    /\ upload \in 0 .. MaxUploads
    /\ inflight \in SUBSET Sends
    /\ batch \in Seq(TraceIds)
    /\ IsInjective(batch)
    /\ next \in Nat \ {0}
    /\ published \in Nat

Barrier ==
    /\ \A r \in inflight : r.entry = upload
    /\ phase \in {"starting", "down", "idle"} => inflight = {}
    /\ phase \in {"sending", "waiting"} => upload # 0

NotAhead == \A p \in Partitions : \A i \in DOMAIN topic[p] : topic[p][i].entry <= upload

OrderInv == Types /\ Barrier /\ NotAhead /\ UploadsStayInOrder

LEMMA EmptyBatch == <<>> \in Seq(TraceIds) /\ IsInjective(<<>>)
  BY DEF IsInjective

LEMMA InitOrder == Init => OrderInv
<1> SUFFICES ASSUME Init PROVE OrderInv
  OBVIOUS
<1>1. Types
  BY EmptyBatch DEF Init, TopicInit, Types
<1> QED
  BY <1>1 DEF Init, TopicInit, OrderInv, Barrier, NotAhead, UploadsStayInOrder

(* What one append does to a partition.                                     *)
LEMMA AppendSendFacts ==
    ASSUME Types, NEW r \in Sends, AppendSend(r)
    PROVE  /\ topic' \in [Partitions -> Seq(UploadRecords)]
           /\ \A p \in Partitions :
                /\ Len(topic[p]) \in Nat
                /\ DOMAIN topic[p] = 1 .. Len(topic[p])
                /\ DOMAIN topic'[p] = 1 .. Len(topic'[p])
                /\ \A i \in 1 .. Len(topic[p]) : topic'[p][i] = topic[p][i]
                /\ p # r.target => Len(topic'[p]) = Len(topic[p])
                /\ p = r.target =>
                     /\ Len(topic'[p]) = Len(topic[p]) + 1
                     /\ topic'[p][Len(topic[p]) + 1] = [trace_id |-> r.trace_id, entry |-> r.entry]
<1> DEFINE x == [trace_id |-> r.trace_id, entry |-> r.entry]
<1>1. x \in UploadRecords /\ r.target \in Partitions
  BY DEF Sends, UploadRecords
<1>2. topic' = [topic EXCEPT ![r.target] = Append(@, x)]
  BY DEF AppendSend, AppendRecord
<1>3. topic' \in [Partitions -> Seq(UploadRecords)]
  BY <1>1, <1>2 DEF Types
<1>4. ASSUME NEW p \in Partitions
      PROVE  /\ Len(topic[p]) \in Nat
             /\ DOMAIN topic[p] = 1 .. Len(topic[p])
             /\ DOMAIN topic'[p] = 1 .. Len(topic'[p])
             /\ \A i \in 1 .. Len(topic[p]) : topic'[p][i] = topic[p][i]
             /\ p # r.target => Len(topic'[p]) = Len(topic[p])
             /\ p = r.target => /\ Len(topic'[p]) = Len(topic[p]) + 1
                                /\ topic'[p][Len(topic[p]) + 1] = x
  <2>1. topic[p] \in Seq(UploadRecords) /\ topic'[p] \in Seq(UploadRecords)
    BY <1>3 DEF Types
  <2>2. topic'[p] = IF p = r.target THEN Append(topic[p], x) ELSE topic[p]
    BY <1>2 DEF Types
  <2>3. ASSUME NEW s \in Seq(UploadRecords)
        PROVE  /\ Len(Append(s, x)) = Len(s) + 1
               /\ Append(s, x)[Len(s) + 1] = x
               /\ \A i \in 1 .. Len(s) : Append(s, x)[i] = s[i]
    BY <1>1
  <2>4. Len(topic[p]) \in Nat /\ DOMAIN topic[p] = 1 .. Len(topic[p])
        /\ DOMAIN topic'[p] = 1 .. Len(topic'[p])
    BY <2>1
  <2>5. CASE p = r.target
    BY <2>1, <2>2, <2>3, <2>4, <2>5
  <2>6. CASE p # r.target
    BY <2>2, <2>4, <2>6
  <2> QED
    BY <2>5, <2>6
<1> QED
  BY <1>3, <1>4

-----------------------------------------------------------------------------
(* A record of the current upload goes behind everything that is there.     *)
LEMMA AppendKeepsOrder ==
    ASSUME OrderInv, NEW r \in inflight, AppendSend(r), UNCHANGED upload
    PROVE  NotAhead' /\ UploadsStayInOrder'
<1>1. r \in Sends /\ r.entry = upload
  BY DEF OrderInv, Types, Barrier
<1>2. \A p \in Partitions :
        /\ Len(topic[p]) \in Nat
        /\ DOMAIN topic[p] = 1 .. Len(topic[p])
        /\ DOMAIN topic'[p] = 1 .. Len(topic'[p])
        /\ \A i \in 1 .. Len(topic[p]) : topic'[p][i] = topic[p][i]
        /\ p # r.target => Len(topic'[p]) = Len(topic[p])
        /\ p = r.target =>
             /\ Len(topic'[p]) = Len(topic[p]) + 1
             /\ topic'[p][Len(topic[p]) + 1] = [trace_id |-> r.trace_id, entry |-> r.entry]
  BY <1>1, AppendSendFacts DEF OrderInv
<1>3. ASSUME NEW p \in Partitions, NEW i \in DOMAIN topic'[p]
      PROVE  \/ i \in DOMAIN topic[p] /\ topic'[p][i] = topic[p][i]
             \/ i = Len(topic[p]) + 1 /\ topic'[p][i].entry = upload
  <2> DEFINE n == Len(topic[p])
  <2>1. /\ n \in Nat /\ DOMAIN topic[p] = 1 .. n
        /\ DOMAIN topic'[p] = 1 .. Len(topic'[p])
        /\ \A k \in 1 .. n : topic'[p][k] = topic[p][k]
    BY <1>2
  <2>2. CASE Len(topic'[p]) = n
    BY <2>1, <2>2
  <2>3. CASE Len(topic'[p]) = n + 1
             /\ topic'[p][n + 1] = [trace_id |-> r.trace_id, entry |-> r.entry]
    <3>1. i \in 1 .. n \/ i = n + 1
      BY <2>1, <2>3
    <3>2. topic'[p][n + 1].entry = upload
      BY <1>1, <2>3
    <3> QED
      BY <2>1, <3>1, <3>2
  <2> QED
    BY <1>2, <2>2, <2>3
<1>4. upload \in Nat
  BY DEF OrderInv, Types
<1>5. \A p \in Partitions : \A i \in DOMAIN topic[p] :
        topic[p][i].entry <= upload /\ topic[p][i].entry \in Nat
  <2> SUFFICES ASSUME NEW p \in Partitions, NEW i \in DOMAIN topic[p]
               PROVE  topic[p][i].entry <= upload /\ topic[p][i].entry \in Nat
    OBVIOUS
  <2>1. topic[p][i] \in UploadRecords
    BY DEF OrderInv, Types
  <2> QED
    BY <2>1 DEF OrderInv, NotAhead, UploadRecords, Uploads
<1>6. NotAhead'
  BY <1>3, <1>4, <1>5 DEF NotAhead
<1>7. UploadsStayInOrder'
  <2> SUFFICES ASSUME NEW p \in Partitions, NEW i \in DOMAIN topic'[p],
                      NEW j \in DOMAIN topic'[p], i < j
               PROVE  topic'[p][i].entry <= topic'[p][j].entry
    BY DEF UploadsStayInOrder
  <2>1. CASE j \in DOMAIN topic[p] /\ topic'[p][j] = topic[p][j]
    <3>1. i \in DOMAIN topic[p] /\ topic'[p][i] = topic[p][i]
      BY <2>1, <1>2
    <3> QED
      BY <2>1, <3>1 DEF OrderInv, UploadsStayInOrder
  <2>2. CASE j = Len(topic[p]) + 1 /\ topic'[p][j].entry = upload
    <3>1. topic'[p][i].entry <= upload
      BY <1>6 DEF NotAhead
    <3> QED
      BY <2>2, <3>1
  <2> QED
    BY <2>1, <2>2, <1>3
<1> QED
  BY <1>6, <1>7

(* Steps that append nothing and start no upload.                           *)
LEMMA QuietKeepsOrder ==
    ASSUME OrderInv, UNCHANGED <<topic, upload>> PROVE NotAhead' /\ UploadsStayInOrder'
BY DEF OrderInv, NotAhead, UploadsStayInOrder

(* What the producer does with a record after an attempt.                   *)
LEMMA AfterAttempt ==
    ASSUME OrderInv, NEW r \in inflight, NEW outcome,
           Resolve(r, outcome) \/ RetryOrGiveUp(r)
    PROVE  /\ inflight' \in SUBSET Sends
           /\ \A s \in inflight' : s.entry = upload
           /\ inflight # {} /\ phase \notin {"starting", "down", "idle"}
           /\ UNCHANGED <<phase, connects, upload, batch, next, published, answered>>
<1>1. r \in Sends /\ r.entry = upload /\ inflight \subseteq Sends
  BY DEF OrderInv, Types, Barrier
<1>2. phase \notin {"starting", "down", "idle"}
  BY DEF OrderInv, Barrier
<1>3. \A o : Resolve(r, o) =>
        /\ inflight' \subseteq inflight
        /\ UNCHANGED <<phase, connects, upload, batch, next, published, answered>>
  BY DEF Resolve
<1>4. CASE inflight' \subseteq inflight
           /\ UNCHANGED <<phase, connects, upload, batch, next, published, answered>>
  BY <1>1, <1>2, <1>4 DEF OrderInv, Barrier
<1>5. CASE RetryOrGiveUp(r) /\ r.tries + 1 < MaxSends
  <2>1. [r EXCEPT !.tries = @ + 1] \in Sends /\ [r EXCEPT !.tries = @ + 1].entry = upload
    BY <1>1, <1>5 DEF Sends
  <2>2. inflight' = (inflight \ {r}) \cup {[r EXCEPT !.tries = @ + 1]}
    BY <1>5 DEF RetryOrGiveUp
  <2>3. UNCHANGED <<phase, connects, upload, batch, next, published, answered>>
    BY <1>5 DEF RetryOrGiveUp
  <2> QED
    BY <1>1, <1>2, <2>1, <2>2, <2>3 DEF OrderInv, Barrier
<1> QED
  BY <1>3, <1>4, <1>5 DEF RetryOrGiveUp

LEMMA NextOrder == OrderInv /\ [Next]_vars => OrderInv'
<1> SUFFICES ASSUME OrderInv, [Next]_vars PROVE OrderInv'
  OBVIOUS
<1>1. CASE ConnectOk \/ ConnectFails \/ Restart
  <2>1. /\ UNCHANGED <<topic, upload, batch, next, published, inflight>>
        /\ inflight = {}
        /\ phase' \in {"starting", "down", "idle"}
    BY <1>1 DEF ConnectOk, ConnectFails, Restart, OrderInv, Barrier
  <2>2. Types'
    BY <2>1 DEF OrderInv, Types
  <2>3. Barrier'
    BY <2>1 DEF Barrier
  <2> QED
    BY <2>1, <2>2, <2>3, QuietKeepsOrder DEF OrderInv
<1>2. CASE Crash
  <2>1. Types'
    BY <1>2, EmptyBatch DEF Crash, OrderInv, Types
  <2> QED
    BY <1>2, <2>1, QuietKeepsOrder DEF Crash, OrderInv, Barrier
<1>3. ASSUME NEW b \in Batches, Upload(b) PROVE OrderInv'
  <2>1. /\ upload' = upload + 1 /\ upload \in Nat /\ upload' \in 0 .. MaxUploads
        /\ inflight = {} /\ UNCHANGED <<topic, next, published, inflight>>
        /\ phase' = "sending" /\ batch' = b
    BY <1>3 DEF Upload, OrderInv, Types, Barrier
  <2>2. Types'
    BY <2>1, BatchesAssumption DEF OrderInv, Types
  <2>3. NotAhead'
    <3> SUFFICES ASSUME NEW p \in Partitions, NEW i \in DOMAIN topic[p]
                 PROVE  topic[p][i].entry <= upload + 1
      BY <2>1 DEF NotAhead
    <3>1. topic[p][i] \in UploadRecords /\ topic[p][i].entry <= upload
      BY DEF OrderInv, Types, NotAhead
    <3> QED
      BY <3>1, <2>1 DEF UploadRecords, Uploads
  <2> QED
    BY <2>1, <2>2, <2>3 DEF OrderInv, Barrier, UploadsStayInOrder
<1>4. CASE SendRefused \/ GetReturns \/ GetRaises
  <2>1. /\ UNCHANGED <<topic, upload, batch, inflight>>
        /\ next' = next + 1 /\ published' \in {published, published + 1}
        /\ phase' = "sending" /\ phase \in {"sending", "waiting"}
    BY <1>4 DEF SendRefused, GetReturns, GetRaises
  <2>2. Types'
    BY <2>1 DEF OrderInv, Types
  <2>3. Barrier'
    BY <2>1 DEF OrderInv, Barrier
  <2> QED
    BY <2>1, <2>2, <2>3, QuietKeepsOrder DEF OrderInv
<1>5. ASSUME NEW p \in Partitions, Send(p) PROVE OrderInv'
  <2> DEFINE r == [trace_id |-> batch[next], entry |-> upload, target |-> p, tries |-> 0]
  <2>1. /\ UNCHANGED <<topic, upload, batch, next, published>>
        /\ inflight' = inflight \cup {r} /\ phase' = "waiting" /\ phase = "sending"
    BY <1>5 DEF Send
  <2>2. batch[next] \in TraceIds
    BY <1>5 DEF Send, OrderInv, Types
  <2>3. upload \in Uploads
    BY <1>5 DEF Send, OrderInv, Types, Barrier, Uploads
  <2>4. r \in Sends /\ r.entry = upload
    BY <2>2, <2>3 DEF Sends
  <2>5. Types'
    BY <2>1, <2>4 DEF OrderInv, Types
  <2>6. Barrier'
    BY <2>1, <2>4 DEF OrderInv, Barrier
  <2> QED
    BY <2>1, <2>5, <2>6, QuietKeepsOrder DEF OrderInv
<1>6. ASSUME NEW r \in inflight, Delivered(r) \/ AckLost(r) PROVE OrderInv'
  <2>1. AppendSend(r) /\ (Resolve(r, "acked") \/ RetryOrGiveUp(r))
    BY <1>6 DEF Delivered, AckLost
  <2>2. /\ inflight' \in SUBSET Sends
        /\ \A s \in inflight' : s.entry = upload
        /\ phase \notin {"starting", "down", "idle"}
        /\ UNCHANGED <<phase, connects, upload, batch, next, published, answered>>
    BY <2>1, AfterAttempt
  <2>3. topic' \in [Partitions -> Seq(UploadRecords)]
    BY <2>1, AppendSendFacts DEF OrderInv, Types
  <2>4. NotAhead' /\ UploadsStayInOrder'
    BY <2>1, <2>2, AppendKeepsOrder
  <2> QED
    BY <2>2, <2>3, <2>4 DEF OrderInv, Types, Barrier
<1>7. ASSUME NEW r \in inflight, AttemptFails(r) PROVE OrderInv'
  <2>1. /\ inflight' \in SUBSET Sends
        /\ \A s \in inflight' : s.entry = upload
        /\ phase \notin {"starting", "down", "idle"}
        /\ UNCHANGED <<phase, connects, upload, batch, next, published, answered>>
        /\ UNCHANGED topic
    BY <1>7, AfterAttempt DEF AttemptFails
  <2> QED
    BY <2>1, QuietKeepsOrder DEF OrderInv, Types, Barrier
<1>8. CASE FlushAndAnswer
  <2>1. Types'
    BY <1>8, EmptyBatch DEF FlushAndAnswer, Flushed, OrderInv, Types
  <2> QED
    BY <1>8, <2>1, QuietKeepsOrder DEF FlushAndAnswer, Flushed, OrderInv, Barrier
<1>9. CASE UNCHANGED vars
  BY <1>9 DEF vars, publisher, OrderInv, Types, Barrier, NotAhead, UploadsStayInOrder
<1> QED
  BY <1>1, <1>2, <1>3, <1>4, <1>5, <1>6, <1>7, <1>8, <1>9 DEF Next, Service, Producer

THEOREM OrderInvariance == Spec => []OrderInv
<1>1. Init => OrderInv
  BY InitOrder
<1>2. OrderInv /\ [Next]_vars => OrderInv'
  BY NextOrder
<1> QED
  BY <1>1, <1>2, PTL DEF Spec

(* In no partition does a record of an upload come after one of a later     *)
(* upload (publish_batch's flush, kafka_producer.py:94), although sends     *)
(* that timed out are still in flight while the next ones are made.         *)
THEOREM UploadsKeepTheirOrder == Spec => []UploadsStayInOrder
<1>1. OrderInv => UploadsStayInOrder
  BY DEF OrderInv
<1> QED
  BY <1>1, OrderInvariance, PTL

-----------------------------------------------------------------------------
(* The trace ids publish_batch is done with.                                *)
Done == {t \in TraceIds : \E j \in 1 .. Len(batch) : j < next /\ batch[j] = t}

Counted == Done \cap InTopic(upload)

CountInv ==
    /\ answered \in [Uploads -> Nat \cup {None}]
    /\ published <= Cardinality(Counted)
    /\ phase \in {"starting", "down", "idle"} => published = 0
    /\ phase = "waiting" => next \in 1 .. Len(batch)
    /\ future = "acked" => phase = "waiting" /\ batch[next] \in InTopic(upload)
    /\ AnswerNeverOverstates

(* The topic forgets nothing, so what is in it stays in it.                 *)
LEMMA InTopicGrows ==
    ASSUME OrderInv, [Next]_vars, NEW u
    PROVE  InTopic(u) \subseteq InTopic(u)'
<1>1. CASE UNCHANGED topic
  BY <1>1 DEF InTopic, Offsets
<1>2. ASSUME NEW r \in inflight, AppendSend(r) PROVE InTopic(u) \subseteq InTopic(u)'
  <2>1. r \in Sends
    BY DEF OrderInv, Types
  <2>2. \A p \in Partitions :
          /\ Len(topic[p]) \in Nat /\ Len(topic'[p]) \in Nat
          /\ \A i \in 1 .. Len(topic[p]) : topic'[p][i] = topic[p][i]
          /\ Len(topic'[p]) >= Len(topic[p])
    <3> SUFFICES ASSUME NEW p \in Partitions
                 PROVE  /\ Len(topic[p]) \in Nat /\ Len(topic'[p]) \in Nat
                        /\ \A i \in 1 .. Len(topic[p]) : topic'[p][i] = topic[p][i]
                        /\ Len(topic'[p]) >= Len(topic[p])
      OBVIOUS
    <3>1. /\ Len(topic[p]) \in Nat
          /\ \A i \in 1 .. Len(topic[p]) : topic'[p][i] = topic[p][i]
          /\ p # r.target => Len(topic'[p]) = Len(topic[p])
          /\ p = r.target => Len(topic'[p]) = Len(topic[p]) + 1
      BY <1>2, <2>1, AppendSendFacts DEF OrderInv
    <3> QED
      BY <3>1
  <2>3. \A p \in Partitions : \A t \in TraceIds : \A i \in Offsets(p, t) :
          i \in Offsets(p, t)' /\ topic'[p][i] = topic[p][i]
    BY <2>2 DEF Offsets
  <2> QED
    BY <2>3 DEF InTopic
<1>3. UNCHANGED topic \/ \E r \in inflight : AppendSend(r)
  BY DEF Next, Service, Producer, ConnectOk, Restart, SendRefused, Send, GetReturns, GetRaises,
         FlushAndAnswer, ConnectFails, Crash, Upload, Delivered, AckLost, AttemptFails, vars,
         publisher
<1> QED
  BY <1>1, <1>2, <1>3

LEMMA FiniteParts ==
    ASSUME NEW S, S \subseteq TraceIds
    PROVE  IsFiniteSet(S) /\ Cardinality(S) \in Nat
BY TraceIdsAssumption, FS_Subset, FS_CardinalityType

LEMMA MoreIsMore ==
    ASSUME NEW S, NEW T, S \subseteq T, T \subseteq TraceIds
    PROVE  Cardinality(S) <= Cardinality(T)
BY FiniteParts, FS_Subset

(* Answers already given stay honest.                                       *)
LEMMA OldAnswers ==
    ASSUME OrderInv, CountInv, [Next]_vars, UNCHANGED answered
    PROVE  AnswerNeverOverstates'
<1> SUFFICES ASSUME NEW u \in Uploads, answered[u] # None
             PROVE  answered[u] <= Cardinality(InTopic(u)')
  BY DEF AnswerNeverOverstates
<1>1. answered[u] \in Nat /\ answered[u] <= Cardinality(InTopic(u))
  BY DEF CountInv, AnswerNeverOverstates
<1>2. /\ InTopic(u) \subseteq InTopic(u)'
      /\ InTopic(u) \subseteq TraceIds /\ InTopic(u)' \subseteq TraceIds
  BY InTopicGrows DEF InTopic
<1>3. Cardinality(InTopic(u)) <= Cardinality(InTopic(u)')
  BY <1>2, MoreIsMore
<1> QED
  BY <1>1, <1>2, <1>3, FiniteParts

(* A step that counts nothing can only add to what the count stands for.    *)
LEMMA CountStays ==
    ASSUME OrderInv, CountInv, [Next]_vars, UNCHANGED <<upload, batch, published>>,
           next' >= next, next' \in Nat
    PROVE  published' <= Cardinality(Counted')
<1> PICK u : u = upload
  OBVIOUS
<1>1. InTopic(u) \subseteq InTopic(u)' /\ u = upload'
  BY InTopicGrows
<1>2. Done \subseteq Done'
  BY DEF Done, OrderInv, Types
<1>3. Counted \subseteq Counted' /\ Counted \subseteq TraceIds /\ Counted' \subseteq TraceIds
  BY <1>1, <1>2 DEF Counted, Done, InTopic
<1>4. Cardinality(Counted) <= Cardinality(Counted')
  BY <1>3, MoreIsMore
<1> QED
  BY <1>3, <1>4, FiniteParts DEF CountInv, OrderInv, Types

LEMMA InitCount == Init => CountInv
<1> SUFFICES ASSUME Init PROVE CountInv
  OBVIOUS
<1>1. Counted \subseteq TraceIds
  BY DEF Counted, Done
<1>2. published <= Cardinality(Counted)
  BY <1>1, FiniteParts DEF Init
<1> QED
  BY <1>2, NoneIsNoFuture DEF Init, CountInv, AnswerNeverOverstates

(* An acknowledged send is in the topic, and is not one counted before.     *)
LEMMA CountedOneMore ==
    ASSUME OrderInv, CountInv, GetReturns
    PROVE  published' <= Cardinality(Counted')
<1> DEFINE t == batch[next]
<1>1. /\ next \in 1 .. Len(batch) /\ t \in TraceIds /\ t \in InTopic(upload)
      /\ next' = next + 1 /\ published' = published + 1
      /\ UNCHANGED <<topic, upload, batch>>
      /\ batch \in Seq(TraceIds) /\ published \in Nat /\ Len(batch) \in Nat
  BY DEF GetReturns, CountInv, OrderInv, Types
<1>2. t \notin Done
  BY <1>1 DEF Done, OrderInv, Types, IsInjective
<1>3. Done' = Done \cup {t}
  BY <1>1 DEF Done
<1>4. Counted' = Counted \cup {t} /\ t \notin Counted /\ Counted \subseteq TraceIds
  BY <1>1, <1>2, <1>3 DEF Counted, InTopic, Offsets, Done
<1>5. Cardinality(Counted') = Cardinality(Counted) + 1
  BY <1>4, FiniteParts, FS_AddElement
<1> QED
  BY <1>1, <1>4, <1>5, FiniteParts DEF CountInv

LEMMA NextCount == OrderInv /\ CountInv /\ [Next]_vars => CountInv'
<1> SUFFICES ASSUME OrderInv, CountInv, [Next]_vars PROVE CountInv'
  OBVIOUS
<1>1. CASE ConnectOk \/ ConnectFails \/ Restart
  <2>1. /\ UNCHANGED <<topic, upload, batch, next, published, future, answered>>
        /\ phase \in {"starting", "down"}
        /\ phase' \in {"starting", "down", "idle"}
    BY <1>1 DEF ConnectOk, ConnectFails, Restart
  <2> QED
    BY <2>1, CountStays, OldAnswers DEF CountInv, OrderInv, Types
<1>2. CASE Crash
  <2>1. /\ published' = 0 /\ future' = None /\ phase' = "down" /\ UNCHANGED answered
    BY <1>2 DEF Crash
  <2>2. Counted' \subseteq TraceIds
    BY DEF Counted, Done
  <2> QED
    BY <2>1, <2>2, NoneIsNoFuture, FiniteParts, OldAnswers DEF CountInv
<1>3. ASSUME NEW b \in Batches, Upload(b) PROVE CountInv'
  <2>1. /\ published' = 0 /\ future' = future /\ phase' = "sending" /\ phase = "idle"
        /\ UNCHANGED answered
    BY <1>3 DEF Upload, CountInv
  <2>2. Counted' \subseteq TraceIds
    BY DEF Counted, Done
  <2> QED
    BY <2>1, <2>2, FiniteParts, OldAnswers DEF CountInv
<1>4. CASE SendRefused
  <2>1. /\ UNCHANGED <<topic, upload, batch, published, future, answered>>
        /\ next' = next + 1 /\ phase = "sending" /\ phase' = "sending"
    BY <1>4 DEF SendRefused
  <2> QED
    BY <2>1, CountStays, OldAnswers DEF CountInv, OrderInv, Types
<1>5. ASSUME NEW p \in Partitions, Send(p) PROVE CountInv'
  <2>1. /\ UNCHANGED <<topic, upload, batch, next, published, answered>>
        /\ phase = "sending" /\ phase' = "waiting" /\ future' = "pending"
        /\ next <= Len(batch)
    BY <1>5 DEF Send
  <2>2. next \in 1 .. Len(batch)
    BY <2>1 DEF OrderInv, Types
  <2> QED
    BY <2>1, <2>2, CountStays, OldAnswers DEF CountInv, OrderInv, Types
<1>6. CASE GetReturns
  <2>1. /\ UNCHANGED <<topic, answered>> /\ phase' = "sending" /\ future' = None
    BY <1>6 DEF GetReturns
  <2> QED
    BY <1>6, <2>1, NoneIsNoFuture, CountedOneMore, OldAnswers DEF CountInv
<1>7. CASE GetRaises
  <2>1. /\ UNCHANGED <<topic, upload, batch, published, answered>>
        /\ next' = next + 1 /\ phase' = "sending" /\ future' = None
    BY <1>7 DEF GetRaises
  <2> QED
    BY <2>1, NoneIsNoFuture, CountStays, OldAnswers DEF CountInv, OrderInv, Types
<1>8. ASSUME NEW r \in inflight, Delivered(r) \/ AckLost(r) \/ AttemptFails(r) PROVE CountInv'
  <2>1. /\ UNCHANGED <<phase, upload, batch, next, published, answered>>
        /\ phase \notin {"starting", "down", "idle"}
    BY <1>8, AfterAttempt DEF Delivered, AckLost, AttemptFails
  <2>2. future' = "acked" => phase = "waiting" /\ batch[next] \in InTopic(upload)'
    <3> PICK u : u = upload
      OBVIOUS
    <3>1. InTopic(u) \subseteq InTopic(u)' /\ u = upload'
      BY <2>1, InTopicGrows
    <3>2. CASE future' = future
      BY <3>1, <3>2 DEF CountInv
    <3>3. CASE Delivered(r) /\ Awaited(r)
      <4>1. r \in Sends /\ r.trace_id = batch[next] /\ r.entry = upload /\ phase = "waiting"
            /\ r.trace_id \in TraceIds /\ r.target \in Partitions
        BY <3>3 DEF Awaited, OrderInv, Types, Sends
      <4>2. AppendSend(r)
        BY <3>3 DEF Delivered
      <4> DEFINE n == Len(topic[r.target]) + 1
                 x == [trace_id |-> r.trace_id, entry |-> r.entry]
      <4>3. /\ topic'[r.target][n] = x
            /\ Len(topic'[r.target]) = n /\ n \in 1 .. n
        BY <4>1, <4>2, AppendSendFacts DEF OrderInv
      <4>4. x \in Records
        BY <4>1 DEF Records, Sends, Uploads
      <4>5. n \in Offsets(r.target, r.trace_id)'
        BY <4>1, <4>3, <4>4 DEF Offsets
      <4> QED
        BY <4>1, <4>3, <4>5, <2>1 DEF InTopic
    <3>4. CASE future' = "failed"
      BY <3>4
    <3> QED
      BY <1>8, <3>2, <3>3, <3>4 DEF Delivered, AckLost, AttemptFails, RetryOrGiveUp, Resolve
  <2> QED
    BY <2>1, <2>2, CountStays, OldAnswers DEF CountInv, OrderInv, Types
<1>9. CASE FlushAndAnswer
  <2>1. /\ UNCHANGED <<topic, upload, future>>
        /\ answered' = [answered EXCEPT ![upload] = published]
        /\ published' = 0 /\ phase = "sending" /\ phase' = "idle"
        /\ upload \in Uploads
    BY <1>9 DEF FlushAndAnswer, Flushed, OrderInv, Types, Barrier, Uploads
  <2>2. Counted' \subseteq TraceIds /\ Counted \subseteq InTopic(upload)
        /\ InTopic(upload) \subseteq TraceIds
    BY DEF Counted, Done, InTopic
  <2>3. published <= Cardinality(InTopic(upload))
    BY <2>2, MoreIsMore, FiniteParts DEF CountInv, OrderInv, Types
  <2>4. \A u \in Uploads : InTopic(u)' = InTopic(u)
    BY <2>1 DEF InTopic, Offsets
  <2>5. AnswerNeverOverstates'
    BY <2>1, <2>3, <2>4 DEF CountInv, AnswerNeverOverstates
  <2>6. answered' \in [Uploads -> Nat \cup {None}]
    BY <2>1 DEF CountInv, OrderInv, Types
  <2> QED
    BY <2>1, <2>2, <2>5, <2>6, FiniteParts DEF CountInv
<1>10. CASE UNCHANGED vars
  <2>1. UNCHANGED <<topic, phase, upload, batch, next, published, future, answered>>
    BY <1>10 DEF vars, publisher
  <2>2. InTopic(upload)' = InTopic(upload)
    BY <2>1 DEF InTopic, Offsets
  <2>3. published' <= Cardinality(Counted')
    BY <2>1, CountStays DEF OrderInv, Types
  <2>4. AnswerNeverOverstates'
    BY <2>1, OldAnswers
  <2> QED
    BY <2>1, <2>2, <2>3, <2>4 DEF CountInv
<1> QED
  BY <1>1, <1>2, <1>3, <1>4, <1>5, <1>6, <1>7, <1>8, <1>9, <1>10 DEF Next, Service, Producer

(* published_to_kafka never exceeds what is in the topic (kafka_producer.py *)
(* 74-96): timeouts and lost acknowledgements only make it too small.       *)
THEOREM AnswersAreHonest == Spec => []AnswerNeverOverstates
<1>1. Init => OrderInv /\ CountInv
  BY InitOrder, InitCount
<1>2. OrderInv /\ CountInv /\ [Next]_vars => (OrderInv /\ CountInv)'
  BY NextOrder, NextCount
<1>3. CountInv => AnswerNeverOverstates
  BY DEF CountInv
<1> QED
  BY <1>1, <1>2, <1>3, PTL DEF Spec

-----------------------------------------------------------------------------
P == INSTANCE ConsumerServiceProofs

USE RetriesAssumption, NoneIsNoEntry, NoneIsNoPartition, MaxRecordsAssumption,
    MalformedIsNoRecord, EntriesAssumption
USE DEF P!Records, Records

(* The consumer inside the pipeline is the one the lemmas are about.        *)
LEMMA SameInit == C!Init => P!Init
BY DEF C!Init, P!Init, C!LogStoreInit, P!LogStoreInit, C!TopicInit, P!TopicInit,
       C!Connecting, P!Connecting

LEMMA SameDie == ASSUME NEW c \in Consumers, C!Die(c) PROVE P!Die(c)
BY DEF C!Die, P!Die, C!Down, P!Down, C!logStore, P!logStore

LEMMA SameFault == ASSUME NEW c \in Consumers, C!Fault(c) PROVE P!Fault(c)
<1> USE SameDie DEF C!Down, P!Down, C!Connecting, P!Connecting, C!Polling, P!Polling,
        C!Setting, P!Setting, C!Indexing, P!Indexing, C!broker, P!broker,
        C!replica, P!replica, C!logStore, P!logStore
<1>1. C!Kill(c) => P!Kill(c)
  BY DEF C!Kill, P!Kill
<1>2. C!ConnectFails(c) => P!ConnectFails(c)
  BY DEF C!ConnectFails, P!ConnectFails
<1>3. C!ConnectGivesUp(c) => P!ConnectGivesUp(c)
  BY DEF C!ConnectGivesUp, P!ConnectGivesUp
<1>4. C!Evict(c) => P!Evict(c)
  BY DEF C!Evict, P!Evict
<1>5. C!SaveFails(c) => P!SaveFails(c)
  BY DEF C!SaveFails, P!SaveFails
<1> QED
  BY <1>1, <1>2, <1>3, <1>4, <1>5 DEF C!Fault, P!Fault

LEMMA SameProgress == ASSUME NEW c \in Consumers, C!Progress(c) PROVE P!Progress(c)
<1> USE DEF C!Down, P!Down, C!Connecting, P!Connecting, C!Polling, P!Polling,
        C!Setting, P!Setting, C!Indexing, P!Indexing, C!Committing, P!Committing,
        C!broker, P!broker, C!logStore, P!logStore, C!Message, P!Message
<1>1. C!Restart(c) => P!Restart(c)
  BY DEF C!Restart, P!Restart
<1>2. C!ConnectOk(c) => P!ConnectOk(c)
  BY DEF C!ConnectOk, P!ConnectOk
<1>3. ASSUME NEW p \in Partitions, C!Fetch(c, p) PROVE P!Fetch(c, p)
  BY <1>3 DEF C!Fetch, P!Fetch
<1>4. C!SaveEntry(c) => P!SaveEntry(c)
  BY DEF C!SaveEntry, P!SaveEntry, C!SetEntry, P!SetEntry
<1>5. C!SaveIndex(c) => P!SaveIndex(c)
  BY DEF C!SaveIndex, P!SaveIndex, C!AddToIndex, P!AddToIndex
<1>6. C!CommitAccepted(c) => P!CommitAccepted(c)
  BY DEF C!CommitAccepted, P!CommitAccepted
<1>7. C!CommitRejected(c) => P!CommitRejected(c)
  BY SameDie DEF C!CommitRejected, P!CommitRejected
<1> QED
  BY <1>1, <1>2, <1>3, <1>4, <1>5, <1>6, <1>7 DEF C!Progress, P!Progress

LEMMA SameRebalance == C!SomeRebalance => P!SomeRebalance
BY DEF C!SomeRebalance, P!SomeRebalance, C!Rebalance, P!Rebalance, C!Polling, P!Polling,
       C!Unowned, P!Unowned, C!StartOffset, P!StartOffset, C!logStore, P!logStore

LEMMA SameConsumerNext == C!ConsumerNext => P!ConsumerNext
BY SameFault, SameProgress, SameRebalance DEF C!ConsumerNext, P!ConsumerNext

(* The consumer only reads the topic.                                       *)
LEMMA ConsumerReads == P!ConsumerNext => UNCHANGED topic
<1> USE DEF P!Die, P!broker
<1>1. P!SomeRebalance => UNCHANGED topic
  BY DEF P!SomeRebalance, P!Rebalance
<1>2. ASSUME NEW c \in Consumers, P!Fault(c) PROVE UNCHANGED topic
  BY <1>2 DEF P!Fault, P!Kill, P!ConnectFails, P!ConnectGivesUp, P!Evict, P!SaveFails
<1>3. ASSUME NEW c \in Consumers, P!Progress(c) PROVE UNCHANGED topic
  BY <1>3 DEF P!Progress, P!Restart, P!ConnectOk, P!Fetch, P!SaveEntry, P!SaveIndex,
              P!CommitAccepted, P!CommitRejected
<1> QED
  BY <1>1, <1>2, <1>3 DEF P!ConsumerNext

(* What the publisher appends is a record of the topic.                     *)
LEMMA PublisherAppends ==
    ASSUME OrderInv, Next
    PROVE  \/ UNCHANGED topic
           \/ \E p \in Partitions, payload \in Payloads : AppendRecord(p, payload)
<1>1. CASE \E b \in Batches : Upload(b)
  BY <1>1 DEF Upload
<1>2. CASE Service \/ ConnectFails \/ Crash
  BY <1>2 DEF Service, ConnectOk, Restart, SendRefused, Send, GetReturns, GetRaises,
              FlushAndAnswer, ConnectFails, Crash
<1>3. ASSUME NEW r \in inflight, Delivered(r) \/ AckLost(r)
      PROVE  \E p \in Partitions, payload \in Payloads : AppendRecord(p, payload)
  <2> DEFINE x == [trace_id |-> r.trace_id, entry |-> r.entry]
  <2>1. AppendRecord(r.target, x)
    BY <1>3 DEF Delivered, AckLost, AppendSend
  <2>2. r \in Sends
    BY DEF OrderInv, Types
  <2>3. r.target \in Partitions /\ r.trace_id \in TraceIds /\ r.entry \in Entries
    BY <2>2 DEF Sends, Uploads
  <2>4. x \in Payloads
    BY <2>3 DEF Payloads, Records
  <2> QED
    BY <2>1, <2>3, <2>4
<1>4. ASSUME NEW r \in inflight, AttemptFails(r) PROVE UNCHANGED topic
  BY <1>4 DEF AttemptFails
<1> QED
  BY <1>1, <1>2, <1>3, <1>4 DEF Next, Producer

LEMMA StepOfBoth ==
    ASSUME OrderInv, [PipelineNext]_pipelineVars
    PROVE  [Next]_vars /\ [P!OpenNext]_(P!vars)
<1> USE DEF consumer, P!vars, P!broker, P!replica, P!logStore
<1>1. CASE Next /\ UNCHANGED consumer
  <2>1. CASE UNCHANGED topic
    BY <1>1, <2>1
  <2>2. ASSUME NEW p \in Partitions, NEW payload \in Payloads, AppendRecord(p, payload)
        PROVE  P!Arrive(p, payload)
    BY <1>1, <2>2 DEF P!Arrive, P!AppendRecord, AppendRecord
  <2> QED
    BY <1>1, <2>1, <2>2, PublisherAppends
    DEF P!OpenNext, P!Payloads, P!Records, Payloads, Records
<1>2. CASE C!ConsumerNext /\ UNCHANGED publisher
  BY <1>2, SameConsumerNext, ConsumerReads DEF P!OpenNext, vars
<1>3. CASE UNCHANGED pipelineVars
  BY <1>3 DEF pipelineVars, vars
<1> QED
  BY <1>1, <1>2, <1>3 DEF PipelineNext

IsSingle(S) == \E x \in S : \A y \in S : y = x

PInv == OrderInv /\ P!LInv

LEMMA InitPInv == PipelineInit => PInv
<1> SUFFICES ASSUME PipelineInit PROVE PInv
  OBVIOUS
<1>1. OrderInv
  BY InitOrder DEF PipelineInit
<1>2. P!Init
  BY SameInit DEF PipelineInit
<1>3. P!RInv
  BY <1>2, P!InitRInv
<1>4. P!LastIsHeld
  BY <1>2 DEF P!LastIsHeld, P!Init, P!LogStoreInit
<1> QED
  BY <1>1, <1>3, <1>4 DEF PInv, P!LInv

LEMMA NextPInv == PInv /\ [PipelineNext]_pipelineVars => PInv'
BY StepOfBoth, NextOrder, P!NextLast DEF PInv

THEOREM PipelineInvariance == PipelineSpec => []PInv
<1>1. PipelineInit => PInv
  BY InitPInv
<1>2. PInv /\ [PipelineNext]_pipelineVars => PInv'
  BY NextPInv
<1> QED
  BY <1>1, <1>2, PTL DEF PipelineSpec

-----------------------------------------------------------------------------
(* End to end the topic is delivered as Delivery says, for any number of    *)
(* replicas and partitions, whatever the publisher repeats or loses         *)
(* (kafka_producer.py:74-96, main.py:71-103).                               *)
THEOREM PipelineDelivers == PipelineSpec => DeliversInTurn
<1> USE DEF C!Visible, P!Visible, C!ListTraceIds, P!ListTraceIds, C!Get, P!Get
<1>1. PipelineInit => C!D!Init
  BY SameInit, P!InitRefines DEF PipelineInit, C!D!Init, P!D!Init, C!D!TopicInit, P!D!TopicInit
<1>2. PInv /\ [PipelineNext]_pipelineVars => [P!D!Next]_(P!D!vars)
  BY StepOfBoth, P!NextRefines DEF PInv, P!LInv
<1>3. [P!D!Next]_(P!D!vars) => [C!D!Next]_(C!D!vars)
  <2> USE DEF C!D!AppendRecord, P!D!AppendRecord, C!D!Payloads, P!D!Payloads,
          C!D!Records, P!D!Records
  <2>1. ASSUME NEW p \in Partitions, NEW payload \in C!D!Payloads
        PROVE  P!D!Accept(p, payload) => C!D!Accept(p, payload)
    BY DEF C!D!Accept, P!D!Accept
  <2>2. ASSUME NEW p \in Partitions, NEW i \in 1 .. Len(topic[p])
        PROVE  P!D!Show(p, i) => C!D!Show(p, i)
    BY DEF C!D!Show, P!D!Show
  <2>3. ASSUME NEW p \in Partitions
        PROVE  P!D!Finish(p) => C!D!Finish(p)
    BY DEF C!D!Finish, P!D!Finish, C!D!Shown, P!D!Shown
  <2> QED
    BY <2>1, <2>2, <2>3 DEF C!D!Next, P!D!Next, C!D!vars, P!D!vars
<1> QED
  BY <1>1, <1>2, <1>3, PipelineInvariance, PTL
  DEF PipelineSpec, DeliversInTurn, C!ImplementsDelivery, C!D!Spec

-----------------------------------------------------------------------------
(* With a lone replica and one partition the orders of the two sides meet:  *)
(* the publisher never appends an older upload after a newer one, and the   *)
(* consumer leaves the newest record of each trace id on show.              *)
LEMMA LatestIsShown ==
    ASSUME PInv, ~ P!Several, IsSingle(Partitions)
    PROVE  LatestUploadWins
<1> SUFFICES ASSUME C!Idle, NEW t \in TraceIds,
                    NEW v \in Uploads, t \in InTopic(v)
             PROVE  /\ C!Visible(t) \in {u \in Uploads : t \in InTopic(u)}
                    /\ \A u \in Uploads : t \in InTopic(u) => u <= C!Visible(t)
  BY DEF LatestUploadWins
<1>1. P!Idle
  BY DEF C!Idle, P!Idle, C!Drained, P!Drained, C!InHand, P!InHand, C!Setting, P!Setting,
         C!Indexing, P!Indexing, C!Committing, P!Committing
<1>2. PICK p \in Partitions : \A q \in Partitions : q = p
  BY DEF IsSingle
<1>3. \A u \in Uploads : t \in InTopic(u) => \E j \in Offsets(p, t) : topic[p][j].entry = u
  BY <1>2 DEF InTopic
<1>4. Offsets(p, t) # {}
  BY <1>3
<1>5. P!NewestEntryWins
  BY P!LoneShowsNewest DEF PInv
<1>6. PICK i \in DOMAIN topic[p] :
        P!IsNewest(p, t, i) /\ P!Visible(t) = topic[p][i].entry
  BY <1>1, <1>2, <1>4, <1>5 DEF P!NewestEntryWins, P!Offsets, Offsets
<1>7. i \in Offsets(p, t) /\ \A j \in Offsets(p, t) : j <= i
  BY <1>6 DEF P!IsNewest, P!Offsets, Offsets
<1>8. C!Visible(t) = topic[p][i].entry
  BY <1>6 DEF C!Visible, P!Visible, C!ListTraceIds, P!ListTraceIds, C!Get, P!Get
<1>9. topic[p] \in Seq(UploadRecords) /\ DOMAIN topic[p] = 1 .. Len(topic[p])
  BY DEF PInv, OrderInv, Types
<1>10. topic[p][i].entry \in Uploads
  <2>1. topic[p][i] \in UploadRecords
    BY <1>6, <1>9
  <2> QED
    BY <2>1 DEF UploadRecords
<1>11. t \in InTopic(topic[p][i].entry)
  BY <1>7 DEF InTopic
<1>12. ASSUME NEW u \in Uploads, t \in InTopic(u)
       PROVE  u <= topic[p][i].entry
  <2>1. PICK j \in Offsets(p, t) : topic[p][j].entry = u
    BY <1>3, <1>12
  <2>2. j \in DOMAIN topic[p] /\ i \in DOMAIN topic[p] /\ j <= i
    BY <1>7, <1>9, <2>1 DEF Offsets
  <2>3. CASE j = i
    BY <1>10, <2>1, <2>3 DEF Uploads
  <2>4. CASE j < i
    BY <2>1, <2>2, <2>4 DEF PInv, OrderInv, UploadsStayInOrder
  <2> QED
    BY <1>9, <2>2, <2>3, <2>4
<1> QED
  BY <1>8, <1>10, <1>11, <1>12

(* After a re-upload every trace id shows the entry of the last upload that *)
(* delivered it, as long as one replica reads one partition                 *)
(* (kafka_producer.py:89-94, main.py:95-103).                               *)
THEOREM ReuploadReplaces ==
    ASSUME ~ P!Several, IsSingle(Partitions)
    PROVE  PipelineSpec => []LatestUploadWins
<1>1. PInv => LatestUploadWins
  BY LatestIsShown
<1> QED
  BY <1>1, PipelineInvariance, PTL
=============================================================================
