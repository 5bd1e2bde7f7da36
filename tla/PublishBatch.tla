---------------------------- MODULE PublishBatch ----------------------------
(***************************************************************************)
(* services/ingestion_service/app/kafka_producer.py and the part of the    *)
(* two /upload/logs handlers of main.py that uses it: the batch of an      *)
(* upload is published record by record, each send waiting up to ten       *)
(* seconds for its acknowledgement, then the producer is flushed and the   *)
(* number of acknowledged records is the response.                         *)
(*                                                                         *)
(* The handlers are async functions that call publish_batch without        *)
(* awaiting it, so one event loop runs one batch at a time.                *)
(*                                                                         *)
(* KafkaProducer is external: a record handed to send() is in flight until *)
(* the broker acknowledged it or all its attempts (retries=3) failed; an   *)
(* attempt may reach the topic although its acknowledgement is lost; the   *)
(* record has no key, so the producer picks the partition.                 *)
(***************************************************************************)
EXTENDS KafkaTopic, FiniteSets, Functions

CONSTANTS
    Batches,        \* the batches of (trace_id, entry) pairs an upload can produce:
                    \* sequences of trace ids, no id twice
    MaxUploads,     \* bound on the number of uploads; the entries of upload u are u
    MaxSends,       \* attempts of the producer for one record: 1 + retries
    MaxConnects     \* max_retries of get_producer

ASSUME MaxUploadsAssumption == MaxUploads \in Nat
ASSUME MaxSendsAssumption == MaxSends \in Nat \ {0}
ASSUME MaxConnectsAssumption == MaxConnects \in Nat \ {0}
ASSUME BatchesAssumption ==
    \A b \in Batches : b \in Seq(TraceIds) /\ IsInjective(b)
ASSUME TraceIdsAssumption == IsFiniteSet(TraceIds)
ASSUME EntriesAssumption == 1 .. MaxUploads \subseteq Entries
ASSUME NoneIsNoFuture == None \notin {"pending", "acked", "failed"}

VARIABLES
    phase,      \* where the ingestion process is
    connects,   \* the attempt number inside get_producer
    upload,     \* the number of uploads received so far
    batch,      \* the batch of the current upload
    next,       \* the record publish_batch is at
    published,  \* publish_batch's count
    future,     \* the state of the future of record `next`, None when there is none
    inflight,   \* the records send() accepted and the producer has not given up
    answered    \* answered[u]: published_to_kafka in the response of upload u, None without one

publisher == <<phase, connects, upload, batch, next, published, future, inflight, answered>>
vars == <<topic, publisher>>

Uploads == 1 .. MaxUploads

(* A record inside the producer: what it will append, where, and how often  *)
(* that was tried.                                                          *)
Sends == [trace_id : TraceIds, entry : Uploads, target : Partitions, tries : 0 .. MaxSends - 1]

TypeOK ==
    /\ TopicTypeOK
    /\ phase \in {"starting", "down", "idle", "sending", "waiting"}
    /\ connects \in 0 .. MaxConnects
    /\ upload \in 0 .. MaxUploads
    /\ batch \in Batches \cup {<<>>}
    /\ next \in 1 .. Len(batch) + 1
    /\ published \in 0 .. Len(batch)
    /\ future \in {"pending", "acked", "failed", None}
    /\ inflight \in SUBSET Sends
    /\ answered \in [Uploads -> Nat \cup {None}]

Init ==
    /\ TopicInit
    /\ phase = "starting"
    /\ connects = 1
    /\ upload = 0
    /\ batch = <<>>
    /\ next = 1
    /\ published = 0
    /\ future = None
    /\ inflight = {}
    /\ answered = [u \in Uploads |-> None]

-----------------------------------------------------------------------------
(* get_producer runs when the module is imported; RuntimeError after the    *)
(* last attempt ends the process, which the platform starts again.          *)
ConnectOk ==
    /\ phase = "starting"
    /\ phase' = "idle"
    /\ connects' = 0
    /\ UNCHANGED <<topic, upload, batch, next, published, future, inflight, answered>>

ConnectFails ==
    /\ phase = "starting"
    /\ IF connects < MaxConnects
         THEN connects' = connects + 1 /\ UNCHANGED phase
         ELSE connects' = 0 /\ phase' = "down"
    /\ UNCHANGED <<topic, upload, batch, next, published, future, inflight, answered>>

Restart ==
    /\ phase = "down"
    /\ phase' = "starting"
    /\ connects' = 1
    /\ UNCHANGED <<topic, upload, batch, next, published, future, inflight, answered>>

(* The process ends, and with it the records the producer still held; the   *)
(* client of the current upload gets no response.                           *)
Crash ==
    /\ phase \in {"idle", "sending", "waiting"}
    /\ phase' = "down"
    /\ batch' = <<>>
    /\ next' = 1
    /\ published' = 0
    /\ future' = None
    /\ inflight' = {}
    /\ UNCHANGED <<topic, connects, upload, answered>>

-----------------------------------------------------------------------------
(* A client uploads a file whose anomalous lines or blocks are b.           *)
Upload(b) ==
    /\ phase = "idle"
    /\ upload < MaxUploads
    /\ upload' = upload + 1
    /\ batch' = b
    /\ phase' = "sending"
    /\ UNCHANGED <<topic, connects, next, published, future, inflight, answered>>

(* producer.send raises KafkaError (no metadata, no buffer): not counted.   *)
SendRefused ==
    /\ phase = "sending"
    /\ next <= Len(batch)
    /\ next' = next + 1
    /\ UNCHANGED <<topic, phase, connects, upload, batch, published, future, inflight, answered>>

Send(p) ==
    /\ phase = "sending"
    /\ next <= Len(batch)
    /\ inflight' = inflight \cup
         {[trace_id |-> batch[next], entry |-> upload, target |-> p, tries |-> 0]}
    /\ future' = "pending"
    /\ phase' = "waiting"
    /\ UNCHANGED <<topic, connects, upload, batch, next, published, answered>>

(* One attempt of the producer's sender thread for a record in flight.      *)
Awaited(r) == phase = "waiting" /\ r.entry = upload /\ r.trace_id = batch[next]

Resolve(r, outcome) ==
    /\ inflight' = inflight \ {r}
    /\ future' = IF Awaited(r) THEN outcome ELSE future
    /\ UNCHANGED <<phase, connects, upload, batch, next, published, answered>>

RetryOrGiveUp(r) ==
    IF r.tries + 1 < MaxSends
      THEN /\ inflight' = (inflight \ {r}) \cup {[r EXCEPT !.tries = @ + 1]}
           /\ UNCHANGED <<phase, connects, upload, batch, next, published, future, answered>>
      ELSE Resolve(r, "failed")

AppendSend(r) == AppendRecord(r.target, [trace_id |-> r.trace_id, entry |-> r.entry])

Delivered(r) ==
    /\ AppendSend(r)
    /\ Resolve(r, "acked")

AckLost(r) ==
    /\ HasRoom(r.target)
    /\ AppendSend(r)
    /\ RetryOrGiveUp(r)

AttemptFails(r) ==
    /\ RetryOrGiveUp(r)
    /\ UNCHANGED topic

(* future.get(timeout=10): the acknowledgement, the error, or - while the   *)
(* record stays in flight - KafkaTimeoutError, which is a KafkaError too.   *)
GetReturns ==
    /\ phase = "waiting"
    /\ future = "acked"
    /\ published' = published + 1
    /\ next' = next + 1
    /\ future' = None
    /\ phase' = "sending"
    /\ UNCHANGED <<topic, connects, upload, batch, inflight, answered>>

(* Mutant: a send that timed out is counted.                                *)
GetRaisesCounted ==
    /\ phase = "waiting"
    /\ future \in {"pending", "failed"}
    /\ published' = published + 1
    /\ next' = next + 1
    /\ future' = None
    /\ phase' = "sending"
    /\ UNCHANGED <<topic, connects, upload, batch, inflight, answered>>

GetRaises ==
    /\ phase = "waiting"
    /\ future \in {"pending", "failed"}
    /\ next' = next + 1
    /\ future' = None
    /\ phase' = "sending"
    /\ UNCHANGED <<topic, connects, upload, batch, published, inflight, answered>>

(* flush() returns when nothing is in flight.  Mutants: publish_batch does  *)
(* not call it; it insists on every record being acknowledged.              *)
Unflushed == TRUE
AllAcknowledged == inflight = {} /\ published = Len(batch)

Flushed == inflight = {}

(* The end of publish_batch, and the response of the handler.               *)
FlushAndAnswer ==
    /\ phase = "sending"
    /\ next > Len(batch)
    /\ Flushed
    /\ answered' = [answered EXCEPT ![upload] = published]
    /\ phase' = "idle"
    /\ batch' = <<>>
    /\ next' = 1
    /\ published' = 0
    /\ UNCHANGED <<topic, connects, upload, future, inflight>>

-----------------------------------------------------------------------------
Service ==
    \/ ConnectOk
    \/ Restart
    \/ SendRefused
    \/ \E p \in Partitions : Send(p)
    \/ GetReturns
    \/ GetRaises
    \/ FlushAndAnswer

Producer ==
    \E r \in inflight : Delivered(r) \/ AckLost(r) \/ AttemptFails(r)

Next ==
    \/ \E b \in Batches : Upload(b)
    \/ Service
    \/ Producer
    \/ ConnectFails
    \/ Crash

Spec == Init /\ [][Next]_vars

(* The process runs, and the producer gives up on a record by itself.       *)
Fairness == WF_vars(Service) /\ WF_vars(Producer)

-----------------------------------------------------------------------------
(* The trace ids whose record of upload u is in the topic.                  *)
InTopic(u) ==
    {t \in TraceIds : \E p \in Partitions : \E i \in Offsets(p, t) : topic[p][i].entry = u}

(* published_to_kafka counts only records that are in the topic; it may     *)
(* miss some: a send that timed out, or whose acknowledgement was lost, can *)
(* still arrive before the flush returns.                                   *)
AnswerNeverOverstates ==
    \A u \in Uploads : answered[u] # None => answered[u] <= Cardinality(InTopic(u))

(* The flush is a barrier: whatever timed out, was retried or was appended  *)
(* twice, no record of an upload reaches a partition after a record of the  *)
(* next one, so the topic keeps two uploads of the same file apart.         *)
UploadsStayInOrder ==
    \A p \in Partitions : \A i, j \in DOMAIN topic[p] :
        i < j => topic[p][i].entry <= topic[p][j].entry

(* A broker that answers nothing delays an upload, it does not hang it:     *)
(* unless the process dies the client gets its response.                    *)
UploadGetsAnAnswer == phase \in {"sending", "waiting"} ~> phase \in {"idle", "down"}
=============================================================================
