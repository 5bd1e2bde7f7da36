------------------------------ MODULE Pipeline ------------------------------
(***************************************************************************)
(* The ingestion service and the consumer service around their topic: what *)
(* a client sees who uploads a file, reads the response, and then lists    *)
(* the trace ids and asks for one.  An upload of the same file name reuses *)
(* the trace ids of the one before ("{filename}-{i}"), so the entries of   *)
(* upload u are all the number u.                                          *)
(***************************************************************************)
EXTENDS PublishBatch

CONSTANTS Consumers, MaxRetries

ASSUME RetriesAssumption == MaxRetries \in Nat \ {0}

VARIABLES kv, index, committed, members, pc, attempt, assigned, position, current

C == INSTANCE ConsumerService

consumer == <<kv, index, committed, members, pc, attempt, assigned, position, current>>
pipelineVars == <<topic, publisher, consumer>>

PipelineInit == Init /\ C!Init

PipelineNext ==
    \/ Next /\ UNCHANGED consumer
    \/ C!ConsumerNext /\ UNCHANGED publisher

PipelineFairness ==
    /\ WF_pipelineVars(Service /\ UNCHANGED consumer)
    /\ WF_pipelineVars(Producer /\ UNCHANGED consumer)
    /\ WF_pipelineVars(C!SomeRebalance /\ UNCHANGED publisher)
    /\ \A c \in Consumers : WF_pipelineVars(C!Progress(c) /\ UNCHANGED publisher)

PipelineSpec == PipelineInit /\ [][PipelineNext]_pipelineVars /\ PipelineFairness

-----------------------------------------------------------------------------
(* After a re-upload, once the consumer is done, every trace id shows the   *)
(* entry of the last upload that delivered it - although producer retries   *)
(* duplicate records and consumer restarts replay them.                     *)
LatestUploadWins ==
    C!Idle => \A t \in TraceIds :
        LET us == {u \in Uploads : t \in InTopic(u)}
        IN  us # {} => C!Visible(t) \in us /\ \A u \in us : u <= C!Visible(t)

(* The number in the response is a promise: if the consumer's faults stop,  *)
(* at least that many trace ids get listed with an entry.                   *)
ConsumerFaultsStop == <>[][~ \E c \in Consumers : C!Fault(c)]_pipelineVars

Listed == {t \in TraceIds : C!Visible(t) # None}

PublishedGetsListed ==
    ConsumerFaultsStop =>
        \A u \in Uploads : \A n \in 1 .. Cardinality(TraceIds) :
            answered[u] = n ~> Cardinality(Listed) >= n

(* End to end, whatever the producer repeats or loses and the consumer does *)
(* again: with a lone replica each record is on show in its turn, and only  *)
(* then counts as done (Delivery without stale replicas).                   *)
DeliversInTurn == C!ImplementsDelivery
=============================================================================
