-------------------------- MODULE ConsumerService --------------------------
(***************************************************************************)
(* services/consumer_service/app/main.py: the worker that moves records    *)
(* from the Kafka topic into Redis, as one or several replicas of one      *)
(* consumer group.                                                         *)
(*                                                                         *)
(* One replica runs                                                        *)
(*     consumer = connect_with_retry()                                     *)
(*     for message in consumer:                                            *)
(*         malformed?  consumer.commit(); continue                         *)
(*         log_store.save(...)            (SET, then SADD)                 *)
(*         consumer.commit()                                               *)
(* and every exception ends the process, which the platform restarts.      *)
(*                                                                         *)
(* The group is external: the broker knows the members of the current      *)
(* generation.  A member that was evicted keeps its own stale view of what *)
(* it is assigned and goes on until it tries to commit.                    *)
(***************************************************************************)
EXTENDS LogStore, KafkaTopic

CONSTANTS
    Consumers,      \* the replicas of the consumer service
    MaxRetries      \* max_retries of connect_with_retry

ASSUME MaxRetriesAssumption == MaxRetries \in Nat \ {0}

VARIABLES
    committed,  \* committed[p]: how many records of p the group is done with (broker)
    members,    \* the replicas that are members of the group's current generation (broker)
    pc,         \* what each replica is doing
    attempt,    \* the attempt number inside connect_with_retry
    assigned,   \* the partitions a replica believes it owns
    position,   \* position[c][p]: how many records of p replica c has been handed
    current     \* the partition of the message in c's hands, None when it polls

broker == <<topic, committed, members>>
replica == <<pc, attempt, assigned, position, current>>
vars == <<broker, replica, logStore>>

Down == "down"              \* the process has ended, the platform will restart it
Connecting == "connecting"  \* inside connect_with_retry
Polling == "polling"        \* inside the iterator of the consumer
Setting == "set"            \* save(): before the SET
Indexing == "sadd"          \* save(): between the SET and the SADD
Committing == "commit"      \* before consumer.commit()

InHand == {Setting, Indexing, Committing}
PcValues == {Down, Connecting, Polling} \cup InHand

(* The payload in c's hands: position[c][p] is already past its offset.     *)
Message(c) == topic[current[c]][position[c][current[c]]]

TypeOK ==
    /\ LogStoreTypeOK
    /\ TopicTypeOK
    /\ committed \in [Partitions -> Nat]
    /\ members \in SUBSET Consumers
    /\ pc \in [Consumers -> PcValues]
    /\ attempt \in [Consumers -> 0 .. MaxRetries]
    /\ assigned \in [Consumers -> SUBSET Partitions]
    /\ position \in [Consumers -> [Partitions -> Nat]]
    /\ current \in [Consumers -> Partitions \cup {None}]

Init ==
    /\ LogStoreInit
    /\ TopicInit
    /\ committed = [p \in Partitions |-> 0]
    /\ members = {}
    /\ pc = [c \in Consumers |-> Connecting]
    /\ attempt = [c \in Consumers |-> 1]
    /\ assigned = [c \in Consumers |-> {}]
    /\ position = [c \in Consumers |-> [p \in Partitions |-> 0]]
    /\ current = [c \in Consumers |-> None]

-----------------------------------------------------------------------------
(* The producer's side of the topic, as the consumers see it.               *)
Produce(p, payload) ==
    /\ HasRoom(p)
    /\ AppendRecord(p, payload)
    /\ UNCHANGED <<committed, members, replica, logStore>>

-----------------------------------------------------------------------------
(* The end of a process: its memory is gone and so is its membership.       *)
Die(c) ==
    /\ pc' = [pc EXCEPT ![c] = Down]
    /\ attempt' = [attempt EXCEPT ![c] = 0]
    /\ assigned' = [assigned EXCEPT ![c] = {}]
    /\ position' = [position EXCEPT ![c] = [p \in Partitions |-> 0]]
    /\ current' = [current EXCEPT ![c] = None]
    /\ members' = members \ {c}
    /\ UNCHANGED <<topic, committed, logStore>>

Restart(c) ==
    /\ pc[c] = Down
    /\ pc' = [pc EXCEPT ![c] = Connecting]
    /\ attempt' = [attempt EXCEPT ![c] = 1]
    /\ UNCHANGED <<broker, assigned, position, current, logStore>>

(* SIGKILL, a node failure, a rolling update: at any point of the program.  *)
Kill(c) ==
    /\ pc[c] # Down
    /\ Die(c)

(* connect_with_retry: one attempt; after the last one RuntimeError ends    *)
(* the process.                                                             *)
ConnectOk(c) ==
    /\ pc[c] = Connecting
    /\ pc' = [pc EXCEPT ![c] = Polling]
    /\ attempt' = [attempt EXCEPT ![c] = 0]
    /\ UNCHANGED <<broker, assigned, position, current, logStore>>

(* Mutant: the comparison of the attempt with max_retries is off by one.    *)
ConnectFailsOnceMore(c) ==
    /\ pc[c] = Connecting
    /\ attempt[c] <= MaxRetries
    /\ attempt' = [attempt EXCEPT ![c] = @ + 1]
    /\ UNCHANGED <<broker, pc, assigned, position, current, logStore>>

ConnectFails(c) ==
    /\ pc[c] = Connecting
    /\ attempt[c] < MaxRetries
    /\ attempt' = [attempt EXCEPT ![c] = @ + 1]
    /\ UNCHANGED <<broker, pc, assigned, position, current, logStore>>

ConnectGivesUp(c) ==
    /\ pc[c] = Connecting
    /\ attempt[c] = MaxRetries
    /\ Die(c)

-----------------------------------------------------------------------------
(* The consumer group.                                                      *)

(* No heartbeat within the session timeout, or no poll within the poll      *)
(* interval: the broker drops c, and c does not know.                       *)
Evict(c) ==
    /\ c \in members
    /\ members' = members \ {c}
    /\ UNCHANGED <<topic, committed, replica, logStore>>

Unowned == {p \in Partitions : \A c \in members : p \notin assigned[c]}

(* Where a new owner of p starts: auto_offset_reset="earliest" applies when *)
(* nothing is committed.  Mutant: "latest".                                 *)
LatestOffset(p) == IF committed[p] = 0 THEN Len(topic[p]) ELSE committed[p]

StartOffset(p) == committed[p]

(* A new generation: every member rejoins from inside poll(), with the      *)
(* replicas that ask to join, and each partition gets one owner.            *)
Rebalance(joined) ==
    /\ joined # {}
    /\ members \subseteq joined
    /\ \A c \in joined : pc[c] = Polling
    /\ joined # members \/ Unowned # {}
    /\ members' = joined
    /\ \E owner \in [Partitions -> joined] :
         assigned' = [c \in Consumers |->
                        IF c \in joined THEN {p \in Partitions : owner[p] = c}
                                        ELSE assigned[c]]
    /\ position' = [c \in Consumers |->
                       IF c \in joined THEN [p \in Partitions |-> StartOffset(p)]
                                       ELSE position[c]]
    /\ UNCHANGED <<topic, committed, pc, attempt, current, logStore>>

-----------------------------------------------------------------------------
(* The loop of run_consumer.                                                *)

(* Mutant: "continue" without the commit for a malformed payload.           *)
FetchSkipping(c, p) ==
    /\ pc[c] = Polling
    /\ p \in assigned[c]
    /\ position[c][p] < Len(topic[p])
    /\ position' = [position EXCEPT ![c][p] = @ + 1]
    /\ IF topic[p][position[c][p] + 1] = Malformed
         THEN UNCHANGED <<pc, current>>
         ELSE /\ current' = [current EXCEPT ![c] = p]
              /\ pc' = [pc EXCEPT ![c] = Setting]
    /\ UNCHANGED <<broker, attempt, assigned, logStore>>

(* The iterator hands out the next record of p and moves the position past  *)
(* it; a malformed payload goes straight to the commit.                     *)
Fetch(c, p) ==
    /\ pc[c] = Polling
    /\ p \in assigned[c]
    /\ position[c][p] < Len(topic[p])
    /\ position' = [position EXCEPT ![c][p] = @ + 1]
    /\ current' = [current EXCEPT ![c] = p]
    /\ pc' = [pc EXCEPT ![c] = IF topic[p][position[c][p] + 1] = Malformed
                                 THEN Committing ELSE Setting]
    /\ UNCHANGED <<broker, attempt, assigned, logStore>>

(* Mutant: save() writes the index before the entry.                        *)
SaveIndexFirst(c) ==
    /\ pc[c] = Setting
    /\ AddToIndex(Message(c).trace_id)
    /\ pc' = [pc EXCEPT ![c] = Indexing]
    /\ UNCHANGED <<broker, attempt, assigned, position, current>>

(* Mutant: an entry that is there already is not written again (SET NX).    *)
SaveEntryOnce(c) ==
    /\ pc[c] = Setting
    /\ IF kv[Message(c).trace_id] = None
         THEN SetEntry(Message(c).trace_id, Message(c).entry)
         ELSE UNCHANGED logStore
    /\ pc' = [pc EXCEPT ![c] = Indexing]
    /\ UNCHANGED <<broker, attempt, assigned, position, current>>

SaveEntry(c) ==
    /\ pc[c] = Setting
    /\ SetEntry(Message(c).trace_id, Message(c).entry)
    /\ pc' = [pc EXCEPT ![c] = Indexing]
    /\ UNCHANGED <<broker, attempt, assigned, position, current>>

SaveIndex(c) ==
    /\ pc[c] = Indexing
    /\ AddToIndex(Message(c).trace_id)
    /\ pc' = [pc EXCEPT ![c] = Committing]
    /\ UNCHANGED <<broker, attempt, assigned, position, current>>

(* Mutant: the exception of save() is logged and not raised again.          *)
SaveFailsQuietly(c) ==
    /\ pc[c] \in {Setting, Indexing}
    /\ pc' = [pc EXCEPT ![c] = Committing]
    /\ UNCHANGED <<broker, attempt, assigned, position, current, logStore>>

(* Redis raises in one of the two commands: logged, re-raised, the process  *)
(* ends without a commit.                                                   *)
SaveFails(c) ==
    /\ pc[c] \in {Setting, Indexing}
    /\ Die(c)

(* Mutant: the broker does not check the member's generation.               *)
CommitUnfenced(c) ==
    /\ pc[c] = Committing
    /\ committed' = [p \in Partitions |->
                       IF p \in assigned[c] THEN position[c][p] ELSE committed[p]]
    /\ pc' = [pc EXCEPT ![c] = Polling]
    /\ current' = [current EXCEPT ![c] = None]
    /\ UNCHANGED <<topic, members, attempt, assigned, position, logStore>>

(* commit() without arguments: the positions of ALL assigned partitions.    *)
CommitAccepted(c) ==
    /\ pc[c] = Committing
    /\ c \in members
    /\ committed' = [p \in Partitions |->
                       IF p \in assigned[c] THEN position[c][p] ELSE committed[p]]
    /\ pc' = [pc EXCEPT ![c] = Polling]
    /\ current' = [current EXCEPT ![c] = None]
    /\ UNCHANGED <<topic, members, attempt, assigned, position, logStore>>

(* The group has moved on: CommitFailedError, which nothing catches.        *)
CommitRejected(c) ==
    /\ pc[c] = Committing
    /\ c \notin members
    /\ Die(c)

-----------------------------------------------------------------------------
Fault(c) ==
    \/ Kill(c)
    \/ ConnectFails(c)
    \/ ConnectGivesUp(c)
    \/ Evict(c)
    \/ SaveFails(c)

Progress(c) ==
    \/ Restart(c)
    \/ ConnectOk(c)
    \/ \E p \in Partitions : Fetch(c, p)
    \/ SaveEntry(c)
    \/ SaveIndex(c)
    \/ CommitAccepted(c)
    \/ CommitRejected(c)

SomeRebalance == \E joined \in SUBSET Consumers : Rebalance(joined)

ConsumerNext ==
    \/ SomeRebalance
    \/ \E c \in Consumers : Fault(c) \/ Progress(c)

Next ==
    \/ \E p \in Partitions, payload \in Payloads : Produce(p, payload)
    \/ ConsumerNext

Spec == Init /\ [][Next]_vars

(* The platform restarts what has ended, the broker forms the group, and a  *)
(* replica takes its next step.  Nothing is assumed of the faults or of the *)
(* producer.                                                                *)
Fairness ==
    /\ WF_vars(SomeRebalance)
    /\ \A c \in Consumers : WF_vars(Progress(c))

FairSpec == Spec /\ Fairness

-----------------------------------------------------------------------------
Stored(payload) == payload = Malformed \/ Visible(payload.trace_id) # None

Drained == \A p \in Partitions : committed[p] = Len(topic[p])

(* The promise of "do not commit what is not stored" (main.py:95-103): once *)
(* the group is past a record, a client of Redis finds its trace id listed  *)
(* and its entry present - whichever replica was killed, evicted or refused *)
(* at whatever point, and although one commit covers every partition the    *)
(* replica owns.                                                            *)
CommittedIsStored ==
    \A p \in Partitions : \A i \in 1 .. committed[p] :
        i <= Len(topic[p]) /\ Stored(topic[p][i])

(* The order of the two writes in LogStore.save: the index never names a    *)
(* key that is not there, not even for the instant between them.            *)
NoDanglingIndex == \A t \in index : kv[t] # None

(* What a crash can make the group do again: a member of the current        *)
(* generation has at most the one record in its hands that is not committed *)
(* and nobody else in the generation owns that record's partition.          *)
OneRecordAtRisk ==
    \A c \in members : \A p \in assigned[c] :
        /\ position[c][p] = committed[p] + (IF current[c] = p THEN 1 ELSE 0)
        /\ \A d \in members \ {c} : p \notin assigned[d]

(* A stale replica never moves the group back over records it has done.     *)
CommitNeverRegresses ==
    [][\A p \in Partitions : committed'[p] >= committed[p]]_vars

(* Once nothing is left to do, a trace id shows the newest entry some       *)
(* partition holds for it, not one that a later record replaced.            *)
Idle == Drained /\ \A c \in Consumers : pc[c] \notin InHand

NewestEntryWins ==
    Idle => \A t \in TraceIds :
        (\E p \in Partitions : Offsets(p, t) # {}) =>
            \E p \in Partitions : \E i \in DOMAIN topic[p] :
                IsNewest(p, t, i) /\ Visible(t) = topic[p][i].entry

(* If the faults stop, everything in the topic is consumed in the end:      *)
(* neither a malformed record, nor a stale member, nor a crash in the       *)
(* middle of a record leaves the group stuck.                               *)
FaultsStop == <>[][~ \E c \in Consumers : Fault(c)]_vars

EventuallyDrained == FaultsStop => []<>Drained

(* The service is an at-least-once delivery of the topic into the listing:  *)
(* a lone replica shows each record in its turn and finishes it while it is *)
(* the entry on show; among several replicas a stale one may put an older   *)
(* entry back.                                                              *)
D == INSTANCE Delivery WITH
        done <- committed,
        visible <- [t \in TraceIds |-> Visible(t)],
        StaleReplicas <- \E c, d \in Consumers : c # d

ImplementsDelivery == D!Spec
=============================================================================
