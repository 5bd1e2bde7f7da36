-------------------------- MODULE LogClientsProofs --------------------------
(***************************************************************************)
(* What a client of Redis may rely on while any number of replicas write.  *)
(*                                                                         *)
(* Each property needs an invariant about the requests so far: /stats has  *)
(* read what is there of the ids it is through with, save for those that   *)
(* were written since (StatsInv); a page further on, every id is either on *)
(* a page or still ahead of the offset, because ids are only inserted and  *)
(* never move to the front (PagesInv); a deleted entry stays deleted       *)
(* unless it is written (ClearInv).                                        *)
(*                                                                         *)
(* Until Redis is cleared the consumers' own invariant IInv holds.  A      *)
(* clear breaks it; what is left then is what a replica knows of the       *)
(* record in its hands (HandsInv).                                         *)
(***************************************************************************)
EXTENDS LogClients, ConsumerServiceProofs, FiniteOrders

USE NoneIsNoEntry, MalformedIsNoRecord, NoneIsNoPartition,
    MaxRecordsAssumption, MaxRetriesAssumption, TraceIdsAreOrdered, LimitAssumption

HandsInv ==
    /\ topic \in [Partitions -> Seq(Payloads)]
    /\ committed \in [Partitions -> Nat]
    /\ pc \in [Consumers -> PcValues]
    /\ position \in [Consumers -> [Partitions -> Nat]]
    /\ current \in [Consumers -> Partitions \cup {None}]
    /\ \A c \in Consumers :
         /\ pc[c] \in InHand => /\ current[c] \in Partitions
                                /\ position[c][current[c]] \in 1 .. Len(topic[current[c]])
         /\ pc[c] \in {Setting, Indexing} => Message(c) # Malformed

StoreInv ==
    /\ kv \in [TraceIds -> Entries \cup {None}]
    /\ index \in SUBSET TraceIds
    /\ IsFiniteSet(index)

ClientTypes ==
    /\ doing \in {"none", "stats", "counted", "pages", "paged", "clear", "cleared"}
    /\ listed \in SUBSET TraceIds
    /\ IsFiniteSet(listed)
    /\ todo \in SUBSET listed
    /\ entries \in SUBSET Records
    /\ offset \in Nat
    /\ reset \in BOOLEAN

(* Until Redis is cleared, what the client has listed stays listed.         *)
NotCleared == ~ reset => IInv /\ listed \subseteq index

StatsInv ==
    /\ doing \in {"stats", "counted"} =>
         /\ \A r \in entries : r.trace_id \in listed \ todo
         /\ \A r, s \in entries : r.trace_id = s.trace_id => r = s
         /\ \A t \in listed \ (todo \cup saved), e \in Entries :
              [trace_id |-> t, entry |-> e] \in entries <=> kv[t] = e
         /\ ~ reset => \A t \in listed \ todo : \E r \in entries : r.trace_id = t
    /\ doing = "counted" => todo = {}

PagesInv ==
    /\ doing = "pages" =>
         \A t \in listed : t \in index /\ (t \in shown \/ offset <= Rank(index, t))
    /\ PagingMissesNothing

ClearInv ==
    /\ doing = "clear" => reset /\ \A t \in listed \ (todo \cup saved) : kv[t] = None
    /\ ClearIsThorough

LcInv ==
    /\ HandsInv
    /\ StoreInv
    /\ ClientTypes
    /\ NotCleared
    /\ StatsInv
    /\ PagesInv
    /\ ClearInv

-----------------------------------------------------------------------------
LEMMA InitLcInv == LcInit => LcInv
<1> SUFFICES ASSUME LcInit PROVE LcInv
  OBVIOUS
<1>1. IInv
  BY InitIInv DEF LcInit
<1>2. HandsInv
  BY DEF LcInit, Init, TopicInit, HandsInv, PcValues, InHand, Connecting, Polling, Setting,
         Indexing, Committing, Down
<1>3. StoreInv
  BY FS_EmptySet DEF LcInit, Init, LogStoreInit, StoreInv
<1>4. ClientTypes
  BY FS_EmptySet DEF LcInit, ClientTypes
<1>5. NotCleared /\ StatsInv /\ PagesInv /\ ClearInv
  BY <1>1 DEF LcInit, NotCleared, StatsInv, PagesInv, ClearInv, PagingMissesNothing, ClearIsThorough
<1> QED
  BY <1>2, <1>3, <1>4, <1>5 DEF LcInv

-----------------------------------------------------------------------------
(* A replica that saves has a record in its hands, whatever Redis holds.    *)
LEMMA SavesARecord ==
    ASSUME HandsInv, NEW c \in Consumers, pc[c] \in {Setting, Indexing}
    PROVE  Message(c) \in Records
<1>1. /\ current[c] \in Partitions
      /\ position[c][current[c]] \in 1 .. Len(topic[current[c]])
      /\ Message(c) # Malformed
  BY DEF HandsInv, InHand
<1>2. topic[current[c]] \in Seq(Payloads)
  BY <1>1 DEF HandsInv
<1>3. Message(c) \in Payloads
  BY <1>1, <1>2 DEF Message
<1> QED
  BY <1>1, <1>3 DEF Payloads

LEMMA ProduceHands ==
    ASSUME HandsInv, NEW p \in Partitions, NEW payload \in Payloads, Produce(p, payload)
    PROVE  HandsInv'
<1>1. /\ topic' = [topic EXCEPT ![p] = Append(@, payload)]
      /\ UNCHANGED <<committed, pc, position, current>>
  BY DEF Produce, AppendRecord, replica
<1>2. \A q \in Partitions :
        /\ topic[q] \in Seq(Payloads)
        /\ topic'[q] \in Seq(Payloads)
        /\ Len(topic[q]) \in Nat
        /\ Len(topic'[q]) \in Nat
        /\ Len(topic[q]) <= Len(topic'[q])
        /\ \A i \in 1 .. Len(topic[q]) : topic'[q][i] = topic[q][i]
  BY <1>1 DEF HandsInv
<1>3. topic' \in [Partitions -> Seq(Payloads)]
  BY <1>1 DEF HandsInv
<1>4. ASSUME NEW c \in Consumers, pc[c] \in InHand
      PROVE  /\ position[c][current[c]] \in 1 .. Len(topic'[current[c]])
             /\ Message(c)' = Message(c)
  <2>1. current[c] \in Partitions /\ position[c][current[c]] \in 1 .. Len(topic[current[c]])
    BY <1>4 DEF HandsInv
  <2>2. QED
    BY <1>1, <1>2, <2>1 DEF Message
<1>5. \A c \in Consumers : pc[c] \in {Setting, Indexing} => pc[c] \in InHand
  BY DEF InHand
<1> QED
  BY <1>1, <1>3, <1>4, <1>5 DEF HandsInv

(* Steps of one replica that leave the topic and the others alone.          *)
LEMMA OwnHand ==
    ASSUME HandsInv, NEW c \in Consumers, UNCHANGED topic,
           committed' \in [Partitions -> Nat],
           NEW d \in PcValues, NEW at \in [Partitions -> Nat], NEW p \in Partitions \cup {None},
           pc' = [pc EXCEPT ![c] = d],
           position' = [position EXCEPT ![c] = at],
           current' = [current EXCEPT ![c] = p],
           d \in InHand => p \in Partitions /\ at[p] \in 1 .. Len(topic[p]),
           d \in {Setting, Indexing} => topic[p][at[p]] # Malformed
    PROVE  HandsInv'
<1> USE DEF HandsInv
<1>1. /\ pc' \in [Consumers -> PcValues]
      /\ position' \in [Consumers -> [Partitions -> Nat]]
      /\ current' \in [Consumers -> Partitions \cup {None}]
  OBVIOUS
<1>2. ASSUME NEW o \in Consumers
      PROVE  /\ pc'[o] \in InHand => /\ current'[o] \in Partitions
                                     /\ position'[o][current'[o]] \in 1 .. Len(topic'[current'[o]])
             /\ pc'[o] \in {Setting, Indexing} => Message(o)' # Malformed
  <2>1. CASE o = c
    BY <2>1 DEF Message
  <2>2. CASE o # c
    BY <2>2 DEF Message
  <2>3. QED
    BY <2>1, <2>2
<1> QED
  BY <1>1, <1>2

LEMMA DieHands ==
    ASSUME HandsInv, NEW c \in Consumers, Die(c)
    PROVE  HandsInv'
<1>1. Down \in PcValues /\ Down \notin InHand /\ Down \notin {Setting, Indexing}
  BY DEF PcValues, InHand, Down, Setting, Indexing, Committing
<1>2. /\ UNCHANGED topic
      /\ committed' = committed
      /\ pc' = [pc EXCEPT ![c] = Down]
      /\ position' = [position EXCEPT ![c] = [p \in Partitions |-> 0]]
      /\ current' = [current EXCEPT ![c] = None]
  BY DEF Die
<1>3. committed' \in [Partitions -> Nat]
  BY <1>2 DEF HandsInv
<1>4. [p \in Partitions |-> 0] \in [Partitions -> Nat]
  OBVIOUS
<1> QED
  BY <1>1, <1>2, <1>3, <1>4, OwnHand

LEMMA ConsumerHands ==
    ASSUME HandsInv, ConsumerNext
    PROVE  HandsInv'
<1> USE DEF Down, Connecting, Polling, Setting, Indexing, Committing, PcValues, InHand
<1>0. ASSUME NEW c \in Consumers
      PROVE  /\ position = [position EXCEPT ![c] = position[c]]
             /\ current = [current EXCEPT ![c] = current[c]]
             /\ pc = [pc EXCEPT ![c] = pc[c]]
             /\ position[c] \in [Partitions -> Nat]
             /\ current[c] \in Partitions \cup {None}
             /\ pc[c] \in PcValues
             /\ committed \in [Partitions -> Nat]
             /\ pc[c] \in InHand => /\ current[c] \in Partitions
                                    /\ position[c][current[c]] \in 1 .. Len(topic[current[c]])
             /\ pc[c] \in {Setting, Indexing} => topic[current[c]][position[c][current[c]]] # Malformed
  BY DEF HandsInv, Message
<1>1. ASSUME NEW c \in Consumers, Kill(c) \/ ConnectGivesUp(c) \/ SaveFails(c) \/ CommitRejected(c)
      PROVE  HandsInv'
  BY <1>1, DieHands DEF Kill, ConnectGivesUp, SaveFails, CommitRejected
<1>2. ASSUME NEW c \in Consumers, ConnectFails(c) \/ Evict(c)
      PROVE  HandsInv'
  BY <1>2 DEF ConnectFails, Evict, broker, replica, HandsInv, Message
<1>3. ASSUME NEW c \in Consumers, NEW d \in PcValues, d \notin InHand,
             pc' = [pc EXCEPT ![c] = d],
             UNCHANGED <<broker, position, current>>
      PROVE  HandsInv'
  BY <1>0, <1>3, OwnHand DEF broker
<1>4. ASSUME NEW c \in Consumers, Restart(c) \/ ConnectOk(c)
      PROVE  HandsInv'
  BY <1>3, <1>4 DEF Restart, ConnectOk
<1>5. ASSUME NEW c \in Consumers, NEW p \in Partitions, Fetch(c, p)
      PROVE  HandsInv'
  <2> DEFINE d == IF topic[p][position[c][p] + 1] = Malformed THEN Committing ELSE Setting
             at == [position[c] EXCEPT ![p] = @ + 1]
  <2>1. /\ UNCHANGED <<topic, committed>>
        /\ pc' = [pc EXCEPT ![c] = d]
        /\ current' = [current EXCEPT ![c] = p]
        /\ position[c][p] < Len(topic[p])
        /\ position' = [position EXCEPT ![c] = at]
    BY <1>5 DEF Fetch, broker
  <2>2. Len(topic[p]) \in Nat /\ position[c] \in [Partitions -> Nat]
    BY DEF HandsInv
  <2>3. at \in [Partitions -> Nat] /\ at[p] = position[c][p] + 1 /\ at[p] \in 1 .. Len(topic[p])
    BY <2>1, <2>2
  <2>4. d \in PcValues /\ (d \in {Setting, Indexing} => topic[p][at[p]] # Malformed)
    BY <2>3
  <2>5. committed' \in [Partitions -> Nat]
    BY <2>1 DEF HandsInv
  <2> HIDE DEF d, at
  <2>6. QED
    BY <2>1, <2>3, <2>4, <2>5, OwnHand
<1>6. ASSUME NEW c \in Consumers, SaveEntry(c) \/ SaveIndex(c)
      PROVE  HandsInv'
  <2>1. PICK d \in {Indexing, Committing} : pc' = [pc EXCEPT ![c] = d] /\ pc[c] \in {Setting, Indexing}
    BY <1>6 DEF SaveEntry, SaveIndex
  <2>2. UNCHANGED <<topic, committed, position, current>>
    BY <1>6 DEF SaveEntry, SaveIndex, broker
  <2>3. QED
    BY <1>0, <2>1, <2>2, OwnHand
<1>7. ASSUME NEW c \in Consumers, CommitAccepted(c)
      PROVE  HandsInv'
  <2>1. committed' \in [Partitions -> Nat]
    BY <1>0, <1>7 DEF CommitAccepted
  <2>2. QED
    BY <1>0, <1>7, <2>1, OwnHand DEF CommitAccepted
<1>8. ASSUME NEW joined \in SUBSET Consumers, Rebalance(joined)
      PROVE  HandsInv'
  <2>1. /\ UNCHANGED <<topic, committed, pc, current>>
        /\ position' = [c \in Consumers |-> IF c \in joined THEN [p \in Partitions |-> committed[p]]
                                                            ELSE position[c]]
        /\ \A c \in joined : pc[c] = Polling
    BY <1>8 DEF Rebalance, StartOffset
  <2>2. position' \in [Consumers -> [Partitions -> Nat]]
    BY <2>1 DEF HandsInv
  <2>3. \A c \in Consumers : pc[c] \in InHand => position'[c] = position[c]
    BY <2>1
  <2>4. QED
    BY <2>1, <2>2, <2>3 DEF HandsInv, Message
<1>9. ASSUME NEW c \in Consumers, Fault(c) \/ Progress(c)
      PROVE  HandsInv'
  BY <1>1, <1>2, <1>4, <1>5, <1>6, <1>7, <1>9 DEF Fault, Progress
<1> QED
  BY <1>8, <1>9 DEF ConsumerNext, SomeRebalance

(* What a step of the service does to Redis: it sets an entry or lists an   *)
(* id, or leaves everything as it is.                                       *)
LEMMA ServiceStore ==
    ASSUME HandsInv, Next
    PROVE  \/ UNCHANGED logStore
           \/ \E m \in Records : kv' = [kv EXCEPT ![m.trace_id] = m.entry] /\ UNCHANGED index
           \/ \E m \in Records : index' = index \cup {m.trace_id} /\ UNCHANGED kv
<1>1. ASSUME NEW p \in Partitions, NEW payload \in Payloads, Produce(p, payload)
      PROVE  UNCHANGED logStore
  BY <1>1 DEF Produce
<1>2. ASSUME NEW c \in Consumers, SaveEntry(c)
      PROVE  \E m \in Records : kv' = [kv EXCEPT ![m.trace_id] = m.entry] /\ UNCHANGED index
  BY <1>2, SavesARecord DEF SaveEntry, SetEntry
<1>3. ASSUME NEW c \in Consumers, SaveIndex(c)
      PROVE  \E m \in Records : index' = index \cup {m.trace_id} /\ UNCHANGED kv
  BY <1>3, SavesARecord DEF SaveIndex, AddToIndex
<1>4. ASSUME NEW c \in Consumers, Fault(c)
      PROVE  UNCHANGED logStore
  BY <1>4 DEF Fault, Kill, ConnectFails, ConnectGivesUp, Evict, SaveFails, Die
<1>5. ASSUME NEW c \in Consumers, Progress(c), ~ SaveEntry(c), ~ SaveIndex(c)
      PROVE  UNCHANGED logStore
  BY <1>5 DEF Progress, Restart, ConnectOk, Fetch, CommitAccepted, CommitRejected, Die
<1>6. SomeRebalance => UNCHANGED logStore
  BY DEF SomeRebalance, Rebalance
<1> QED
  BY <1>1, <1>2, <1>3, <1>4, <1>5, <1>6 DEF Next, ConsumerNext

-----------------------------------------------------------------------------
(* Ranks.                                                                   *)
LEMMA RankType ==
    ASSUME NEW ids, IsFiniteSet(ids), NEW t
    PROVE  /\ IsFiniteSet({s \in ids : s < t})
           /\ Rank(ids, t) \in Nat
BY FS_Subset, FS_CardinalityType DEF Rank

(* An id is never moved to the front by the insertion of others.            *)
LEMMA RankGrows ==
    ASSUME NEW ids, NEW more, IsFiniteSet(more), ids \subseteq more, NEW t
    PROVE  Rank(ids, t) <= Rank(more, t)
<1>1. {s \in ids : s < t} \subseteq {s \in more : s < t}
  OBVIOUS
<1> QED
  BY <1>1, RankType, FS_Subset DEF Rank

LEMMA RankIsInside ==
    ASSUME NEW ids, ids \subseteq Nat, IsFiniteSet(ids), NEW t \in ids
    PROVE  Rank(ids, t) < Cardinality(ids)
<1>1. t \notin {s \in ids : s < t} /\ t \in Nat
  OBVIOUS
<1>2. /\ Cardinality({s \in ids : s < t}) <= Cardinality(ids)
      /\ Cardinality({s \in ids : s < t}) # Cardinality(ids)
  BY <1>1, FS_Subset
<1>3. Cardinality({s \in ids : s < t}) \in Nat /\ Cardinality(ids) \in Nat
  BY RankType, FS_CardinalityType DEF Rank
<1> QED
  BY <1>2, <1>3 DEF Rank

-----------------------------------------------------------------------------
(* The service under the client.                                            *)
LEMMA ServiceLcInv ==
    ASSUME LcInv, ServiceNext
    PROVE  LcInv'
<1> USE DEF LcInv
<1>1. Next /\ UNCHANGED <<doing, listed, todo, entries, shown, offset, reset>>
  BY DEF ServiceNext
<1>2. HandsInv'
  BY <1>1, ProduceHands, ConsumerHands DEF Next
<1>3. /\ StoreInv'
      /\ index \subseteq index'
  <2>1. \A m \in Records : m.trace_id \in TraceIds /\ m.entry \in Entries
    BY DEF Records
  <2>2. CASE UNCHANGED logStore
    BY <2>2 DEF logStore, StoreInv
  <2>3. ASSUME NEW m \in Records, kv' = [kv EXCEPT ![m.trace_id] = m.entry], UNCHANGED index
        PROVE  StoreInv' /\ index \subseteq index'
    BY <2>1, <2>3 DEF StoreInv
  <2>4. ASSUME NEW m \in Records, index' = index \cup {m.trace_id}, UNCHANGED kv
        PROVE  StoreInv' /\ index \subseteq index'
    BY <2>1, <2>4, FS_AddElement DEF StoreInv
  <2>5. QED
    BY <1>1, <2>2, <2>3, <2>4, ServiceStore
<1>4. /\ saved \subseteq saved'
      /\ \A t \in TraceIds \ saved' : kv'[t] = kv[t] /\ t \notin index' \ index
  BY DEF ServiceNext
<1>5. ClientTypes'
  BY <1>1 DEF ClientTypes
<1>6. NotCleared'
  <2>1. IInv => IInv'
    BY <1>1, NextIInv
  <2>2. QED
    BY <1>1, <1>3, <2>1 DEF NotCleared
<1>7. StatsInv'
  BY <1>1, <1>4 DEF StatsInv, ClientTypes
<1>8. PagesInv'
  <2>1. ASSUME doing = "pages", NEW t \in listed
        PROVE  t \in index' /\ (t \in shown \/ offset <= Rank(index', t))
    <3>1. t \in index /\ (t \in shown \/ offset <= Rank(index, t))
      BY <2>1 DEF PagesInv
    <3>2. Rank(index, t) <= Rank(index', t)
      BY <1>3, RankGrows DEF StoreInv
    <3>3. Rank(index, t) \in Nat /\ Rank(index', t) \in Nat /\ offset \in Nat
      BY <1>3, RankType DEF StoreInv, ClientTypes
    <3>4. QED
      BY <1>3, <3>1, <3>2, <3>3
  <2>2. QED
    BY <1>1, <2>1 DEF PagesInv, PagingMissesNothing
<1>9. ClearInv'
  BY <1>1, <1>4 DEF ClearInv, ClearIsThorough, ClientTypes
<1> QED
  BY <1>2, <1>3, <1>5, <1>6, <1>7, <1>8, <1>9

-----------------------------------------------------------------------------
(* The steps of the client.                                                 *)

(* They leave the replicas alone, and Redis, unless they clear it.          *)
LEMMA ClientLeavesService ==
    ASSUME LcInv, UNCHANGED service
    PROVE  HandsInv' /\ StoreInv' /\ (IInv => IInv')
<1>1. UNCHANGED vars
  BY DEF service, vars
<1>2. IInv => IInv'
  BY <1>1, NextIInv
<1> QED
  BY <1>1, <1>2 DEF LcInv, HandsInv, StoreInv, Message, vars, broker, replica, logStore

LEMMA BeginLcInv ==
    ASSUME LcInv, NEW what \in {"stats", "pages", "clear"}, Begin(what)
    PROVE  LcInv'
<1> USE DEF LcInv
<1>1. HandsInv' /\ StoreInv' /\ (IInv => IInv')
  BY ClientLeavesService DEF Begin
<1>2. /\ doing' = what /\ listed' = index /\ entries' = {} /\ offset' = 0 /\ index' = index
      /\ reset' = (reset \/ what = "clear")
      /\ todo' = IF what = "pages" THEN {} ELSE index
  BY DEF Begin, ListTraceIds, service, logStore
<1>3. ClientTypes'
  BY <1>2 DEF StoreInv, ClientTypes
<1>4. NotCleared'
  BY <1>1, <1>2 DEF NotCleared
<1>5. StatsInv' /\ ClearInv'
  BY <1>2 DEF StatsInv, ClearInv, ClearIsThorough
<1>6. PagesInv'
  <2>1. \A t \in index : Rank(index, t) \in Nat
    BY RankType DEF StoreInv
  <2>2. QED
    BY <1>2, <2>1 DEF PagesInv, PagingMissesNothing
<1> QED
  BY <1>1, <1>3, <1>4, <1>5, <1>6

LEMMA StatsLcInv ==
    ASSUME LcInv, StatsGet \/ StatsAnswer
    PROVE  LcInv'
<1> USE DEF LcInv
<1>1. /\ HandsInv' /\ StoreInv' /\ (IInv => IInv')
      /\ UNCHANGED <<kv, index, listed, shown, offset, saved, reset>>
      /\ doing = "stats"
  BY ClientLeavesService DEF StatsGet, StatsAnswer, service, logStore
<1>2. CASE StatsGet
  <2> DEFINE t == Min(todo)
  <2>1. t \in todo
    BY <1>2, MinIsLeast DEF StatsGet, ClientTypes
  <2>2. /\ UNCHANGED doing
        /\ todo' = todo \ {t}
        /\ entries' = IF kv[t] = None
                        THEN entries
                        ELSE entries \cup {[trace_id |-> t, entry |-> kv[t]]}
    BY <1>2 DEF StatsGet, Get
  <2> HIDE DEF t
  <2>3. /\ t \in listed /\ t \in TraceIds
        /\ kv[t] \in Entries \cup {None}
        /\ ~ reset => kv[t] # None
    BY <2>1 DEF ClientTypes, StoreInv, NotCleared, IInv, NoDanglingIndex
  <2>4. ClientTypes'
    BY <1>1, <2>2, <2>3 DEF ClientTypes, Records
  <2>5. \A r \in entries : r.trace_id # t
    BY <1>1, <2>1 DEF StatsInv
  <2>6. StatsInv'
    <3>1. \A r \in entries' : r.trace_id \in listed' \ todo'
      BY <1>1, <2>2, <2>3 DEF StatsInv
    <3>2. \A r, s \in entries' : r.trace_id = s.trace_id => r = s
      BY <1>1, <2>2, <2>5 DEF StatsInv
    <3>3. ASSUME NEW u \in listed \ (todo' \cup saved), NEW e \in Entries
          PROVE  [trace_id |-> u, entry |-> e] \in entries' <=> kv[u] = e
      <4>1. CASE u = t
        BY <2>2, <2>3, <2>5, <4>1
      <4>2. CASE u # t
        BY <1>1, <2>2, <3>3, <4>2 DEF StatsInv
      <4>3. QED
        BY <4>1, <4>2
    <3>4. ASSUME ~ reset, NEW u \in listed \ todo' PROVE \E r \in entries' : r.trace_id = u
      <4>1. CASE u = t
        <5>1. [trace_id |-> t, entry |-> kv[t]] \in entries'
          BY <2>2, <2>3, <3>4
        <5>2. QED
          BY <4>1, <5>1
      <4>2. CASE u # t
        BY <1>1, <2>2, <3>4, <4>2 DEF StatsInv
      <4>3. QED
        BY <4>1, <4>2
    <3>5. QED
      BY <1>1, <2>2, <3>1, <3>2, <3>3, <3>4 DEF StatsInv
  <2>7. QED
    BY <1>1, <2>2, <2>4, <2>6 DEF NotCleared, PagesInv, PagingMissesNothing, ClearInv, ClearIsThorough
<1>3. CASE StatsAnswer
  <2>1. doing' = "counted" /\ todo = {} /\ UNCHANGED <<todo, entries>>
    BY <1>3 DEF StatsAnswer
  <2>2. QED
    BY <1>1, <2>1 DEF ClientTypes, NotCleared, StatsInv, PagesInv, PagingMissesNothing, ClearInv,
                      ClearIsThorough
<1> QED
  BY <1>2, <1>3

LEMMA PageLcInv ==
    ASSUME LcInv, Page
    PROVE  LcInv'
<1> USE DEF LcInv
<1>1. /\ HandsInv' /\ StoreInv' /\ (IInv => IInv')
      /\ UNCHANGED <<kv, index, listed, todo, entries, saved, reset>>
  BY ClientLeavesService DEF Page, service, logStore
<1>2. /\ doing = "pages"
      /\ shown' = shown \cup {t \in index : Rank(index, t) \in offset .. (offset + Limit) - 1}
      /\ offset' = offset + Limit
      /\ doing' = IF offset + Limit >= Cardinality(index) THEN "paged" ELSE "pages"
  <2>1. /\ doing = "pages"
        /\ shown' = shown \cup {t \in ListTraceIds : Rank(ListTraceIds, t) \in offset .. (offset + Limit) - 1}
        /\ offset' = offset + Limit
        /\ doing' = IF offset + Limit >= Cardinality(ListTraceIds) THEN "paged" ELSE "pages"
    BY Zenon DEF Page
  <2>2. ListTraceIds = index
    BY DEF ListTraceIds
  <2>3. QED
    BY <2>1, <2>2, Zenon
<1>3. offset \in Nat /\ Limit \in Nat /\ Cardinality(index) \in Nat
  BY FS_CardinalityType DEF ClientTypes, StoreInv
<1>4. ASSUME NEW t \in listed
      PROVE  t \in index /\ (t \in shown' \/ offset' <= Rank(index, t))
             /\ Rank(index, t) < Cardinality(index) /\ Rank(index, t) \in Nat
  <2>1. t \in index /\ (t \in shown \/ offset <= Rank(index, t))
    BY <1>2 DEF PagesInv
  <2>2. Rank(index, t) \in Nat /\ Rank(index, t) < Cardinality(index)
    BY <2>1, RankType, RankIsInside DEF StoreInv
  <2>3. QED
    BY <1>2, <1>3, <2>1, <2>2
<1>5. ClientTypes'
  BY <1>1, <1>2, <1>3 DEF ClientTypes
<1>6. PagesInv'
  BY <1>1, <1>2, <1>3, <1>4 DEF PagesInv, PagingMissesNothing
<1>7. NotCleared' /\ StatsInv' /\ ClearInv'
  BY <1>1, <1>2 DEF NotCleared, StatsInv, ClearInv, ClearIsThorough
<1> QED
  BY <1>1, <1>5, <1>6, <1>7

LEMMA ClearLcInv ==
    ASSUME LcInv, ClearKey \/ ClearIndex
    PROVE  LcInv'
<1> USE DEF LcInv
<1>1. /\ doing = "clear" /\ reset
      /\ UNCHANGED <<broker, replica, listed, entries, shown, offset, saved, reset>>
  BY DEF ClearKey, ClearIndex, ClearInv
<1>2. HandsInv'
  BY <1>1 DEF HandsInv, Message, broker, replica
<1>3. CASE ClearKey
  <2>1. PICK t \in todo : DeleteEntry(t) /\ todo' = todo \ {t}
    BY <1>3 DEF ClearKey
  <2>2. UNCHANGED <<index, doing>> /\ kv' = [kv EXCEPT ![t] = None] /\ t \in TraceIds
    BY <1>3, <2>1 DEF ClearKey, DeleteEntry, ClientTypes
  <2>3. StoreInv' /\ ClientTypes'
    BY <1>1, <2>1, <2>2 DEF StoreInv, ClientTypes
  <2>4. ClearInv'
    BY <1>1, <2>1, <2>2 DEF ClearInv, ClearIsThorough, StoreInv
  <2>5. QED
    BY <1>1, <1>2, <2>2, <2>3, <2>4 DEF NotCleared, StatsInv, PagesInv, PagingMissesNothing
<1>4. CASE ClearIndex
  <2>1. /\ todo = {} /\ doing' = "cleared" /\ index' = {} /\ UNCHANGED <<kv, todo>>
    BY <1>4 DEF ClearIndex, DeleteIndex
  <2>2. StoreInv' /\ ClientTypes'
    BY <1>1, <2>1, FS_EmptySet DEF StoreInv, ClientTypes
  <2>3. ClearInv'
    BY <1>1, <2>1 DEF ClearInv, ClearIsThorough
  <2>4. QED
    BY <1>1, <1>2, <2>1, <2>2, <2>3 DEF NotCleared, StatsInv, PagesInv, PagingMissesNothing
<1> QED
  BY <1>3, <1>4

LEMMA NextLcInv == LcInv /\ [LcNext]_LcVars => LcInv'
<1>1. LcInv /\ ServiceNext => LcInv'
  BY ServiceLcInv
<1>2. LcInv /\ ClientNext => LcInv'
  BY BeginLcInv, StatsLcInv, PageLcInv, ClearLcInv DEF ClientNext
<1>3. LcInv /\ UNCHANGED LcVars => LcInv'
  <2> SUFFICES ASSUME LcInv, UNCHANGED LcVars PROVE LcInv'
    OBVIOUS
  <2>1. HandsInv' /\ StoreInv' /\ (IInv => IInv')
    BY ClientLeavesService DEF LcVars
  <2>2. QED
    BY <2>1 DEF LcVars, client, service, logStore, LcInv, ClientTypes, NotCleared, StatsInv,
                PagesInv, PagingMissesNothing, ClearInv, ClearIsThorough
<1> QED
  BY <1>1, <1>2, <1>3 DEF LcNext

(* What the requests have done so far fits what Redis holds.                *)
LEMMA LcInvariance == LcSpec => []LcInv
BY InitLcInv, NextLcInv, PTL DEF LcSpec

-----------------------------------------------------------------------------
(* Entries with different ids are as many as their ids.                     *)
LEMMA AsManyAsIds ==
    ASSUME NEW R, NEW ids, IsFiniteSet(ids),
           \A r \in R : r.trace_id \in ids,
           \A r, s \in R : r.trace_id = s.trace_id => r = s
    PROVE  /\ IsFiniteSet(R)
           /\ IsFiniteSet({r.trace_id : r \in R})
           /\ Cardinality({r.trace_id : r \in R}) = Cardinality(R)
<1> DEFINE own == {r.trace_id : r \in R}
           f == [r \in R |-> r.trace_id]
<1>1. f \in [R -> ids] /\ \A r, s \in R : f[r] = f[s] => r = s
  OBVIOUS
<1>2. IsFiniteSet(R)
  <2> HIDE DEF f
  <2>1. QED
    BY <1>1, FitsInto
<1>3. f \in [R -> own] /\ \A t \in own : \E r \in R : f[r] = t
  OBVIOUS
<1> HIDE DEF f
<1>4. IsFiniteSet(own) /\ Cardinality(own) = Cardinality(R)
  BY <1>1, <1>2, <1>3, SameSize
<1> QED
  BY <1>2, <1>4

LEMMA StatsAreRight == LcInv => StatsCountWhatIsListed
<1> SUFFICES ASSUME LcInv, doing = "counted"
             PROVE  LET stats == ComputeLogStats
                        counts == stats.level_distribution
                        left(e) == {t \in listed \ saved : kv[t] = e}
                    IN  /\ stats.total_logs <= Cardinality(listed)
                        /\ ~ reset => stats.total_logs = Cardinality(listed)
                        /\ \A e \in Entries : left(e) # {} => e \in DOMAIN counts
                        /\ \A e \in DOMAIN counts :
                             counts[e] - Cardinality(left(e)) \in 0 .. Cardinality(listed \cap saved)
  BY DEF StatsCountWhatIsListed
<1> DEFINE ids(R) == {r.trace_id : r \in R}
           with(e) == {r \in entries : r.entry = e}
           left(e) == {t \in listed \ saved : kv[t] = e}
<1>1. /\ IsFiniteSet(listed)
      /\ entries \in SUBSET Records
      /\ todo = {}
      /\ \A r \in entries : r.trace_id \in listed
      /\ \A r, s \in entries : r.trace_id = s.trace_id => r = s
      /\ \A t \in listed \ saved, e \in Entries :
           [trace_id |-> t, entry |-> e] \in entries <=> kv[t] = e
      /\ ~ reset => \A t \in listed : \E r \in entries : r.trace_id = t
  BY DEF LcInv, ClientTypes, StatsInv
<1>2. ASSUME NEW R \in SUBSET entries
      PROVE  /\ IsFiniteSet(R) /\ IsFiniteSet(ids(R))
             /\ Cardinality(ids(R)) = Cardinality(R)
             /\ ids(R) \subseteq listed
  <2>1. /\ \A r \in R : r.trace_id \in listed
        /\ \A r, s \in R : r.trace_id = s.trace_id => r = s
    BY <1>1
  <2>2. /\ IsFiniteSet(R) /\ IsFiniteSet({r.trace_id : r \in R})
        /\ Cardinality({r.trace_id : r \in R}) = Cardinality(R)
    BY <1>1, <2>1, AsManyAsIds
  <2>3. QED
    BY <2>1, <2>2
<1>3. Cardinality(entries) <= Cardinality(listed)
  BY <1>1, <1>2, FS_Subset
<1>4. ~ reset => Cardinality(entries) = Cardinality(listed)
  <2>1. ~ reset => ids(entries) = listed
    BY <1>1
  <2>2. QED
    BY <1>2, <2>1
<1>5. ASSUME NEW e \in Entries
      PROVE  /\ left(e) \subseteq ids(with(e))
             /\ ids(with(e)) \ left(e) \subseteq listed \cap saved
  <2>1. ASSUME NEW t \in left(e) PROVE t \in ids(with(e))
    <3>1. [trace_id |-> t, entry |-> e] \in with(e)
      BY <1>1
    <3>2. QED
      BY <3>1
  <2>2. ASSUME NEW r \in with(e), r.trace_id \notin saved PROVE r.trace_id \in left(e)
    <3>1. r = [trace_id |-> r.trace_id, entry |-> e] /\ r.trace_id \in listed \ saved
      BY <1>1, <2>2 DEF Records
    <3>2. QED
      BY <1>1, <3>1
  <2>3. QED
    BY <1>1, <2>1, <2>2
<1>6. ASSUME NEW e \in Entries
      PROVE  Cardinality(with(e)) - Cardinality(left(e)) \in 0 .. Cardinality(listed \cap saved)
  <2> DEFINE own == ids(with(e))
  <2>1. with(e) \in SUBSET entries
    OBVIOUS
  <2>2. IsFiniteSet(own) /\ Cardinality(own) = Cardinality(with(e))
    BY <1>2, <2>1
  <2>3. left(e) \subseteq own /\ own \ left(e) \subseteq listed \cap saved
    BY <1>5
  <2> HIDE DEF own, left, with
  <2>4. own \cap left(e) = left(e)
    BY <2>3
  <2>5. /\ IsFiniteSet(own \ left(e))
        /\ Cardinality(own \ left(e)) = Cardinality(own) - Cardinality(left(e))
    BY <2>2, <2>4, FS_Difference
  <2>6. IsFiniteSet(listed \cap saved)
    BY <1>1, FS_Intersection
  <2>7. Cardinality(own \ left(e)) <= Cardinality(listed \cap saved)
    BY <2>3, <2>6, FS_Subset
  <2>8. Cardinality(own \ left(e)) \in Nat /\ Cardinality(listed \cap saved) \in Nat
    BY <2>5, <2>6, FS_CardinalityType
  <2>9. QED
    BY <2>2, <2>5, <2>7, <2>8
<1>7. ASSUME NEW e \in Entries, left(e) # {} PROVE e \in {r.entry : r \in entries}
  <2>1. PICK t \in listed \ saved : kv[t] = e
    BY <1>7
  <2>2. [trace_id |-> t, entry |-> e] \in entries
    BY <1>1, <2>1
  <2>3. QED
    BY <2>2
<1>8. {r.entry : r \in entries} \subseteq Entries
  BY <1>1 DEF Records
<1> QED
  BY <1>3, <1>4, <1>6, <1>7, <1>8 DEF ComputeLogStats

(* _stats counts every id of its listing once; each count is right up to    *)
(* the ids that were saved while it asked, for any number of replicas.      *)
THEOREM StatsAreOfTheListing == LcSpec => []StatsCountWhatIsListed
BY LcInvariance, StatsAreRight, PTL

(* A client that pages through /logs with any limit misses no id that was   *)
(* listed when it began.                                                    *)
THEOREM NoPageMisses == LcSpec => []PagingMissesNothing
<1>1. LcInv => PagingMissesNothing
  BY DEF LcInv, PagesInv
<1> QED
  BY <1>1, LcInvariance, PTL

(* clear leaves nothing behind of what it listed and nobody wrote since.    *)
THEOREM NothingSurvivesAClear == LcSpec => []ClearIsThorough
<1>1. LcInv => ClearIsThorough
  BY DEF LcInv, ClearInv
<1> QED
  BY <1>1, LcInvariance, PTL
=============================================================================
