---------------------------- MODULE DiagnosisProofs ----------------------------
(***************************************************************************)
(* What a diagnosis may rely on, for every knowledge base, text, number of *)
(* replicas, of points per query and of LLM attempts.                      *)
(*                                                                         *)
(* The first part is about the rebuilds of the replicas.  The bound on the *)
(* copies rests on a budget: a replica may upsert only after a create of   *)
(* its own, and a create finds no collection and leaves an empty one.  So  *)
(* the copies made and the upserts still to come are together at most one  *)
(* for each replica.                                                       *)
(*                                                                         *)
(* The argument about retrieval counts points: a query that misses a near  *)
(* entry has returned k points, all of entries at least as near, each of   *)
(* which is there at most once per replica.                                *)
(***************************************************************************)
EXTENDS Diagnosis, FiniteOrders

USE KbAssumption, ReplicasAssumption, MissingIsNoCollection DEF Replicas

Upserting == {r \in Replicas : step[r] = "upsert"}

Budget == Exists => \A t \in Templates : points[t] + Cardinality(Upserting) <= Cardinality(Replicas)

(* A replica is building exactly while it starts, and builds the whole      *)
(* knowledge base.                                                          *)
Startups ==
    \A r \in Replicas :
        /\ step[r] = "none" <=> up[r] # "starting"
        /\ up[r] = "starting" => building[r] = Kb

KbInv == KbTypeOK /\ Startups /\ Budget /\ WholeWhenAllServe

LEMMA Counts ==
    ASSUME NEW S, S \subseteq Replicas
    PROVE  /\ IsFiniteSet(S) /\ Cardinality(S) \in Nat /\ Cardinality(Replicas) \in Nat
           /\ Cardinality(S) <= Cardinality(Replicas)
BY FS_Subset, FS_CardinalityType

LEMMA KbInitInv == KbInit => KbInv
<1> SUFFICES ASSUME KbInit PROVE KbInv
  OBVIOUS
<1>1. KbTypeOK
  BY DEF KbInit, VectorStoreInit, KbTypeOK, VectorStoreTypeOK
<1>2. Startups
  BY DEF KbInit, VectorStoreInit, Startups
<1>3. Budget
  BY DEF KbInit, VectorStoreInit, Budget, Exists
<1>4. WholeWhenAllServe
  BY DEF KbInit, VectorStoreInit, WholeWhenAllServe
<1> QED
  BY <1>1, <1>2, <1>3, <1>4 DEF KbInv

(* Steps after which some replica does not serve, and which neither create  *)
(* nor upsert: points may be deleted, and fewer replicas may have an upsert *)
(* to come.                                                                 *)
LEMMA NoNewPoints ==
    ASSUME KbInv, KbTypeOK', NEW r \in Replicas,
           points' \in {points, Missing},
           step'[r] # "upsert" \/ step'[r] = step[r], up'[r] # "serving",
           \A o \in Replicas \ {r} : /\ step'[o] = step[o]
                                     /\ up'[o] = up[o]
                                     /\ building'[o] = building[o],
           step'[r] = "none" <=> up'[r] # "starting",
           up'[r] = "starting" => building'[r] = Kb
    PROVE  KbInv'
<1>1. Startups'
  BY DEF KbInv, Startups
<1>2. Upserting' \subseteq Upserting /\ Upserting \subseteq Replicas
  BY DEF Upserting
<1>3. Cardinality(Upserting') <= Cardinality(Upserting)
  BY <1>2, Counts, FS_Subset
<1>4. Budget'
  <2> SUFFICES ASSUME Exists', NEW t \in Templates
               PROVE  points'[t] + Cardinality(Upserting') <= Cardinality(Replicas)
    BY DEF Budget
  <2>1. points' = points /\ Exists
    BY DEF Exists
  <2>2. points[t] \in Nat
    BY <2>1 DEF KbInv, KbTypeOK, VectorStoreTypeOK, Exists
  <2>3. points[t] + Cardinality(Upserting) <= Cardinality(Replicas)
    BY <2>1 DEF KbInv, Budget
  <2>4. /\ Cardinality(Upserting) \in Nat /\ Cardinality(Upserting') \in Nat
        /\ Cardinality(Replicas) \in Nat
    BY <1>2, Counts
  <2> QED
    BY <1>3, <2>1, <2>2, <2>3, <2>4
<1>5. WholeWhenAllServe'
  BY DEF WholeWhenAllServe
<1> QED
  BY <1>1, <1>4, <1>5 DEF KbInv

LEMMA KbNextInv == KbInv /\ [KbNext]_kbVars => KbInv'
<1> SUFFICES ASSUME KbInv, [KbNext]_kbVars PROVE KbInv'
  OBVIOUS
<1> USE DEF Goto, Leave
<1>1. ASSUME NEW r \in Replicas, Start(r) PROVE KbInv'
  <2>1. KbTypeOK'
    BY <1>1 DEF Start, BuildIndex, KbInv, KbTypeOK, VectorStoreTypeOK
  <2> QED
    BY <1>1, <2>1, NoNewPoints DEF Start, BuildIndex, KbInv, KbTypeOK, VectorStoreTypeOK
<1>2. ASSUME NEW r \in Replicas, CheckExists(r), UNCHANGED up PROVE KbInv'
  <2>1. KbTypeOK'
    BY <1>2 DEF CheckExists, KbInv, KbTypeOK, VectorStoreTypeOK
  <2>2. up[r] = "starting" /\ building[r] = Kb
    BY <1>2 DEF CheckExists, KbInv, Startups
  <2> QED
    BY <1>2, <2>1, <2>2, NoNewPoints DEF CheckExists, KbInv, KbTypeOK, VectorStoreTypeOK
<1>3. ASSUME NEW r \in Replicas, DeleteCollection(r), UNCHANGED up PROVE KbInv'
  <2>1. KbTypeOK'
    BY <1>3 DEF DeleteCollection, KbInv, KbTypeOK, VectorStoreTypeOK
  <2>2. up[r] = "starting" /\ building[r] = Kb
    BY <1>3 DEF DeleteCollection, KbInv, Startups
  <2> QED
    BY <1>3, <2>1, <2>2, NoNewPoints DEF DeleteCollection, KbInv, KbTypeOK, VectorStoreTypeOK
<1>4. ASSUME NEW r \in Replicas, StartupFails(r) \/ Kill(r) PROVE KbInv'
  <2>1. KbTypeOK'
    BY <1>4 DEF StartupFails, BuildRaises, Kill, KbInv, KbTypeOK, VectorStoreTypeOK
  <2> QED
    BY <1>4, <2>1, NoNewPoints
    DEF StartupFails, BuildRaises, Kill, KbInv, KbTypeOK, VectorStoreTypeOK
(* A create opens a new budget: nothing is stored, and the upserts to come  *)
(* are at most one for each replica.                                        *)
<1>5. ASSUME NEW r \in Replicas, CreateCollection(r), UNCHANGED up PROVE KbInv'
  <2>1. KbTypeOK'
    BY <1>5 DEF CreateCollection, KbInv, KbTypeOK, VectorStoreTypeOK
  <2>2. up[r] = "starting"
    BY <1>5 DEF CreateCollection, KbInv, Startups
  <2>3. Startups'
    BY <1>5, <2>2 DEF CreateCollection, KbInv, Startups, KbTypeOK, VectorStoreTypeOK
  <2>4. Budget'
    <3>1. Upserting' \subseteq Replicas
      BY DEF Upserting
    <3>2. \A t \in Templates : points'[t] = 0
      BY <1>5 DEF CreateCollection
    <3> QED
      BY <3>1, <3>2, Counts DEF Budget
  <2>5. WholeWhenAllServe'
    BY <1>5, <2>2 DEF WholeWhenAllServe
  <2> QED
    BY <2>1, <2>3, <2>4, <2>5 DEF KbInv
(* An upsert turns one upsert to come into one copy.                        *)
<1>6. ASSUME NEW r \in Replicas, Serve(r) PROVE KbInv'
  <2>1. /\ step[r] = "upsert" /\ up[r] = "starting" /\ building[r] = Kb
        /\ points' = IF Exists
                       THEN [t \in Templates |-> points[t] + (IF t \in Kb THEN 1 ELSE 0)]
                       ELSE Missing
        /\ Exists \/ Kb = {}
        /\ step' = [step EXCEPT ![r] = "none"]
        /\ building' = [building EXCEPT ![r] = {}]
        /\ up' = [up EXCEPT ![r] = "serving"]
    BY <1>6 DEF Serve, Upsert, KbInv, Startups
  <2>2. KbTypeOK'
    BY <2>1 DEF KbInv, KbTypeOK, VectorStoreTypeOK, Exists
  <2>3. Startups'
    BY <2>1 DEF KbInv, Startups, KbTypeOK, VectorStoreTypeOK
  <2>4. Budget'
    <3> SUFFICES ASSUME Exists', NEW t \in Templates
                 PROVE  points'[t] + Cardinality(Upserting') <= Cardinality(Replicas)
      BY DEF Budget
    <3>1. Exists
      BY <2>1 DEF Exists
    <3>2. points[t] \in Nat /\ points'[t] \in {points[t], points[t] + 1}
      BY <2>1, <3>1 DEF KbInv, KbTypeOK, VectorStoreTypeOK, Exists
    <3>3. Upserting' = Upserting \ {r} /\ r \in Upserting /\ Upserting \subseteq Replicas
      BY <2>1 DEF Upserting, KbInv, KbTypeOK, VectorStoreTypeOK
    <3>4. Cardinality(Upserting') = Cardinality(Upserting) - 1
      BY <3>3, Counts, FS_RemoveElement
    <3>5. points[t] + Cardinality(Upserting) <= Cardinality(Replicas)
      BY <3>1 DEF KbInv, Budget
    <3> QED
      BY <3>2, <3>3, <3>4, <3>5, Counts
  <2>5. WholeWhenAllServe'
    <3>1. CASE Exists
      <4>1. points' \in [Templates -> Nat]
        BY <2>1, <3>1 DEF KbInv, KbTypeOK, VectorStoreTypeOK, Exists
      <4>2. ASSUME NEW t \in Kb PROVE points'[t] > 0
        BY <2>1, <3>1 DEF KbInv, KbTypeOK, VectorStoreTypeOK, Exists
      <4>3. Exists'
        BY <4>1 DEF Exists
      <4> QED
        BY <4>2, <4>3 DEF WholeWhenAllServe, Found
    <3>2. CASE Kb = {}
      BY <3>2 DEF WholeWhenAllServe
    <3> QED
      BY <2>1, <3>1, <3>2
  <2> QED
    BY <2>2, <2>3, <2>4, <2>5 DEF KbInv
<1>7. CASE UNCHANGED kbVars
  BY <1>7 DEF kbVars, vectorStore, KbInv, KbTypeOK, VectorStoreTypeOK, Startups, Budget, Upserting,
              WholeWhenAllServe, Exists, Found
<1> QED
  BY <1>1, <1>2, <1>3, <1>4, <1>5, <1>6, <1>7 DEF KbNext, Request

THEOREM KbInvariance == KbSpec => []KbInv
BY KbInitInv, KbNextInv, PTL DEF KbSpec

(* However replicas start, fail and are killed, build_index (main.py:36-41, *)
(* vector_store_qdrant.py:52-81) stores an entry at most once per replica.  *)
THEOREM CopiesAreBounded == KbSpec => []OneCopyPerReplica
<1>1. KbInv => OneCopyPerReplica
  <2> SUFFICES ASSUME KbInv, Exists, NEW t \in Templates
               PROVE  points[t] <= Cardinality(Replicas)
    BY DEF OneCopyPerReplica
  <2>1. points[t] \in Nat
    BY DEF KbInv, KbTypeOK, VectorStoreTypeOK, Exists
  <2>2. points[t] + Cardinality(Upserting) <= Cardinality(Replicas)
    BY DEF KbInv, Budget
  <2>3. Upserting \subseteq Replicas
    BY DEF Upserting
  <2> QED
    BY <2>1, <2>2, <2>3, Counts
<1> QED
  BY <1>1, KbInvariance, PTL

(* When all replicas are through their startup, the knowledge base is whole *)
(* although each of them deleted it on the way.                             *)
THEOREM KbIsWholeWhenAllServe == KbSpec => []WholeWhenAllServe
<1>1. KbInv => WholeWhenAllServe
  BY DEF KbInv
<1> QED
  BY <1>1, KbInvariance, PTL
-----------------------------------------------------------------------------
HIDE DEF Replicas

USE RetrievalAssumption, RetriesAssumption

(* The knowledge base.  Nothing else is ever stored.                        *)
OnlyKb == Exists => \A t \in Templates \ Kb : points[t] = 0

LEMMA InitOnlyKb == KbInit => OnlyKb
BY DEF KbInit, VectorStoreInit, OnlyKb, Exists

LEMMA KeepsOnlyKb == OnlyKb /\ UNCHANGED kbVars => OnlyKb'
BY DEF kbVars, vectorStore, OnlyKb, Exists

LEMMA NextOnlyKb ==
    ASSUME KbInv, OnlyKb, KbNext
    PROVE  OnlyKb'
<1> USE DEF OnlyKb, Exists
<1>1. ASSUME NEW r \in Replicas, Start(r) \/ StartupFails(r) \/ Kill(r) PROVE OnlyKb'
  BY <1>1 DEF Start, BuildIndex, StartupFails, BuildRaises, Kill
<1>2. ASSUME NEW r \in Replicas, Request(r) PROVE OnlyKb'
  BY <1>2 DEF Request, CheckExists, DeleteCollection, CreateCollection
<1>3. ASSUME NEW r \in Replicas, Serve(r) PROVE OnlyKb'
  <2>1. building[r] = Kb
    BY <1>3 DEF Serve, Upsert, KbInv, Startups
  <2>2. QED
    BY <1>3, <2>1 DEF Serve, Upsert
<1>4. QED
  BY <1>1, <1>2, <1>3 DEF KbNext

(* There are points of the knowledge base only, finitely many, and if all   *)
(* replicas serve, one of each entry and at most one more per replica.      *)
LEMMA PointsAreKb ==
    ASSUME KbInv, OnlyKb
    PROVE  /\ \A p \in Points : p[1] \in Kb
           /\ IsFiniteSet(Points)
           /\ Points \subseteq Kb \X (1 .. Cardinality(Replicas))
<1>1. SUFFICES Points \subseteq Kb \X (1 .. Cardinality(Replicas))
  <2>1. IsFiniteSet(1 .. Cardinality(Replicas))
    BY FS_Interval, Counts
  <2>2. IsFiniteSet(Kb \X (1 .. Cardinality(Replicas)))
    BY <2>1, FS_Product
  <2>3. QED
    BY <1>1, <2>2, FS_Subset
<1>2. SUFFICES ASSUME NEW p \in Points PROVE p \in Kb \X (1 .. Cardinality(Replicas))
  OBVIOUS
<1>3. Exists /\ points \in [Templates -> Nat]
  BY DEF Points, Exists, KbInv, KbTypeOK, VectorStoreTypeOK
<1>4. PICK t \in Templates : p \in {t} \X (1 .. points[t])
  BY <1>3 DEF Points, Exists
<1>5. t \in Kb
  BY <1>3, <1>4 DEF OnlyKb
<1>6. points[t] <= Cardinality(Replicas)
  <2>1. points[t] + Cardinality(Upserting) <= Cardinality(Replicas)
    BY <1>3 DEF KbInv, Budget
  <2>2. Upserting \subseteq Replicas
    BY DEF Upserting
  <2>3. QED
    BY <1>3, <2>1, <2>2, Counts
<1>7. QED
  BY <1>3, <1>4, <1>5, <1>6, Counts

LEMMA WholeKbHasPoints ==
    ASSUME KbInv, AllServe, NEW t \in Kb
    PROVE  <<t, 1>> \in Points
<1>1. t \in Found
  BY DEF KbInv, WholeWhenAllServe, AllServe
<1>2. Exists /\ points[t] > 0 /\ points[t] \in Nat
  BY <1>1 DEF Found, Exists, KbInv, KbTypeOK, VectorStoreTypeOK
<1>3. <<t, 1>> \in {t} \X (1 .. points[t])
  BY <1>2
<1>4. Points = UNION {{s} \X (1 .. points[s]) : s \in Templates}
  BY <1>2 DEF Points, Exists
<1>5. t \in Templates
  BY KbAssumption
<1>6. QED
  BY <1>3, <1>4, <1>5

-----------------------------------------------------------------------------
(* What is asked for.                                                       *)

LEMMA QueriesAreThere ==
    ASSUME text \in Texts
    PROVE  /\ Queries(text) \subseteq Nat /\ Queries(text) # {}
           /\ \A i \in Queries(text), t \in Templates : Distance(QueryText(i), t) \in Nat
<1>1. DOMAIN text \subseteq Nat \ {0}
  OBVIOUS
<1>2. Queries(text) \subseteq DOMAIN text \/ Queries(text) = {0}
  BY DEF Queries
<1>3. ASSUME NEW i \in Queries(text), NEW t \in Templates
      PROVE  Distance(QueryText(i), t) \in Nat
  <2>1. CASE i = 0
    BY <2>1 DEF QueryText
  <2>2. CASE i # 0
    <3>1. i \in DOMAIN text /\ QueryText(i) = text[i]
      BY <1>2, <2>2 DEF QueryText
    <3>2. QED
      BY <3>1
  <2>3. QED
    BY <2>1, <2>2
<1>4. Queries(text) # {}
  BY DEF Queries
<1>5. QED
  BY <1>1, <1>2, <1>3, <1>4

LEMMA NearnessIsLeast ==
    ASSUME text \in Texts, NEW t \in Templates
    PROVE  /\ Nearness(t) \in Nat
           /\ \E i \in Queries(text) : Nearness(t) = Distance(QueryText(i), t)
           /\ \A i \in Queries(text) : Nearness(t) <= Distance(QueryText(i), t)
<1> DEFINE distances == {Distance(QueryText(i), t) : i \in Queries(text)}
<1>1. distances \subseteq Nat /\ distances # {}
  BY QueriesAreThere
<1>2. /\ Min(distances) \in distances
      /\ \A d \in distances : Min(distances) <= d
  <2> HIDE DEF distances
  <2>1. QED
    BY <1>1, MinIsLeast
<1>3. Nearness(t) = Min(distances)
  BY DEF Nearness
<1>4. QED
  BY <1>1, <1>2, <1>3

(* The entries that may take the place of t.                                *)
Nearer(t) == {s \in Candidates \ {t} : Nearness(s) <= Nearness(t)}

Fits(t) == Cardinality(Nearer(t)) * Cardinality(Replicas) < K

LEMMA NearerIsFinite ==
    ASSUME NEW t
    PROVE  /\ IsFiniteSet(Nearer(t)) /\ Cardinality(Nearer(t)) \in Nat
           /\ Cardinality(Replicas) \in Nat \ {0}
           /\ Fits(t) => Cardinality(Nearer(t)) < K
<1>1. IsFiniteSet(Nearer(t)) /\ Cardinality(Nearer(t)) \in Nat
  <2>1. Nearer(t) \subseteq Kb
    BY DEF Nearer, Candidates
  <2>2. QED
    BY <2>1, FS_Subset, FS_CardinalityType
<1>2. Cardinality(Replicas) \in Nat \ {0}
  <2>1. IsFiniteSet(Replicas) /\ Replicas # {}
    BY ReplicasAssumption DEF Replicas
  <2>2. Cardinality(Replicas) \in Nat /\ Cardinality(Replicas) # 0
    BY <2>1, FS_CardinalityType, FS_EmptySet
  <2>3. QED
    BY <2>2
<1>3. \A n \in Nat, m \in Nat \ {0} : n <= n * m
  OBVIOUS
<1>4. QED
  BY <1>1, <1>2, <1>3 DEF Fits

LEMMA WhatIsRetrieved ==
    /\ NearestAreRetrieved
         <=> (place = "report" /\ calm => \A t \in Candidates : Fits(t) => t \in context)
    /\ NearestAreRetrieved'
         <=> (place' = "report" /\ calm' => \A t \in Candidates' : Fits(t)' => t \in context')
BY DEF NearestAreRetrieved, Fits, Nearer

(* Nothing of this changes while the request goes on.                       *)
LEMMA SameText ==
    ASSUME text' = text
    PROVE  /\ Queries(text)' = Queries(text)
           /\ \A i : QueryText(i)' = QueryText(i)
           /\ \A t : Nearness(t)' = Nearness(t)
           /\ Candidates' = Candidates
           /\ \A t : Nearer(t)' = Nearer(t) /\ (Fits(t)' <=> Fits(t))
BY DEF Queries, QueryText, Nearness, Candidates, Nearer, Fits

(* A query for the nearest line of an entry that fits finds the entry: the  *)
(* K points it returns instead would all be copies of nearer ones.          *)
LEMMA NearestIsFound ==
    ASSUME KbInv, OnlyKb, AllServe, text \in Texts,
           NEW i \in Queries(text), NEW H \in Hits(QueryText(i)),
           NEW t \in Candidates, Fits(t), Distance(QueryText(i), t) = Nearness(t)
    PROVE  \E h \in H : h[1] = t
<1> DEFINE R == 1 .. Cardinality(Replicas)
<1>1. SUFFICES ASSUME \A h \in H : h[1] # t PROVE FALSE
  OBVIOUS
<1>2. t \in Kb /\ t \in Templates /\ Nearness(t) <= RAG_MAX_DISTANCE
  BY KbAssumption DEF Candidates
<1>3. <<t, 1>> \in Points \ H
  BY <1>1, <1>2, WholeKbHasPoints
<1>4. /\ H \subseteq Points
      /\ Cardinality(H) = Min({K, Cardinality(Points)})
      /\ \A h \in H : Distance(QueryText(i), h[1]) <= Nearness(t)
  BY <1>3 DEF Hits
<1>5. ASSUME NEW h \in H PROVE h \in Nearer(t) \X R
  <2>1. h \in Kb \X R
    BY <1>4, PointsAreKb
  <2>2. h[1] \in Kb /\ h[1] \in Templates
    BY <2>1, KbAssumption
  <2>3. /\ Nearness(h[1]) \in Nat /\ Nearness(t) \in Nat
        /\ Nearness(h[1]) <= Distance(QueryText(i), h[1])
        /\ Distance(QueryText(i), h[1]) \in Nat
    BY <1>2, <2>2, NearnessIsLeast, QueriesAreThere
  <2>4. Nearness(h[1]) <= Nearness(t) /\ Nearness(h[1]) <= RAG_MAX_DISTANCE
    BY <1>2, <1>4, <2>3
  <2>5. h[1] \in Nearer(t)
    BY <1>1, <2>2, <2>4 DEF Nearer, Candidates
  <2>6. QED
    BY <2>1, <2>5
<1>6. /\ IsFiniteSet(Nearer(t) \X R)
      /\ Cardinality(Nearer(t) \X R) = Cardinality(Nearer(t)) * Cardinality(Replicas)
  <2>1. IsFiniteSet(R) /\ Cardinality(R) = Cardinality(Replicas)
    BY NearerIsFinite, FS_Interval
  <2>2. QED
    BY <2>1, NearerIsFinite, FS_Product
<1>7. Cardinality(H) < K /\ Cardinality(H) \in Nat
  <2>1. H \subseteq Nearer(t) \X R
    BY <1>5
  <2>2. Cardinality(H) <= Cardinality(Nearer(t) \X R) /\ IsFiniteSet(H)
    BY <1>6, <2>1, FS_Subset
  <2>3. Cardinality(H) \in Nat /\ Cardinality(Nearer(t) \X R) \in Nat
    BY <1>6, <2>2, FS_CardinalityType
  <2>4. QED
    BY <1>6, <2>2, <2>3 DEF Fits
<1>8. IsFiniteSet(Points) /\ Cardinality(Points) \in Nat
  BY PointsAreKb, FS_CardinalityType
<1>9. Cardinality(H) \in {K, Cardinality(Points)}
  BY <1>4, <1>8, MinIsLeast
<1>10. H = Points
  BY <1>4, <1>7, <1>8, <1>9, FS_Subset
<1>11. QED
  BY <1>3, <1>10

-----------------------------------------------------------------------------
(* The inductive invariant.                                                 *)

RetryInv ==
    /\ calls <= LLM_MAX_RETRIES
    /\ Calling => calls = attempt
    /\ place # "idle" => answer = "none"
    /\ answer = "limited" => calls = LLM_MAX_RETRIES

(* Only research has queries to make; the entries met are of the knowledge  *)
(* base, at the distance of a line that was asked for.                      *)
ResearchInv ==
    /\ place # "research" => todo = {}
    /\ DOMAIN best \subseteq Kb
    /\ place = "research" =>
         \A t \in DOMAIN best : \E i \in Queries(text) : best[t] = Distance(QueryText(i), t)
    /\ calm => AllServe

(* What fits will still be found, or has been.                              *)
NearestInv ==
    place = "research" /\ calm =>
        \A t \in Candidates :
            Fits(t) => \/ \E i \in todo : Distance(QueryText(i), t) = Nearness(t)
                       \/ t \in DOMAIN best /\ best[t] = Nearness(t)

IInv ==
    /\ KbInv
    /\ OnlyKb
    /\ TypeOK
    /\ RetryInv
    /\ ResearchInv
    /\ NearestInv
    /\ NothingFarIsRetrieved
    /\ NearestAreRetrieved

LEMMA InitInv == Init => IInv
<1> SUFFICES ASSUME Init PROVE IInv
  OBVIOUS
<1>1. KbInv /\ OnlyKb
  BY KbInitInv, InitOnlyKb DEF Init
<1>2. TypeOK
  <2>1. DOMAIN best = {} /\ report.flags = {}
    BY DEF Init, NoReport
  <2>2. 0 \in 0 .. LLM_MAX_RETRIES - 1
    OBVIOUS
  <2>3. QED
    BY <1>1, <2>1, <2>2 DEF Init, TypeOK, KbInv
<1>3. RetryInv /\ ResearchInv
  BY DEF Init, RetryInv, ResearchInv, Calling
<1>4. NearestInv /\ NothingFarIsRetrieved /\ NearestAreRetrieved
  BY DEF Init, NearestInv, NothingFarIsRetrieved, NearestAreRetrieved
<1>5. QED
  BY <1>1, <1>2, <1>3, <1>4 DEF IInv

(* The knowledge base under the steps of the request, and of the replicas.  *)
LEMMA NextKb ==
    ASSUME KbInv, OnlyKb, replica \in Replicas, [Next]_vars
    PROVE  KbInv' /\ OnlyKb'
<1>1. KbNext \/ UNCHANGED kbVars
  <2>1. CASE Killed
    BY <2>1 DEF Killed, KbNext
  <2>2. CASE Rebuild
    BY <2>2 DEF Rebuild
  <2>3. CASE Step
    BY <2>3 DEF Step, RateLimited, GivesUp, LlmRaises, Triaged, Query, QueryRefused,
                QueryRaises, Retrieved, Report
  <2>4. QED
    BY <2>1, <2>2, <2>3 DEF Next, Diagnose, vars
<1>2. KbInv'
  BY <1>1, KbNextInv
<1>3. OnlyKb'
  BY <1>1, NextOnlyKb, KeepsOnlyKb
<1>4. QED
  BY <1>2, <1>3

(* A step that leaves the request where it is.                              *)
LEMMA GoesOnInv ==
    ASSUME IInv, KbInv', OnlyKb', GoesOn
    PROVE  IInv'
<1>1. TypeOK'
  BY SameText DEF IInv, TypeOK, GoesOn, KbInv, llm, result
<1>2. RetryInv'
  BY DEF IInv, RetryInv, Calling, GoesOn, llm, result
<1>3. ResearchInv'
  BY SameText DEF IInv, ResearchInv, GoesOn
<1>4. NearestInv'
  BY SameText DEF IInv, NearestInv, GoesOn
<1>5. NothingFarIsRetrieved'
  BY SameText DEF IInv, NothingFarIsRetrieved, GoesOn
<1>6. NearestAreRetrieved'
  BY SameText, WhatIsRetrieved DEF IInv, GoesOn
<1>7. QED
  BY <1>1, <1>2, <1>3, <1>4, <1>5, <1>6 DEF IInv

(* A step that ends the request.                                            *)
LEMMA EndInv ==
    ASSUME IInv, KbInv', OnlyKb', NEW a \in {"ok", "limited", "error", "lost"}, End(a),
           UNCHANGED <<replica, text, context, attempt>>,
           report'.flags \subseteq {"destructive_command_removed", "unsupported_path_removed"},
           calls' \in Nat, calls' <= LLM_MAX_RETRIES, a = "limited" => calls' = LLM_MAX_RETRIES
    PROVE  IInv'
<1>1. TypeOK'
  <2>1. DOMAIN best' = {}
    BY DEF End
  <2>2. QED
    BY <2>1 DEF IInv, TypeOK, End, KbInv
<1>2. RetryInv' /\ ResearchInv'
  BY DEF RetryInv, ResearchInv, Calling, End
<1>3. NearestInv' /\ NothingFarIsRetrieved' /\ NearestAreRetrieved'
  BY DEF NearestInv, NothingFarIsRetrieved, NearestAreRetrieved, End
<1>4. QED
  BY <1>1, <1>2, <1>3 DEF IInv

LEMMA DiagnoseInv ==
    ASSUME IInv, NEW r \in Replicas, NEW message \in Texts, Diagnose(r, message)
    PROVE  IInv'
<1>1. KbInv' /\ OnlyKb'
  BY NextKb DEF IInv, TypeOK, Next
<1>2. TypeOK'
  BY <1>1 DEF IInv, TypeOK, ResearchInv, Diagnose, KbInv, NoReport, kbVars
<1>3. RetryInv'
  BY DEF RetryInv, Calling, Diagnose
<1>4. ResearchInv'
  BY DEF IInv, ResearchInv, Diagnose, AllServe, kbVars
<1>5. NearestInv' /\ NothingFarIsRetrieved' /\ NearestAreRetrieved'
  BY DEF NearestInv, NothingFarIsRetrieved, NearestAreRetrieved, Diagnose
<1>6. QED
  BY <1>1, <1>2, <1>3, <1>4, <1>5 DEF IInv

(* The LLM raises or answers: one call more, of attempt + 1 so far.         *)
LEMMA CallsInv ==
    ASSUME IInv, Calling
    PROVE  /\ calls + 1 \in Nat /\ calls + 1 <= LLM_MAX_RETRIES
           /\ attempt = LLM_MAX_RETRIES - 1 => calls + 1 = LLM_MAX_RETRIES
BY DEF IInv, TypeOK, RetryInv

LEMMA RateLimitedInv ==
    ASSUME IInv, RateLimited
    PROVE  IInv'
<1>1. KbInv' /\ OnlyKb'
  BY NextKb DEF IInv, TypeOK, Next, Step
<1>2. TypeOK'
  BY <1>1 DEF IInv, TypeOK, RateLimited, KbInv, kbVars, research, result
<1>3. RetryInv'
  BY CallsInv DEF IInv, TypeOK, RetryInv, Calling, RateLimited, result
<1>4. ResearchInv'
  BY SameText DEF IInv, ResearchInv, RateLimited, AllServe, kbVars, research
<1>5. NearestInv'
  BY DEF NearestInv, RateLimited, Calling
<1>6. NothingFarIsRetrieved'
  BY SameText DEF IInv, NothingFarIsRetrieved, RateLimited, research
<1>7. NearestAreRetrieved'
  BY SameText, WhatIsRetrieved DEF IInv, RateLimited, research
<1>8. QED
  BY <1>1, <1>2, <1>3, <1>4, <1>5, <1>6, <1>7 DEF IInv

LEMMA TriagedInv ==
    ASSUME IInv, Triaged
    PROVE  IInv'
<1>1. KbInv' /\ OnlyKb'
  BY NextKb DEF IInv, TypeOK, Next, Step
<1>2. DOMAIN best' = {} /\ text \in Texts
  BY DEF Triaged, IInv, TypeOK
<1>3. TypeOK'
  BY <1>1, <1>2, CallsInv DEF IInv, TypeOK, Triaged, Calling, KbInv, AllServe, kbVars, result
<1>4. RetryInv'
  BY CallsInv DEF IInv, RetryInv, Calling, Triaged, result
<1>5. ResearchInv'
  BY <1>2 DEF ResearchInv, Triaged, AllServe, kbVars
<1>6. NearestInv'
  <2>1. SUFFICES ASSUME NEW t \in Candidates
                 PROVE  \E i \in todo' : Distance(QueryText(i)', t) = Nearness(t)'
    BY SameText DEF NearestInv, Triaged
  <2>2. t \in Templates
    BY KbAssumption DEF Candidates
  <2>3. QED
    BY <1>2, <2>2, NearnessIsLeast, SameText DEF Triaged
<1>7. NothingFarIsRetrieved' /\ NearestAreRetrieved'
  BY DEF NothingFarIsRetrieved, NearestAreRetrieved, Triaged
<1>8. QED
  BY <1>1, <1>3, <1>4, <1>5, <1>6, <1>7 DEF IInv

(* What an entry met is at, is never nearer than its nearest line.          *)
LEMMA BestIsALine ==
    ASSUME IInv, place = "research", NEW t \in DOMAIN best
    PROVE  /\ t \in Kb /\ t \in Templates
           /\ best[t] \in Nat /\ Nearness(t) \in Nat /\ Nearness(t) <= best[t]
<1>1. t \in Kb /\ t \in Templates /\ text \in Texts
  BY KbAssumption DEF IInv, ResearchInv, TypeOK
<1>2. PICK i \in Queries(text) : best[t] = Distance(QueryText(i), t)
  BY DEF IInv, ResearchInv
<1>3. QED
  BY <1>1, <1>2, NearnessIsLeast, QueriesAreThere

LEMMA QueryInv ==
    ASSUME IInv, Query
    PROVE  IInv'
<1> DEFINE i == Min(todo)
           q == QueryText(i)
<1>1. KbInv' /\ OnlyKb'
  BY NextKb DEF IInv, TypeOK, Next, Step
<1>2. /\ text \in Texts /\ i \in todo /\ i \in Queries(text)
      /\ \A t \in Templates : Distance(q, t) \in Nat
  <2>1. text \in Texts /\ todo \subseteq Queries(text) /\ todo # {}
    BY DEF IInv, TypeOK, Query
  <2>2. todo \subseteq Nat
    BY <2>1, QueriesAreThere
  <2>3. Min(todo) \in todo
    BY <2>1, <2>2, MinIsLeast
  <2>4. QED
    BY <2>1, <2>3, QueriesAreThere
<1>3. PICK H \in Hits(q) : best' = Meet(q, H)
  BY DEF Query
<1> HIDE DEF i, q
<1>4. \A h \in H : h[1] \in Kb /\ h[1] \in Templates
  BY PointsAreKb, KbAssumption DEF Hits, IInv
<1>5. /\ DOMAIN best' = DOMAIN best \cup {h[1] : h \in H}
      /\ \A t \in DOMAIN best' :
            best'[t] = IF (\E h \in H : h[1] = t) /\ (t \in DOMAIN best => Distance(q, t) < best[t])
                         THEN Distance(q, t)
                         ELSE best[t]
  BY <1>3 DEF Meet
<1>6. TypeOK'
  <2>1. DOMAIN best' \subseteq Templates
    BY <1>4, <1>5 DEF IInv, TypeOK
  <2>2. ASSUME NEW t \in DOMAIN best' PROVE best'[t] \in Nat
    <3>1. Distance(q, t) \in Nat
      BY <1>2, <2>1
    <3>2. t \in DOMAIN best => best[t] \in Nat
      BY DEF IInv, TypeOK
    <3>3. QED
      BY <1>5, <3>1, <3>2
  <2>3. QED
    BY <1>1, <2>1, <2>2 DEF IInv, TypeOK, Query, KbInv, kbVars, llm, result
<1>7. RetryInv'
  BY DEF IInv, RetryInv, Calling, Query, llm, result
<1>8. ResearchInv'
  <2>1. DOMAIN best' \subseteq Kb
    BY <1>4, <1>5 DEF IInv, ResearchInv
  <2>2. ASSUME NEW t \in DOMAIN best'
        PROVE  \E j \in Queries(text)' : best'[t] = Distance(QueryText(j)', t)
    BY <1>2, <1>5, SameText DEF IInv, ResearchInv, Query, q
  <2>3. calm' => AllServe'
    BY DEF IInv, ResearchInv, AllServe, Query, kbVars
  <2>4. QED
    BY <2>1, <2>2, <2>3 DEF ResearchInv, Query
<1>9. NearestInv'
  <2>1. SUFFICES ASSUME calm, NEW t \in Candidates, Fits(t)
                 PROVE  \/ \E j \in todo \ {i} : Distance(QueryText(j), t) = Nearness(t)
                        \/ t \in DOMAIN best' /\ best'[t] = Nearness(t)
    BY SameText DEF NearestInv, Query, i
  <2>2. t \in Templates /\ Nearness(t) \in Nat /\ Nearness(t) <= Distance(q, t)
    BY <1>2, KbAssumption, NearnessIsLeast DEF Candidates, q
  <2>3. CASE t \in DOMAIN best /\ best[t] = Nearness(t)
    <3>1. Distance(q, t) \in Nat /\ t \in DOMAIN best'
      BY <1>2, <1>5, <2>2, <2>3
    <3>2. ~ (Distance(q, t) < best[t])
      BY <2>2, <2>3, <3>1
    <3>3. QED
      BY <1>5, <2>3, <3>1, <3>2
  <2>4. CASE Distance(q, t) = Nearness(t)
    <3>1. \E h \in H : h[1] = t
      BY <1>2, <1>3, <2>1, <2>4, NearestIsFound DEF IInv, ResearchInv, q
    <3>2. t \in DOMAIN best => best[t] \in Nat /\ Nearness(t) <= best[t]
      BY BestIsALine DEF Query
    <3>3. QED
      BY <1>2, <1>5, <2>2, <2>4, <3>1, <3>2
  <2>5. QED
    BY <2>1, <2>3, <2>4 DEF IInv, NearestInv, Query, q
<1>10. NothingFarIsRetrieved' /\ NearestAreRetrieved'
  BY DEF NothingFarIsRetrieved, NearestAreRetrieved, Query
<1>11. QED
  BY <1>1, <1>6, <1>7, <1>8, <1>9, <1>10 DEF IInv

LEMMA QueryRefusedInv ==
    ASSUME IInv, QueryRefused
    PROVE  IInv'
<1>1. KbInv' /\ OnlyKb'
  BY NextKb DEF IInv, TypeOK, Next, Step
<1>2. TypeOK'
  BY <1>1 DEF IInv, TypeOK, QueryRefused, KbInv, kbVars, llm, result
<1>3. RetryInv'
  BY DEF IInv, RetryInv, Calling, QueryRefused, llm, result
<1>4. ResearchInv'
  BY SameText DEF IInv, ResearchInv, QueryRefused
<1>5. NearestInv' /\ NothingFarIsRetrieved' /\ NearestAreRetrieved'
  BY DEF NearestInv, NothingFarIsRetrieved, NearestAreRetrieved, QueryRefused
<1>6. QED
  BY <1>1, <1>2, <1>3, <1>4, <1>5 DEF IInv

(* The ranking keeps the first K of the entries within the cutoff.          *)
LEMMA RetrievedInv ==
    ASSUME IInv, Retrieved
    PROVE  IInv'
<1> DEFINE near == {t \in DOMAIN best : best[t] <= RAG_MAX_DISTANCE}
           before(s, t) == best[s] < best[t] \/ (best[s] = best[t] /\ s < t)
           earlier(t) == {s \in near : before(s, t)}
<1>1. KbInv' /\ OnlyKb'
  BY NextKb DEF IInv, TypeOK, Next, Step
<1>2. context' = {t \in near : Cardinality(earlier(t)) < K}
  BY DEF Retrieved, Ranked
<1>3. place = "research" /\ todo = {} /\ text' = text
  BY DEF Retrieved
<1>4. ASSUME NEW t \in near
      PROVE  /\ t \in Candidates /\ t \in Nat
             /\ best[t] \in Nat /\ Nearness(t) \in Nat /\ Nearness(t) <= best[t]
  <2>1. t \in DOMAIN best /\ best[t] <= RAG_MAX_DISTANCE
    OBVIOUS
  <2>2. /\ t \in Kb /\ t \in Templates
        /\ best[t] \in Nat /\ Nearness(t) \in Nat /\ Nearness(t) <= best[t]
    BY <1>3, <2>1, BestIsALine
  <2>3. Nearness(t) <= RAG_MAX_DISTANCE
    BY <2>1, <2>2
  <2>4. t \in Nat
    BY <2>2
  <2>5. QED
    BY <2>2, <2>3, <2>4 DEF Candidates
<1>5. IsFiniteSet(near) /\ near \subseteq Nat
  <2>1. near \subseteq Kb
    BY <1>4 DEF Candidates
  <2>2. QED
    BY <1>4, <2>1, FS_Subset
<1>6. TypeOK'
  BY <1>1, <1>2 DEF IInv, TypeOK, Retrieved, KbInv, kbVars, result
<1>7. RetryInv' /\ ResearchInv' /\ NearestInv'
  BY DEF IInv, RetryInv, ResearchInv, NearestInv, AllServe, Calling, Retrieved, kbVars, result
<1>8. NothingFarIsRetrieved'
  <2>1. context' \subseteq Candidates
    BY <1>2, <1>4
  <2>2. Cardinality(context') <= K
    <3> DEFINE f == [t \in near |-> best[t]]
    <3>1. f \in [near -> Nat] /\ \A t \in near : f[t] = best[t]
      BY <1>4
    <3> HIDE DEF near, f
    <3>2. Cardinality({t \in near : Cardinality({s \in near :
                          f[s] < f[t] \/ (f[s] = f[t] /\ s < t)}) < K}) <= K
      BY <1>5, <3>1, FirstOnes
    <3>3. \A t \in near :
            {s \in near : f[s] < f[t] \/ (f[s] = f[t] /\ s < t)} = earlier(t)
      BY <3>1
    <3>4. QED
      BY <1>2, <3>2, <3>3
  <2>3. QED
    BY <1>3, <2>1, <2>2, SameText DEF NothingFarIsRetrieved
<1>9. NearestAreRetrieved'
  <2>1. SUFFICES ASSUME calm, NEW t \in Candidates, Fits(t) PROVE t \in context'
    BY <1>3, SameText, WhatIsRetrieved DEF Retrieved
  <2>2. t \in DOMAIN best /\ best[t] = Nearness(t)
    BY <1>3, <2>1 DEF IInv, NearestInv
  <2>3. t \in near
    BY <2>2 DEF Candidates
  <2>4. ASSUME NEW s \in earlier(t) PROVE s \in Nearer(t)
    BY <1>4, <2>2, <2>3 DEF Nearer
  <2>5. Cardinality(earlier(t)) <= Cardinality(Nearer(t)) /\ Cardinality(earlier(t)) \in Nat
    BY <2>4, NearerIsFinite, FS_Subset, FS_CardinalityType
  <2>6. Cardinality(earlier(t)) < K
    BY <2>1, <2>5, NearerIsFinite
  <2>7. QED
    BY <1>2, <2>3, <2>6
<1>10. QED
  BY <1>1, <1>6, <1>7, <1>8, <1>9 DEF IInv

LEMMA EndsInv ==
    ASSUME IInv, [Next]_vars,
           GivesUp \/ LlmRaises \/ QueryRaises \/ Killed \/ \E fix \in Fixes : Report(fix)
    PROVE  IInv'
<1>1. KbInv' /\ OnlyKb'
  BY NextKb DEF IInv, TypeOK
<1>2. report.flags \subseteq {"destructive_command_removed", "unsupported_path_removed"}
  BY DEF IInv, TypeOK
<1>3. calls \in Nat /\ calls <= LLM_MAX_RETRIES
  BY DEF IInv, TypeOK, RetryInv
<1>4. CASE GivesUp
  BY <1>1, <1>2, <1>4, CallsInv, EndInv DEF GivesUp
<1>5. CASE LlmRaises
  BY <1>1, <1>2, <1>5, CallsInv, EndInv DEF LlmRaises
<1>6. CASE QueryRaises
  BY <1>1, <1>2, <1>3, <1>6, EndInv DEF QueryRaises, llm
<1>7. CASE Killed
  BY <1>1, <1>2, <1>3, <1>7, EndInv DEF Killed, llm
<1>8. ASSUME NEW fix \in Fixes, Report(fix) PROVE IInv'
  <2>1. Calling
    BY <1>8 DEF Report, Calling
  <2>2. report'.flags \subseteq {"destructive_command_removed", "unsupported_path_removed"}
    BY <1>8 DEF Report, Sanitize
  <2>3. QED
    BY <1>1, <1>8, <2>1, <2>2, CallsInv, EndInv DEF Report
<1>9. QED
  BY <1>4, <1>5, <1>6, <1>7, <1>8

LEMMA NextInv == IInv /\ [Next]_vars => IInv'
<1> SUFFICES ASSUME IInv, [Next]_vars PROVE IInv'
  OBVIOUS
<1>1. KbInv' /\ OnlyKb'
  BY NextKb DEF IInv, TypeOK
<1>2. CASE Step
  BY <1>2, RateLimitedInv, TriagedInv, QueryInv, QueryRefusedInv, RetrievedInv, EndsInv DEF Step
<1>3. CASE Rebuild
  BY <1>1, <1>3, GoesOnInv DEF Rebuild
<1>4. CASE UNCHANGED vars
  <2>1. GoesOn
    BY <1>4 DEF GoesOn, IInv, TypeOK, ResearchInv, AllServe, vars, kbVars, research, llm, result
  <2>2. QED
    BY <1>1, <2>1, GoesOnInv
<1>5. QED
  BY <1>2, <1>3, <1>4, DiagnoseInv, EndsInv DEF Next

THEOREM Invariance == Spec => []IInv
BY InitInv, NextInv, PTL DEF Spec

-----------------------------------------------------------------------------
(* The guardrail.                                                           *)

(* What sanitize_suggested_fix makes of a text: no command is left, every   *)
(* path is allowed, and without a command everything stays in its place.    *)
LEMMA SanitizeGuards ==
    ASSUME NEW fix \in Fixes, fix # NotText, NEW allowed
    PROVE  LET clean == Sanitize(fix, allowed).fix
               flags == Sanitize(fix, allowed).flags
               hasCommand == \E i \in DOMAIN fix : fix[i].kind = "command"
           IN  /\ \A i \in DOMAIN clean :
                    /\ clean[i].kind # "command"
                    /\ clean[i].kind = "path" => clean[i].path \in allowed
               /\ hasCommand <=> "destructive_command_removed" \in flags
               /\ ~ hasCommand => \A i \in DOMAIN fix :
                    clean[i] = fix[i] <=> (fix[i].kind = "path" => fix[i].path \in allowed)
<1> DEFINE Out == {i \in DOMAIN fix : ~ InReach(fix, i)}
           kept == Pick(fix, Out)
           clean == [k \in DOMAIN kept |-> Mask(kept[k], allowed)]
           flags == (IF Len(kept) < Len(fix) THEN {"destructive_command_removed"} ELSE {})
                      \cup (IF clean # kept THEN {"unsupported_path_removed"} ELSE {})
           hasCommand == \E i \in DOMAIN fix : fix[i].kind = "command"
<1>1. Sanitize(fix, allowed).fix = clean /\ Sanitize(fix, allowed).flags = flags
  BY DEF Sanitize, OutOfReach
<1>2. fix \in Seq(ToSet(fix)) /\ \A i \in DOMAIN fix : "kind" \in DOMAIN fix[i]
  BY FixesAssumption
<1>3. DOMAIN fix = 1 .. Len(fix) /\ Len(fix) \in Nat
  BY <1>2, LenProperties
<1>4. /\ Cardinality(Out) \in 0 .. Len(fix)
      /\ kept \in Seq(ToSet(fix)) /\ Len(kept) = Cardinality(Out)
      /\ \A k \in 1 .. Cardinality(Out) : Nth(Out, k) \in Out /\ kept[k] = fix[Nth(Out, k)]
      /\ Cardinality(Out) = Len(fix) <=> Out = DOMAIN fix
      /\ Out = DOMAIN fix => kept = fix
  <2>1. Out \subseteq DOMAIN fix
    OBVIOUS
  <2> HIDE DEF Out
  <2>2. QED
    BY <1>2, <2>1, Picked
<1>5. \A i \in Out : fix[i].kind # "command"
  <2> SUFFICES ASSUME NEW i \in DOMAIN fix, fix[i].kind = "command" PROVE InReach(fix, i)
    OBVIOUS
  <2>1. i \in 1 .. i /\ \A k \in i .. i : k = i
    BY <1>3
  <2>2. QED
    BY <2>1 DEF InReach
<1>6. Out = DOMAIN fix <=> ~ hasCommand
  <2>1. ASSUME ~ hasCommand, NEW i \in DOMAIN fix PROVE ~ InReach(fix, i)
    <3>1. \A j \in 1 .. i : j \in DOMAIN fix
      BY <1>3
    <3>2. QED
      BY <2>1, <3>1 DEF InReach
  <2>2. QED
    BY <1>5, <2>1
<1>7. DOMAIN kept = 1 .. Cardinality(Out)
  <2> HIDE DEF kept, Out
  <2>1. QED
    BY <1>4, LenProperties
<1>8. \A k \in DOMAIN kept : kept[k].kind # "command" /\ "kind" \in DOMAIN kept[k]
  <2> SUFFICES ASSUME NEW k \in 1 .. Cardinality(Out)
               PROVE  kept[k].kind # "command" /\ "kind" \in DOMAIN kept[k]
    BY <1>7
  <2> DEFINE i == Nth(Out, k)
  <2>1. i \in Out /\ kept[k] = fix[i]
    BY <1>4
  <2> HIDE DEF i
  <2>2. QED
    BY <1>2, <1>5, <2>1
<1>9. ASSUME NEW token, "kind" \in DOMAIN token
      PROVE  LET m == Mask(token, allowed)
             IN  /\ token.kind # "command" => m.kind # "command"
                 /\ m.kind = "path" => m.path \in allowed
                 /\ m = token <=> (token.kind = "path" => token.path \in allowed)
  <2>1. CASE token.kind = "path" /\ token.path \notin allowed
    <3>1. Mask(token, allowed) = [token EXCEPT !.kind = "masked"]
      BY <2>1 DEF Mask
    <3>2. [token EXCEPT !.kind = "masked"].kind = "masked"
      BY <1>9
    <3>3. QED
      BY <2>1, <3>1, <3>2
  <2>2. CASE ~ (token.kind = "path" /\ token.path \notin allowed)
    <3>1. Mask(token, allowed) = token
      BY <2>2 DEF Mask
    <3>2. QED
      BY <2>2, <3>1
  <2>3. QED
    BY <2>1, <2>2
<1>10. \A i \in DOMAIN clean :
         clean[i].kind # "command" /\ (clean[i].kind = "path" => clean[i].path \in allowed)
  <2> HIDE DEF kept
  <2>1. QED
    BY <1>8, <1>9
<1>11. hasCommand <=> "destructive_command_removed" \in flags
  <2>1. Len(kept) < Len(fix) <=> hasCommand
    <3> HIDE DEF kept, Out, hasCommand
    <3>1. QED
      BY <1>3, <1>4, <1>6
  <2> HIDE DEF kept, clean, hasCommand
  <2>2. QED
    BY <2>1
<1>12. ASSUME ~ hasCommand, NEW i \in DOMAIN fix
       PROVE  clean[i] = fix[i] <=> (fix[i].kind = "path" => fix[i].path \in allowed)
  <2>1. kept = fix
    BY <1>4, <1>6, <1>12
  <2>2. clean[i] = Mask(fix[i], allowed)
    BY <2>1
  <2> HIDE DEF clean
  <2>3. QED
    BY <1>2, <1>9, <2>2
<1> HIDE DEF clean, flags, hasCommand
<1>13. QED
  BY <1>1, <1>10, <1>11, <1>12 DEF hasCommand

(* A report is what the guardrail has made of the suggestion, with the      *)
(* sources that the request still has.                                      *)
GuardInv ==
    answer = "ok" => suggested \in Fixes /\ report = Sanitize(suggested, Allowed)

LEMMA InitGuardInv == Init => GuardInv
BY DEF Init, GuardInv

LEMMA NextGuardInv == IInv /\ GuardInv /\ [Next]_vars => GuardInv'
<1> SUFFICES ASSUME IInv, GuardInv, [Next]_vars PROVE GuardInv'
  OBVIOUS
<1>1. ASSUME UNCHANGED <<text, context, result>> PROVE GuardInv'
  <2>1. Allowed' = Allowed
    BY <1>1 DEF Allowed
  <2>2. QED
    BY <1>1, <2>1 DEF GuardInv, result
<1>2. ASSUME place # "idle", UNCHANGED answer PROVE GuardInv'
  BY <1>2 DEF GuardInv, IInv, RetryInv
<1>3. ASSUME NEW fix \in Fixes, Report(fix) PROVE GuardInv'
  <2>1. Allowed' = Allowed
    BY <1>3 DEF Report, Allowed
  <2>2. suggested' = fix /\ report' = Sanitize(fix, Allowed)
    BY <1>3 DEF Report
  <2>3. QED
    BY <2>1, <2>2 DEF GuardInv
<1>4. CASE RateLimited
  BY <1>2, <1>4 DEF RateLimited, Calling, result
<1>5. CASE GivesUp \/ LlmRaises \/ QueryRaises \/ Killed
  BY <1>5 DEF GivesUp, LlmRaises, QueryRaises, Killed, End, GuardInv
<1>6. CASE Triaged \/ Query \/ QueryRefused \/ Retrieved
  BY <1>2, <1>6 DEF Triaged, Query, QueryRefused, Retrieved, result
<1>7. ASSUME NEW r \in Replicas, NEW message \in Texts, Diagnose(r, message) PROVE GuardInv'
  BY <1>7 DEF Diagnose, GuardInv
<1>8. CASE Rebuild
  BY <1>1, <1>8 DEF Rebuild, GoesOn
<1>9. CASE UNCHANGED vars
  BY <1>1, <1>9 DEF vars, research
<1>10. QED
  BY <1>3, <1>4, <1>5, <1>6, <1>7, <1>8, <1>9 DEF Next, Step

LEMMA GuardedByInv == GuardInv => GuardedFix
<1> SUFFICES ASSUME GuardInv, answer = "ok", suggested # NotText
             PROVE  LET known(path) == \/ \E i \in DOMAIN text : path \in LogPaths(text[i])
                                       \/ \E t \in context : path \in KbPaths(t)
                        hasCommand == \E i \in DOMAIN suggested : suggested[i].kind = "command"
                        fix == report.fix
                    IN  /\ \A i \in DOMAIN fix : fix[i].kind # "command"
                        /\ \A i \in DOMAIN fix : fix[i].kind = "path" => known(fix[i].path)
                        /\ hasCommand <=> "destructive_command_removed" \in report.flags
                        /\ ~ hasCommand => \A i \in DOMAIN suggested :
                              fix[i] = suggested[i]
                                <=> (suggested[i].kind = "path" => known(suggested[i].path))
  BY DEF GuardedFix
<1>1. suggested \in Fixes /\ report = Sanitize(suggested, Allowed)
  BY DEF GuardInv
<1>2. \A path : path \in Allowed <=> \/ \E i \in DOMAIN text : path \in LogPaths(text[i])
                                    \/ \E t \in context : path \in KbPaths(t)
  BY DEF Allowed
<1> DEFINE hasCommand == \E i \in DOMAIN suggested : suggested[i].kind = "command"
           fix == report.fix
<1>3. /\ \A i \in DOMAIN fix :
           /\ fix[i].kind # "command"
           /\ fix[i].kind = "path" => fix[i].path \in Allowed
      /\ hasCommand <=> "destructive_command_removed" \in report.flags
      /\ ~ hasCommand => \A i \in DOMAIN suggested :
           fix[i] = suggested[i]
             <=> (suggested[i].kind = "path" => suggested[i].path \in Allowed)
  <2> HIDE DEF hasCommand, fix
  <2>1. fix = Sanitize(suggested, Allowed).fix
          /\ report.flags = Sanitize(suggested, Allowed).flags
    BY <1>1 DEF fix
  <2>2. QED
    BY <1>1, <2>1, SanitizeGuards DEF hasCommand
<1> HIDE DEF hasCommand, fix
<1>4. QED
  BY <1>2, <1>3 DEF hasCommand, fix

(* The variables of a diagnosis (agentic_pipeline.py:193-249,               *)
(* rag.py:65-103) and of the replicas keep their types, and only a replica  *)
(* that serves has a request.                                               *)
THEOREM TypeCorrect == Spec => []TypeOK
<1>1. IInv => TypeOK
  BY DEF IInv
<1>2. QED
  BY <1>1, Invariance, PTL

(* _call_llm_json (agentic_pipeline.py:72-90) makes all of its attempts     *)
(* before it gives a rate-limited call up, and never one more.              *)
THEOREM AllAttemptsAreMade == Spec => []RetriesAreSpent
<1>1. IInv => RetriesAreSpent
  BY DEF IInv, RetryInv, RetriesAreSpent
<1>2. QED
  BY <1>1, Invariance, PTL

(* retrieve_context (rag.py:65-103) gives the report at most k entries, all *)
(* of them of the knowledge base and near a line that was asked for,        *)
(* whatever rebuilds and refused queries do meanwhile.                      *)
THEOREM NothingFarReachesTheReport == Spec => []NothingFarIsRetrieved
<1>1. IInv => NothingFarIsRetrieved
  BY DEF IInv
<1>2. QED
  BY <1>1, Invariance, PTL

(* The copies that replicas store of each other's entries                   *)
(* (vector_store_qdrant.py:52-81) cannot crowd an entry out of the result   *)
(* unless k is too small for a copy per replica of all nearer ones.         *)
THEOREM NearestReachTheReport == Spec => []NearestAreRetrieved
<1>1. IInv => NearestAreRetrieved
  BY DEF IInv
<1>2. QED
  BY <1>1, Invariance, PTL

(* sanitize_suggested_fix (agentic_pipeline.py:93-125) lets no destructive  *)
(* command and no path from elsewhere into a report, and changes nothing    *)
(* else of a suggestion without commands.                                   *)
THEOREM FixesAreGuarded == Spec => []GuardedFix
<1>1. Init => IInv /\ GuardInv
  BY InitInv, InitGuardInv
<1>2. (IInv /\ GuardInv) /\ [Next]_vars => (IInv /\ GuardInv)'
  BY NextInv, NextGuardInv
<1>3. IInv /\ GuardInv => GuardedFix
  BY GuardedByInv
<1>4. QED
  BY <1>1, <1>2, <1>3, PTL DEF Spec
=============================================================================
