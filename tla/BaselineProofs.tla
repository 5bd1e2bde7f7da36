---------------------------- MODULE BaselineProofs ----------------------------
(***************************************************************************)
(* What an answer of /analyze rests on, for any number of templates and of *)
(* requests.                                                               *)
(***************************************************************************)
EXTENDS Baseline, FiniteSetTheorems, TLAPS

Nothing == OneEach({})

(* Where the writer is tells what the collection holds: a new collection is *)
(* filled right away, or stays empty.                                       *)
RebuildInv ==
    /\ step[Ingestion] = "create" => points = Missing
    /\ step[Ingestion] = "upsert" => points = Nothing
    /\ points = latest \/ (latest = Missing /\ points = Nothing)

(* The request has read the vectors.                                        *)
Read(q) == place[q] \in {"detect", "train", "query"}

(* A request under way has no answer yet, and has seen the latest baseline; *)
(* what it read is of one that it has seen, or nothing at all.              *)
RequestInv(q) ==
    /\ Running(q) => answer[q] = "none" /\ latest \in seen[q]
    /\ place[q] \in {"load", "scroll"} => vectors[q] = Missing
    /\ Read(q) => \/ vectors[q] = Nothing
                  \/ \E baseline \in seen[q] \ {Missing} : vectors[q] \in Pages(baseline)
    /\ Running(q) /\ ~ disturbed[q] => seen[q] = {latest}
    /\ Read(q) /\ ~ disturbed[q] /\ latest # Missing => vectors[q] \in Pages(latest)
    /\ place[q] = "query" /\ Fitted(vectors[q]) =>
          /\ dir = "unset" => basis[q] = vectors[q]
          /\ dir = "saved" => basis[q] = Saved

(* Without AUTOENCODER_DIR a detector from the cache was trained on the     *)
(* very vectors that are its key: it judges as a new one would.             *)
CacheInv ==
    /\ ~ autoencoder => dir = "unset"
    /\ \A k \in DOMAIN cache :
          /\ cache[k] \in [Templates -> Nat] \cup {Saved}
          /\ dir = "unset" => cache[k] = k
          /\ dir = "saved" => cache[k] = Saved

IInv ==
    /\ TypeOK
    /\ RebuildInv
    /\ CacheInv
    /\ \A q \in Requests : RequestInv(q)
    /\ NormalByOneBaseline
    /\ UndisturbedIsLatest

-----------------------------------------------------------------------------
LEMMA OneEachType ==
    ASSUME NEW templates
    PROVE  /\ OneEach(templates) \in [Templates -> {0, 1}]
           /\ OneEach(templates) # Missing
BY MissingIsNoCollection DEF OneEach

(* BaselineAnomalyDetector.fit finds a threshold exactly where there are    *)
(* two templates, once no template is stored twice; and never for nothing.  *)
LEMMA FittedMeansTwo ==
    ASSUME NEW v \in [Templates -> {0, 1}], Fitted(v)
    PROVE  /\ Cardinality(PointsOf(v)) >= 2
           /\ PointsOf(v) # {}
           /\ v # Nothing
<1>1. Cardinality(PointsOf(v)) >= 2
  BY DEF Fitted
<1>2. PointsOf(v) # {}
  BY <1>1, FS_EmptySet
<1>3. PointsOf(Nothing) = {}
  BY DEF PointsOf, Nothing, OneEach
<1>4. QED
  BY <1>1, <1>2, <1>3

(* A page of a collection has some of its points, none of them twice; and   *)
(* there is nothing to read of nothing.                                     *)
LEMMA PageType ==
    ASSUME NEW v \in [Templates -> {0, 1}], NEW page \in Pages(v)
    PROVE  /\ page \in [Templates -> {0, 1}]
           /\ page # Missing
           /\ PointsOf(page) \subseteq PointsOf(v)
<1>1. v # Missing
  BY MissingIsNoCollection
<1>2. page = v \/ \E part \in SUBSET PointsOf(v) : page = OneEach(part)
  BY DEF Pages
<1>3. CASE page = v
  BY <1>1, <1>3
<1>4. ASSUME NEW part \in SUBSET PointsOf(v), page = OneEach(part)
      PROVE  /\ page \in [Templates -> {0, 1}]
             /\ page # Missing
             /\ PointsOf(page) \subseteq PointsOf(v)
  BY <1>4, OneEachType DEF PointsOf, OneEach
<1>5. QED
  BY <1>2, <1>3, <1>4

LEMMA PagesOfNothing == Pages(Nothing) = {Nothing}
<1>1. PointsOf(Nothing) = {}
  BY DEF PointsOf, Nothing, OneEach
<1>2. Cardinality(PointsOf(Nothing)) <= ScrollLimit
  BY <1>1, FS_EmptySet, ScrollReadsSome
<1>3. QED
  BY <1>2 DEF Pages

(* What a request has read holds no template twice.                         *)
LEMMA ReadType ==
    ASSUME NEW q \in Requests, TypeOK, RequestInv(q), Read(q)
    PROVE  vectors[q] \in [Templates -> {0, 1}]
<1>1. seen[q] \ {Missing} \subseteq [Templates -> {0, 1}]
  BY DEF TypeOK
<1>2. \/ vectors[q] = Nothing
      \/ \E baseline \in seen[q] \ {Missing} : vectors[q] \in Pages(baseline)
  BY DEF RequestInv
<1>3. Nothing \in [Templates -> {0, 1}]
  BY OneEachType DEF Nothing
<1>4. QED
  BY <1>1, <1>2, <1>3, PageType

LEMMA InitIInv == Init => IInv
<1> SUFFICES ASSUME Init PROVE IInv
  OBVIOUS
<1> USE DEF Init, VectorStoreInit
<1>1. TypeOK
  BY OneWriter DEF TypeOK, VectorStoreTypeOK, Answers
<1>2. RebuildInv /\ CacheInv
  BY OneWriter DEF RebuildInv, CacheInv
<1>3. /\ \A q \in Requests : RequestInv(q)
      /\ NormalByOneBaseline
      /\ UndisturbedIsLatest
  BY DEF RequestInv, Running, Read, NormalByOneBaseline, UndisturbedIsLatest
<1>4. QED
  BY <1>1, <1>2, <1>3 DEF IInv

(* The steps of the ingestion service that leave latest as it is.           *)
LEMMA RequestsUnaware ==
    ASSUME IInv, UNCHANGED <<request, dir, latest, seen, disturbed>>
    PROVE  /\ \A q \in Requests : RequestInv(q)'
           /\ NormalByOneBaseline'
           /\ UndisturbedIsLatest'
BY DEF IInv, RequestInv, Running, Read, NormalByOneBaseline, UndisturbedIsLatest, request, reading

(* And those that change it: the requests under way have seen that.         *)
LEMMA RequestsAware ==
    ASSUME IInv, NEW baseline, Becomes(baseline), UNCHANGED <<request, dir>>
    PROVE  /\ \A q \in Requests : RequestInv(q)'
           /\ NormalByOneBaseline'
           /\ UndisturbedIsLatest'
<1> USE DEF Becomes, request, reading, Running, Read
<1>1. \A q \in Requests : RequestInv(q)'
  BY DEF IInv, RequestInv, TypeOK
<1>2. NormalByOneBaseline'
  BY DEF IInv, NormalByOneBaseline, TypeOK, PointsOf
<1>3. UndisturbedIsLatest'
  BY DEF IInv, UndisturbedIsLatest, TypeOK
<1>4. QED
  BY <1>1, <1>2, <1>3

(* The ingestion service.                                                   *)
LEMMA IngestionIInv ==
    ASSUME IInv, AnyUpload \/ Background
    PROVE  IInv'
<1> USE OneWriter DEF IInv
<1>0. UNCHANGED <<environment, cache>> /\ CacheInv'
  <2>1. UNCHANGED <<environment, cache>>
    BY DEF detectors, AnyUpload, Background, UploadBaseline, UploadLogs, Check, Delete, Create, BaselineReady,
           RebuildFails, Crash, Restart
  <2>2. QED
    BY <2>1 DEF CacheInv, environment
<1>1. ASSUME NEW file \in SUBSET Templates, UploadBaseline(file)
      PROVE  IInv'
  <2> USE DEF UploadBaseline, BuildIndex, Goto, Idle, history, request, reading, environment
  <2>1. TypeOK'
    BY <1>0, <1>1 DEF environment, TypeOK, VectorStoreTypeOK
  <2>2. RebuildInv'
    BY <1>1 DEF RebuildInv, TypeOK, VectorStoreTypeOK
  <2>3. QED
    BY <1>0, <1>1, <2>1, <2>2, RequestsUnaware
<1>2. ASSUME NEW file \in SUBSET Templates, UploadLogs(file)
      PROVE  IInv'
  <2> USE DEF UploadLogs, Idle, history, request, reading, environment, vectorStore
  <2>1. TypeOK'
    BY <1>0, <1>2 DEF environment, TypeOK, VectorStoreTypeOK
  <2>2. RebuildInv'
    BY <1>2 DEF RebuildInv
  <2>3. QED
    BY <1>0, <1>2, <2>1, <2>2, RequestsUnaware
<1>3. ASSUME Check
      PROVE  IInv'
  <2> USE DEF Check, CheckExists, Exists, Goto, history, request, reading, environment, ingestion
  <2>1. TypeOK'
    BY <1>0, <1>3 DEF environment, TypeOK, VectorStoreTypeOK
  <2>2. RebuildInv'
    BY <1>3 DEF RebuildInv, TypeOK, VectorStoreTypeOK
  <2>3. QED
    BY <1>0, <1>3, <2>1, <2>2, RequestsUnaware
<1>4. ASSUME Delete
      PROVE  IInv'
  <2> USE DEF Delete, DeleteCollection, Goto, ingestion, request, reading, environment
  <2>1. TypeOK'
    BY <1>0, <1>4 DEF environment, TypeOK, VectorStoreTypeOK, Becomes, Running
  <2>2. RebuildInv'
    BY <1>4 DEF RebuildInv, TypeOK, VectorStoreTypeOK, Becomes
  <2>3. QED
    BY <1>0, <1>4, <2>1, <2>2, RequestsAware
<1>5. ASSUME Create
      PROVE  IInv'
  <2> USE DEF Create, CreateCollection, Exists, Goto, ingestion, request, reading, environment
  <2>1. points' = Nothing
    BY <1>5 DEF Nothing, OneEach
  <2>2. TypeOK'
    BY <1>0, <1>5, <2>1, OneEachType DEF environment, TypeOK, VectorStoreTypeOK, Becomes, Running, Nothing
  <2>3. RebuildInv'
    BY <1>5, <2>1 DEF RebuildInv, TypeOK, VectorStoreTypeOK, Becomes
  <2>4. QED
    BY <1>0, <1>5, <2>2, <2>3, RequestsAware
<1>6. ASSUME BaselineReady
      PROVE  IInv'
  <2> USE DEF BaselineReady, Upsert, Exists, Leave, Goto, ingestion, request, reading, environment
  <2> DEFINE baseline == OneEach(building[Ingestion])
  <2>1. points = Nothing /\ points # Missing
    BY <1>6, OneEachType DEF RebuildInv, Nothing
  <2>2. points' = baseline
    <3>1. \A t \in Templates : points[t] = 0
      BY <2>1 DEF Nothing, OneEach
    <3>2. points' = [t \in Templates |->
                      points[t] + (IF t \in building[Ingestion] THEN 1 ELSE 0)]
      BY <1>6, <2>1
    <3>3. QED
      BY <3>1, <3>2 DEF OneEach
  <2>3. TypeOK'
    BY <1>0, <1>6, <2>2, OneEachType DEF environment, TypeOK, VectorStoreTypeOK, Becomes, Running
  <2>4. RebuildInv'
    BY <1>6, <2>2 DEF RebuildInv, TypeOK, VectorStoreTypeOK, Becomes
  <2>5. QED
    BY <1>0, <1>6, <2>3, <2>4, RequestsAware
<1>7. ASSUME RebuildFails
      PROVE  IInv'
  <2> USE DEF RebuildFails, BuildRaises, Leave, Goto, ingestion, request, reading, environment, history
  <2>1. TypeOK'
    BY <1>0, <1>7 DEF environment, TypeOK, VectorStoreTypeOK
  <2>2. RebuildInv'
    BY <1>7 DEF RebuildInv, TypeOK, VectorStoreTypeOK
  <2>3. QED
    BY <1>0, <1>7, <2>1, <2>2, RequestsUnaware
<1>8. ASSUME Crash
      PROVE  IInv'
  <2> USE DEF Crash, Leave, Goto, request, reading, environment, history
  <2>1. TypeOK'
    BY <1>0, <1>8 DEF environment, TypeOK, VectorStoreTypeOK
  <2>2. RebuildInv'
    BY <1>8 DEF RebuildInv, TypeOK, VectorStoreTypeOK
  <2>3. QED
    BY <1>0, <1>8, <2>1, <2>2, RequestsUnaware
<1>9. ASSUME Restart
      PROVE  IInv'
  <2> USE DEF Restart, vectorStore, request, reading, environment, history
  <2>1. TypeOK'
    BY <1>0, <1>9 DEF environment, TypeOK, VectorStoreTypeOK
  <2>2. RebuildInv'
    BY <1>9 DEF RebuildInv
  <2>3. QED
    BY <1>0, <1>9, <2>1, <2>2, RequestsUnaware
<1>10. QED
  BY <1>1, <1>2, <1>3, <1>4, <1>5, <1>6, <1>7, <1>8, <1>9 DEF AnyUpload, Background

(* A step of one request does not concern the others.                       *)
LEMMA OthersUnaware ==
    ASSUME IInv, NEW q \in Requests, NEW r \in Requests, r # q, UNCHANGED <<dir, latest>>,
           place'[r] = place[r], vectors'[r] = vectors[r], basis'[r] = basis[r], answer'[r] = answer[r],
           seen'[r] = seen[r], disturbed'[r] = disturbed[r]
    PROVE  RequestInv(r)'
BY DEF IInv, RequestInv, Running, Read

(* The analysis service.                                                    *)
LEMMA AnalysisIInv ==
    ASSUME IInv, NEW q \in Requests,
           \/ AnsweredAtOnce(q) \/ Analyze(q) \/ Load(q) \/ Scroll(q)
           \/ Detect(q) \/ Train(q) \/ Judge(q) \/ QdrantFails(q)
    PROVE  IInv'
<1> USE OneWriter DEF IInv, Read
<1> DEFINE Sound(r) ==
             /\ answer[r] \in {"normal", "normal, no match"} =>
                  /\ \E baseline \in seen[r] \ {Missing} : vectors[r] \in Pages(baseline)
                  /\ Cardinality(PointsOf(vectors[r])) >= 2
                  /\ dir = "unset" => basis[r] = vectors[r]
                  /\ dir = "saved" => basis[r] = Saved
             /\ ~ disturbed[r] /\ seen[r] \ {Missing} # {} =>
                  /\ answer[r] \notin {"503", "500", "normal, no match"}
                  /\ vectors[r] # Missing =>
                       \E baseline \in seen[r] \ {Missing} : vectors[r] \in Pages(baseline)
<1>1. /\ TypeOK
      /\ Sound(q)
      /\ RequestInv(q)
  BY DEF NormalByOneBaseline, UndisturbedIsLatest
<1>2. UNCHANGED <<vectorStore, ingestion, environment, latest>>
  BY DEF AnsweredAtOnce, Analyze, Load, Scroll, Detect, Train, Judge, QdrantFails, history, detectors
<1>3. \A r \in Requests \ {q} :
        /\ place'[r] = place[r]
        /\ vectors'[r] = vectors[r]
        /\ basis'[r] = basis[r]
        /\ answer'[r] = answer[r]
        /\ seen'[r] = seen[r]
        /\ disturbed'[r] = disturbed[r]
  <2>1. \E P, V, B, A, S, D :
          /\ place \in [Requests -> P] /\ vectors \in [Requests -> V]
          /\ basis \in [Requests -> B]
          /\ answer \in [Requests -> A] /\ seen \in [Requests -> S]
          /\ disturbed \in [Requests -> D]
    BY <1>1 DEF TypeOK
  <2> HIDE DEF IInv
  <2> USE <2>1 DEF At, Reply, history, reading
  <2>2. CASE AnsweredAtOnce(q) \/ Analyze(q)
    BY <2>2 DEF AnsweredAtOnce, Analyze
  <2>3. CASE Load(q) \/ Scroll(q)
    BY <2>3 DEF Load, Scroll
  <2>4. CASE Detect(q) \/ Train(q)
    BY <2>4 DEF Detect, Train
  <2>5. CASE Judge(q) \/ QdrantFails(q)
    BY <2>5 DEF Judge, QdrantFails
  <2>6. QED
    BY <2>2, <2>3, <2>4, <2>5
<1>4. ASSUME TypeOK', CacheInv', RequestInv(q)', Sound(q)'
      PROVE  IInv'
  <2>1. RebuildInv'
    BY <1>2 DEF RebuildInv, vectorStore
  <2>2. \A r \in Requests : RequestInv(r)'
    BY <1>2, <1>3, <1>4, OthersUnaware DEF environment
  <2>3. \A r \in Requests : Sound(r)'
    <3>1. TAKE r \in Requests
    <3>2. CASE r = q
      BY <1>4, <3>2
    <3>3. CASE r # q
      <4>1. Sound(r)
        BY DEF NormalByOneBaseline, UndisturbedIsLatest
      <4>2. QED
        BY <1>2, <1>3, <3>3, <4>1 DEF environment
    <3>4. QED
      BY <3>2, <3>3
  <2>4. QED
    BY <1>4, <2>1, <2>2, <2>3 DEF NormalByOneBaseline, UndisturbedIsLatest
<1>5. CASE AnsweredAtOnce(q)
  <2> USE DEF AnsweredAtOnce, Reply, At, history
  <2>1. TypeOK' /\ CacheInv'
    <3>1. TypeOK'
      BY <1>1, <1>2, <1>5
      DEF TypeOK, VectorStoreTypeOK, vectorStore, ingestion, detectors, environment, reading, Answers
    <3>2. CacheInv'
      BY <1>5 DEF CacheInv, detectors, environment
    <3>3. QED
      BY <3>1, <3>2
  <2>2. RequestInv(q)' /\ Sound(q)'
    BY <1>1, <1>5 DEF RequestInv, Running, TypeOK, reading, environment
  <2>3. QED
    BY <1>4, <2>1, <2>2
<1>6. CASE Analyze(q)
  <2> USE DEF Analyze, At
  <2>1. TypeOK' /\ CacheInv'
    <3>1. TypeOK'
      BY <1>1, <1>2, <1>6
      DEF TypeOK, VectorStoreTypeOK, vectorStore, ingestion, detectors, environment, reading, Answers
    <3>2. CacheInv'
      BY <1>6 DEF CacheInv, detectors, environment
    <3>3. QED
      BY <3>1, <3>2
  <2>2. RequestInv(q)' /\ Sound(q)'
    BY <1>1, <1>6 DEF RequestInv, Running, TypeOK, reading, environment
  <2>3. QED
    BY <1>4, <2>1, <2>2
<1>7. CASE Load(q)
  <2> USE DEF Load, Reply, At, history
  <2>1. TypeOK' /\ CacheInv'
    <3>1. TypeOK'
      BY <1>1, <1>2, <1>7
      DEF TypeOK, VectorStoreTypeOK, vectorStore, ingestion, detectors, environment, reading, Answers
    <3>2. CacheInv'
      BY <1>7 DEF CacheInv, detectors, environment
    <3>3. QED
      BY <3>1, <3>2
  <2>2. ~ disturbed[q] /\ ~ Exists => seen[q] \ {Missing} = {}
    BY <1>1, <1>7, OneEachType DEF RequestInv, Running, RebuildInv, Exists, Nothing
  <2>3. RequestInv(q)' /\ Sound(q)'
    BY <1>1, <1>2, <1>7, <2>2 DEF RequestInv, Running, TypeOK, reading, environment
  <2>4. QED
    BY <1>4, <2>1, <2>3
<1>8. CASE Scroll(q)
  <2> USE DEF Scroll, Reply, At, history
  <2>1. CacheInv'
    BY <1>8 DEF CacheInv, detectors, environment
  <2>2. ~ disturbed[q] /\ ~ Exists => seen[q] \ {Missing} = {}
    BY <1>1, <1>8, OneEachType DEF RequestInv, Running, RebuildInv, Exists, Nothing
  <2>3. CASE Exists
    <3>1. PICK page : page \in Pages(points) /\ vectors' = [vectors EXCEPT ![q] = page]
      BY <1>8, <2>3
    <3>2. /\ page \in [Templates -> {0, 1}] /\ page \in [Templates -> Nat]
          /\ page # Missing
      <4>1. points \in [Templates -> {0, 1}]
        BY <1>1, <2>3 DEF TypeOK, Exists
      <4>2. page \in [Templates -> {0, 1}] /\ page # Missing
        BY <3>1, <4>1, PageType
      <4>3. QED
        BY <4>2
    <3>3. TypeOK'
      BY <1>1, <1>2, <1>8, <2>3, <3>1, <3>2
      DEF TypeOK, VectorStoreTypeOK, vectorStore, ingestion, detectors, environment, Answers
    <3>4. \/ page \in Pages(latest) /\ latest # Missing /\ latest \in seen[q]
          \/ latest = Missing /\ page = Nothing
      <4>1. \/ points = latest /\ latest # Missing
            \/ points = Nothing /\ latest = Missing
        BY <2>3 DEF RebuildInv, Exists
      <4>2. latest \in seen[q]
        BY <1>1, <1>8 DEF RequestInv, Running
      <4>3. QED
        BY <3>1, <4>1, <4>2, PagesOfNothing
    <3>5. RequestInv(q)' /\ Sound(q)'
      BY <1>1, <1>2, <1>8, <2>3, <3>1, <3>4 DEF RequestInv, Running, TypeOK
    <3>6. QED
      BY <1>4, <2>1, <3>3, <3>5
  <2>4. CASE ~ Exists
    <3>1. TypeOK'
      BY <1>1, <1>2, <1>8, <2>4
      DEF TypeOK, VectorStoreTypeOK, vectorStore, ingestion, detectors, environment, Answers
    <3>2. RequestInv(q)' /\ Sound(q)'
      BY <1>1, <1>2, <1>8, <2>2, <2>4 DEF RequestInv, Running, TypeOK
    <3>3. QED
      BY <1>4, <2>1, <3>1, <3>2
  <2>5. QED
    BY <2>3, <2>4
<1>9. CASE Detect(q)
  <2> USE DEF Detect, At, history
  <2> DEFINE wanted == autoencoder /\ Fitted(vectors[q])
             found == IF ~ wanted THEN vectors[q]
                      ELSE IF Key(vectors[q]) \in DOMAIN cache THEN cache[Key(vectors[q])]
                      ELSE Missing
  <2>1. /\ basis' = [basis EXCEPT ![q] = found]
        /\ place' = [place EXCEPT ![q] = IF wanted /\ Key(vectors[q]) \notin DOMAIN cache
                                         THEN "train" ELSE "query"]
        /\ UNCHANGED <<vectorStore, ingestion, vectors, answer, detectors, history>>
    BY <1>9
  <2>2. CacheInv'
    BY <2>1 DEF CacheInv, detectors, environment
  <2>3. found \in [Templates -> Nat] \cup {Missing, Saved}
    BY <1>1 DEF CacheInv, TypeOK
  <2>4. TypeOK'
    <3> HIDE DEF found, wanted
    <3> QED
      BY <1>1, <2>1, <2>3 DEF TypeOK, VectorStoreTypeOK, vectorStore, ingestion, detectors, environment, Answers
  <2>5. /\ place'[q] \in {"train", "query"}
        /\ basis'[q] = found
    BY <1>1, <2>1 DEF TypeOK
  <2>6. place'[q] = "query" /\ Fitted(vectors[q]) =>
          /\ dir = "unset" => found = vectors[q]
          /\ dir = "saved" => found = Saved
    BY <1>1, <2>1 DEF CacheInv, Key, TypeOK
  <2>7. RequestInv(q)' /\ Sound(q)'
    <3> HIDE DEF found, wanted
    <3> QED
      BY <1>1, <1>9, <2>1, <2>5, <2>6 DEF RequestInv, Running, detectors, environment
  <2>8. QED
    BY <1>4, <2>2, <2>4, <2>7
<1>10. CASE Train(q)
  <2> USE DEF Train, At, history
  <2> DEFINE key == Key(vectors[q])
             trained == IF dir = "saved" THEN Saved ELSE vectors[q]
  <2>1. /\ cache' = [k \in DOMAIN cache \cup {key} |-> IF k = key THEN trained ELSE cache[k]]
        /\ basis' = [basis EXCEPT ![q] = trained]
        /\ place' = [place EXCEPT ![q] = "query"]
        /\ UNCHANGED <<vectorStore, ingestion, vectors, answer, environment, history>>
    BY <1>10
  <2>2. vectors[q] \in [Templates -> {0, 1}]
    BY <1>1, <1>10, ReadType
  <2>3. /\ key \in [Templates -> {0, 1}] \cup {Dir}
        /\ trained \in [Templates -> Nat] \cup {Saved}
        /\ dir = "unset" => trained = key /\ trained = vectors[q]
        /\ dir = "saved" => trained = Saved
    BY <2>2 DEF Key
  <2> HIDE DEF key, trained
  <2>4. CacheInv' /\ DOMAIN cache' \subseteq [Templates -> {0, 1}] \cup {Dir}
    BY <1>1, <2>1, <2>3 DEF CacheInv, TypeOK, environment
  <2>5. TypeOK'
    BY <1>1, <1>2, <2>1, <2>3, <2>4
    DEF TypeOK, VectorStoreTypeOK, vectorStore, ingestion, environment, Answers
  <2>6. RequestInv(q)' /\ Sound(q)'
    BY <1>1, <1>10, <2>1, <2>3 DEF RequestInv, Running, TypeOK, environment
  <2>7. QED
    BY <1>4, <2>4, <2>5, <2>6
<1>11. CASE Judge(q)
  <2> USE DEF Judge, Reply, At, history
  <2>1. TypeOK' /\ CacheInv'
    <3>1. TypeOK'
      BY <1>1, <1>2, <1>11
      DEF TypeOK, VectorStoreTypeOK, vectorStore, ingestion, detectors, environment, reading, Answers
    <3>2. CacheInv'
      BY <1>11 DEF CacheInv, detectors, environment
    <3>3. QED
      BY <3>1, <3>2
  <2>2. vectors[q] \in [Templates -> {0, 1}]
    BY <1>1, <1>11, ReadType
  <2>3. CASE answer'[q] = "anomalous"
    BY <1>1, <1>2, <1>4, <1>11, <2>1, <2>3 DEF RequestInv, Running, TypeOK, reading, environment
  <2>4. CASE answer'[q] # "anomalous"
    <3>1. Fitted(vectors[q])
      BY <1>1, <1>11, <2>4 DEF TypeOK
    <3>2. /\ Cardinality(PointsOf(vectors[q])) >= 2
          /\ PointsOf(vectors[q]) # {}
          /\ vectors[q] # Nothing
      BY <2>2, <3>1, FittedMeansTwo
    <3>3. \E baseline \in seen[q] \ {Missing} : vectors[q] \in Pages(baseline)
      BY <1>1, <1>11, <3>2 DEF RequestInv
    <3>4. ~ disturbed[q] => Found # {}
      <4>1. SUFFICES ASSUME ~ disturbed[q]
                     PROVE  Found # {}
        OBVIOUS
      <4>2. latest # Missing /\ vectors[q] \in Pages(latest)
        BY <1>1, <1>11, <3>3, <4>1 DEF RequestInv, Running
      <4>3. points = latest /\ points \in [Templates -> {0, 1}]
        BY <1>1, <4>2 DEF RebuildInv, TypeOK
      <4>4. PointsOf(vectors[q]) \subseteq PointsOf(points)
        BY <4>2, <4>3, PageType
      <4>5. Found = PointsOf(points)
        BY <4>2, <4>3 DEF Found, Exists, PointsOf
      <4>6. QED
        BY <3>2, <4>4, <4>5
    <3>5. RequestInv(q)' /\ Sound(q)'
      BY <1>1, <1>2, <1>11, <2>4, <3>1, <3>2, <3>3, <3>4
      DEF RequestInv, Running, TypeOK, reading, environment
    <3>6. QED
      BY <1>4, <2>1, <3>5
  <2>5. QED
    BY <2>3, <2>4
<1>12. CASE QdrantFails(q)
  <2> USE DEF QdrantFails, Reply, At
  <2>1. TypeOK' /\ CacheInv'
    <3>1. TypeOK'
      BY <1>1, <1>2, <1>12
      DEF TypeOK, VectorStoreTypeOK, vectorStore, ingestion, detectors, environment, reading, Answers
    <3>2. CacheInv'
      BY <1>12 DEF CacheInv, detectors, environment
    <3>3. QED
      BY <3>1, <3>2
  <2>2. place[q] = "query" /\ Fitted(vectors[q]) =>
          /\ \E baseline \in seen[q] \ {Missing} : vectors[q] \in Pages(baseline)
          /\ Cardinality(PointsOf(vectors[q])) >= 2
    <3>1. SUFFICES ASSUME place[q] = "query", Fitted(vectors[q])
                   PROVE  /\ \E baseline \in seen[q] \ {Missing} : vectors[q] \in Pages(baseline)
                          /\ Cardinality(PointsOf(vectors[q])) >= 2
      OBVIOUS
    <3>2. vectors[q] \in [Templates -> {0, 1}]
      BY <1>1, <3>1, ReadType
    <3>3. /\ Cardinality(PointsOf(vectors[q])) >= 2
          /\ vectors[q] # Nothing
      BY <3>1, <3>2, FittedMeansTwo
    <3>4. QED
      BY <1>1, <3>1, <3>3 DEF RequestInv
  <2>3. RequestInv(q)' /\ Sound(q)'
    BY <1>1, <1>2, <1>12, <2>2 DEF RequestInv, Running, TypeOK, reading, environment
  <2>4. QED
    BY <1>4, <2>1, <2>3
<1>13. QED
  BY <1>5, <1>6, <1>7, <1>8, <1>9, <1>10, <1>11, <1>12

(* A replica that is replaced takes its requests and its detectors along.   *)
LEMMA ReplacedIInv ==
    ASSUME IInv, Replaced
    PROVE  IInv'
<1> USE OneWriter DEF IInv, Replaced, Running, reading, environment
<1>1. TypeOK' /\ RebuildInv' /\ CacheInv'
  BY DEF TypeOK, VectorStoreTypeOK, vectorStore, ingestion, Answers, RebuildInv, CacheInv
<1>2. \A q \in Requests :
        /\ place'[q] = "idle"
        /\ answer'[q] = IF place[q] # "idle" THEN "500" ELSE answer[q]
        /\ disturbed'[q] = (disturbed[q] \/ place[q] # "idle")
  OBVIOUS
<1>3. \A q \in Requests : RequestInv(q)'
  BY <1>2 DEF RequestInv, Read
<1>4. NormalByOneBaseline'
  BY <1>2 DEF NormalByOneBaseline
<1>5. UndisturbedIsLatest'
  BY <1>2 DEF UndisturbedIsLatest
<1>6. QED
  BY <1>1, <1>3, <1>4, <1>5

LEMMA NextIInv == IInv /\ [Next]_vars => IInv'
<1> SUFFICES ASSUME IInv, [Next]_vars PROVE IInv'
  OBVIOUS
<1>1. CASE AnyUpload \/ Background
  BY <1>1, IngestionIInv
<1>2. CASE AnalysisNext
  BY <1>2, AnalysisIInv DEF AnalysisNext
<1>3. CASE UNCHANGED vars
  <2> USE <1>3 DEF vars, vectorStore, ingestion, request, reading, detectors, environment, history
  <2>1. TypeOK'
    BY DEF IInv, TypeOK, VectorStoreTypeOK
  <2>2. RebuildInv' /\ CacheInv'
    BY DEF IInv, RebuildInv, CacheInv
  <2>3. UNCHANGED <<request, dir, latest, seen, disturbed>>
    OBVIOUS
  <2>4. QED
    BY <2>1, <2>2, <2>3, RequestsUnaware DEF IInv
<1>4. CASE Replaced
  BY <1>4, ReplacedIInv
<1>5. QED
  BY <1>1, <1>2, <1>3, <1>4 DEF Next

LEMMA Invariance == Spec => []IInv
<1>1. Init => IInv
  BY InitIInv
<1>2. IInv /\ [Next]_vars => IInv'
  BY NextIInv
<1>3. QED
  BY <1>1, <1>2, PTL DEF Spec

(* Every variable keeps its type; above all, the only writer never stores a *)
(* template twice.                                                          *)
THEOREM TypeCorrect == Spec => []TypeOK
<1>1. IInv => TypeOK
  BY DEF IInv
<1>2. QED
  BY <1>1, Invariance, PTL

(* However uploads, failing rebuilds, crashes and requests of any number    *)
(* interleave, "normal" is the verdict of a whole baseline that was in      *)
(* force during the request.                                                *)
THEOREM NormalIsEarned == Spec => []NormalByOneBaseline
<1>1. IInv => NormalByOneBaseline
  BY DEF IInv
<1>2. QED
  BY <1>1, Invariance, PTL

(* A request that was left alone sees the latest baseline.                  *)
THEOREM LeftAloneSeesLatest == Spec => []UndisturbedIsLatest
<1>1. IInv => UndisturbedIsLatest
  BY DEF IInv
<1>2. QED
  BY <1>1, Invariance, PTL
=============================================================================
