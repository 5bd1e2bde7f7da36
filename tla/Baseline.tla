------------------------------ MODULE Baseline ------------------------------
(***************************************************************************)
(* The baseline collection: the ingestion service rebuilds it              *)
(* (/upload/baseline) and scores uploads against it (/upload/logs), while  *)
(* requests of the analysis service (/analyze) read it in three separate   *)
(* steps, and perhaps share detectors that they trained on it.             *)
(*                                                                         *)
(* The ingestion service has one process and one event loop, and its       *)
(* handlers do not await between reading the file and their response, so   *)
(* they exclude each other; what they share is the Drain3 template miner.  *)
(* Only the requests to Qdrant can be seen from outside in the middle of a *)
(* handler.                                                                *)
(*                                                                         *)
(* A line is known by the cluster the miner puts it in.  Whether it is     *)
(* near enough to a baseline is left open: the text of a cluster changes   *)
(* with every line it takes in, and the analysis service scores the raw    *)
(* message instead.  What is not open is that a baseline of fewer than two *)
(* points has no threshold, and lets nothing pass.                         *)
(***************************************************************************)
EXTENDS VectorStore, FiniteSets

CONSTANTS
    Ingestion,  \* the process of the ingestion service, the only writer
    Requests,   \* the threads of a replica that serve /analyze
    ScrollLimit,    \* fetch_baseline_vectors reads so many points at most: 10 000
    Dir,        \* the value of AUTOENCODER_DIR, if it has one
    Saved,      \* the detector that was saved there, if there is one
    MaxDetectors,   \* bound on the detectors in the cache of a replica
    MaxSeen     \* bound on the baselines, or none, that are in force during a request

ASSUME OneWriter == Writers = {Ingestion}
ASSUME FinitelyManyTemplates == IsFiniteSet(Templates)
ASSUME ScrollReadsSome == ScrollLimit \in Nat \ {0}
ASSUME DirIsNoCollection == Dir \notin [Templates -> Nat]
ASSUME SavedIsNoCollection == Saved \notin [Templates -> Nat] /\ Saved # Missing

VARIABLES
    up,         \* whether the ingestion service runs
    miner,      \* the clusters its Drain3 miner knows
    place,      \* place[q]: where request q is in _analyze
    vectors,    \* vectors[q]: what fetch_baseline_vectors read for q
    basis,      \* basis[q]: what the detector of q was fitted on, or Saved
    answer,     \* answer[q]: the last answer of q
    autoencoder,    \* whether ANOMALY_DETECTOR says so
    dir,        \* what AUTOENCODER_DIR is: unset, or a directory with a saved
                \* detector, or a name under which there is nothing
    cache,      \* _autoencoder_cache: of a key, what the detector was trained on
    \* history, for the properties only
    latest,     \* the baseline uploaded last, Missing while there is none whole
    seen,       \* seen[q]: the values of latest during request q
    disturbed   \* disturbed[q]: the collection changed, or something failed, during q

ingestion == <<up, miner>>
reading == <<vectors, basis>>
request == <<place, reading, answer>>
environment == <<autoencoder, dir>>
detectors == <<environment, cache>>
history == <<latest, seen, disturbed>>
vars == <<vectorStore, ingestion, request, detectors, history>>

(* A collection with one point for each of the templates.                   *)
OneEach(templates) == [t \in Templates |-> IF t \in templates THEN 1 ELSE 0]

(* The templates a collection has points of.                                *)
PointsOf(v) == {t \in Templates : v[t] > 0}

(* BaselineAnomalyDetector.fit needs two points for a threshold.  Without   *)
(* one every score is infinite.                                             *)
Fitted(v) == Cardinality(PointsOf(v)) >= 2 \/ \E t \in Templates : v[t] >= 2

(* Mutant: the key is the shape of the vectors.                             *)
KeyOfShape(v) == IF dir = "unset" THEN Cardinality(PointsOf(v)) ELSE Dir

(* saved_dir or _baseline_key; the percentile is always the same.           *)
Key(v) == IF dir = "unset" THEN v ELSE Dir

(* What a scroll of the collection v can return: all of it, or as many      *)
(* points as the limit allows, no matter which: their ids are random.       *)
Pages(v) ==
    IF Cardinality(PointsOf(v)) <= ScrollLimit
      THEN {v}
      ELSE {OneEach(page) : page \in {part \in SUBSET PointsOf(v) : Cardinality(part) = ScrollLimit}}

Answers == {"none", "404", "503", "500", "normal", "normal, no match", "anomalous"}

TypeOK ==
    /\ VectorStoreTypeOK
    /\ points \in [Templates -> {0, 1}] \cup {Missing}
    /\ up \in BOOLEAN
    /\ miner \in SUBSET Templates
    /\ place \in [Requests -> {"idle", "load", "scroll", "detect", "train", "query"}]
    /\ vectors \in [Requests -> [Templates -> Nat] \cup {Missing}]
    /\ basis \in [Requests -> [Templates -> Nat] \cup {Missing, Saved}]
    /\ answer \in [Requests -> Answers]
    /\ autoencoder \in BOOLEAN
    /\ dir \in {"unset", "saved", "nothing"}
    /\ DOMAIN cache \subseteq [Templates -> {0, 1}] \cup {Dir}
    /\ latest \in [Templates -> {0, 1}] \cup {Missing}
    /\ seen \in [Requests -> SUBSET ([Templates -> {0, 1}] \cup {Missing})]
    /\ disturbed \in [Requests -> BOOLEAN]

(* Of a service with the k-NN detector nothing reads AUTOENCODER_DIR.        *)
Init ==
    /\ VectorStoreInit
    /\ up = TRUE
    /\ miner = {}
    /\ place = [q \in Requests |-> "idle"]
    /\ vectors = [q \in Requests |-> Missing]
    /\ basis = [q \in Requests |-> Missing]
    /\ answer = [q \in Requests |-> "none"]
    /\ autoencoder \in BOOLEAN
    /\ dir \in {"unset", "saved", "nothing"}
    /\ ~ autoencoder => dir = "unset"
    /\ cache = [k \in {} |-> Missing]
    /\ latest = Missing
    /\ seen = [q \in Requests |-> {}]
    /\ disturbed = [q \in Requests |-> FALSE]

-----------------------------------------------------------------------------
(* The ingestion service.                                                   *)

Idle == up /\ step[Ingestion] = "none"

Running(q) == place[q] # "idle"

(* The requests under way see that the collection has become `baseline`.    *)
Becomes(baseline) ==
    /\ latest' = baseline
    /\ seen' = [q \in Requests |-> IF Running(q) THEN seen[q] \cup {baseline} ELSE seen[q]]
    /\ disturbed' = [q \in Requests |-> disturbed[q] \/ Running(q)]
    /\ \A q \in Requests : Cardinality(seen'[q]) <= MaxSeen

(* deduplicate_logs adds to the miner, get_unique_templates returns all of  *)
(* it, and build_index starts.                                              *)
UploadBaseline(file) ==
    /\ Idle
    /\ miner' = miner \cup file
    /\ BuildIndex(Ingestion, miner')
    /\ UNCHANGED <<up, request, detectors, history>>

Check ==
    /\ CheckExists(Ingestion)
    /\ UNCHANGED <<ingestion, request, detectors, history>>

Delete ==
    /\ DeleteCollection(Ingestion)
    /\ Becomes(Missing)
    /\ UNCHANGED <<ingestion, request, detectors>>

Create ==
    /\ CreateCollection(Ingestion)
    /\ Becomes(Missing)
    /\ UNCHANGED <<ingestion, request, detectors>>

BaselineReady ==
    /\ Upsert(Ingestion)
    /\ Becomes(OneEach(building[Ingestion]))
    /\ UNCHANGED <<ingestion, request, detectors>>

(* Qdrant fails: the client gets a 500, the process goes on.                *)
RebuildFails ==
    /\ BuildRaises(Ingestion)
    /\ UNCHANGED <<ingestion, request, detectors, history>>

(* /upload/logs feeds the miner before it reads the collection; what it     *)
(* publishes is the business of PublishBatch.                               *)
UploadLogs(file) ==
    /\ Idle
    /\ miner' = miner \cup file
    /\ UNCHANGED <<vectorStore, up, request, detectors, history>>

(* A crash in the middle of a rebuild leaves what the requests did.  The    *)
(* miner's state file is inside the container: it may or may not survive.   *)
Crash ==
    /\ up
    /\ up' = FALSE
    /\ miner' \in {miner, {}}
    /\ Leave(Ingestion)
    /\ UNCHANGED <<points, request, detectors, history>>

Restart ==
    /\ ~ up
    /\ up' = TRUE
    /\ UNCHANGED <<vectorStore, miner, request, detectors, history>>

-----------------------------------------------------------------------------
(* _analyze.                                                                *)

At(q, p) == place' = [place EXCEPT ![q] = p]

Reply(q, a) ==
    /\ At(q, "idle")
    /\ answer' = [answer EXCEPT ![q] = a]

(* log_store.get finds an entry of the per-line detector.                   *)
Analyze(q) ==
    /\ place[q] = "idle"
    /\ At(q, "load")
    /\ answer' = [answer EXCEPT ![q] = "none"]
    /\ vectors' = [vectors EXCEPT ![q] = Missing]
    /\ basis' = [basis EXCEPT ![q] = Missing]
    /\ seen' = [seen EXCEPT ![q] = {latest}]
    /\ disturbed' = [disturbed EXCEPT ![q] = FALSE]
    /\ UNCHANGED <<vectorStore, ingestion, detectors, latest>>

(* There is no such entry, or it comes from the sequence detector, whose    *)
(* verdict the baseline cannot judge: on to the diagnosis.                  *)
AnsweredAtOnce(q) ==
    /\ place[q] = "idle"
    /\ Reply(q, "404") \/ Reply(q, "anomalous")
    /\ UNCHANGED <<vectorStore, ingestion, reading, detectors, history>>

(* baseline_store.load().                                                   *)
Load(q) ==
    /\ place[q] = "load"
    /\ IF Exists THEN At(q, "scroll") /\ UNCHANGED answer ELSE Reply(q, "503")
    /\ UNCHANGED <<vectorStore, ingestion, reading, detectors, history>>

(* Mutant: without a limit, the client gets a default page of one point.    *)
ScrollDefaultPage(q) ==
    /\ place[q] = "scroll"
    /\ IF Exists
         THEN /\ At(q, "detect")
              /\ \E part \in SUBSET Found :
                    /\ part = Found \/ Cardinality(part) = 1
                    /\ Cardinality(part) <= 1
                    /\ vectors' = [vectors EXCEPT ![q] = OneEach(part)]
              /\ UNCHANGED answer
         ELSE Reply(q, "500") /\ UNCHANGED vectors
    /\ UNCHANGED <<vectorStore, ingestion, basis, detectors, history>>

(* fetch_baseline_vectors.  The scroll of a missing collection raises.      *)
Scroll(q) ==
    /\ place[q] = "scroll"
    /\ IF Exists
         THEN /\ At(q, "detect")
              /\ \E page \in Pages(points) : vectors' = [vectors EXCEPT ![q] = page]
              /\ UNCHANGED answer
         ELSE Reply(q, "500") /\ UNCHANGED vectors
    /\ UNCHANGED <<vectorStore, ingestion, basis, detectors, history>>

(* build_detector: the k-NN detector is fitted anew; an autoencoder, for    *)
(* two points or more, is in the cache, or has to be loaded or trained.     *)
Detect(q) ==
    /\ place[q] = "detect"
    /\ LET v == vectors[q]
           wanted == autoencoder /\ Fitted(v)
           cached == Key(v) \in DOMAIN cache
       IN  /\ At(q, IF wanted /\ ~ cached THEN "train" ELSE "query")
           /\ basis' = [basis EXCEPT ![q] = IF ~ wanted THEN v
                                            ELSE IF cached THEN cache[Key(v)]
                                            ELSE Missing]
    /\ UNCHANGED <<vectorStore, ingestion, vectors, answer, detectors, history>>

(* Several requests may train for the same key; each stores its detector.   *)
Train(q) ==
    /\ place[q] = "train"
    /\ At(q, "query")
    /\ LET key == Key(vectors[q])
           trained == IF dir = "saved" THEN Saved ELSE vectors[q]
       IN  /\ Cardinality(DOMAIN cache \cup {key}) <= MaxDetectors
           /\ cache' = [k \in DOMAIN cache \cup {key} |-> IF k = key THEN trained ELSE cache[k]]
           /\ basis' = [basis EXCEPT ![q] = trained]
    /\ UNCHANGED <<vectorStore, ingestion, vectors, answer, environment, history>>

(* The score decides, given a threshold, which an autoencoder always has;   *)
(* what vector_store.query finds only goes into the answer.                 *)
Judge(q) ==
    /\ place[q] = "query"
    /\ \/ Reply(q, "anomalous")
       \/ /\ Fitted(vectors[q])
          /\ Reply(q, IF Found = {} THEN "normal, no match" ELSE "normal")
    /\ UNCHANGED <<vectorStore, ingestion, reading, detectors, history>>

(* Any of the requests to Qdrant fails, or the training does; query takes   *)
(* an error of Qdrant for a collection that is missing, and finds nothing.  *)
QdrantFails(q) ==
    /\ Running(q)
    /\ \/ Reply(q, "500")
       \/ /\ place[q] = "query"
          /\ Fitted(vectors[q])
          /\ Reply(q, "normal, no match")
    /\ disturbed' = [disturbed EXCEPT ![q] = TRUE]
    /\ UNCHANGED <<vectorStore, ingestion, reading, detectors, latest, seen>>

(* The replica ends, with its requests, and another one takes its place.    *)
Replaced ==
    /\ place' = [q \in Requests |-> "idle"]
    /\ answer' = [q \in Requests |-> IF Running(q) THEN "500" ELSE answer[q]]
    /\ disturbed' = [q \in Requests |-> disturbed[q] \/ Running(q)]
    /\ cache' = [k \in {} |-> Missing]
    /\ UNCHANGED <<vectorStore, ingestion, reading, environment, latest, seen>>

-----------------------------------------------------------------------------
AnyUpload == \E file \in SUBSET Templates : UploadBaseline(file) \/ UploadLogs(file)

Background ==
    \/ Check
    \/ Delete
    \/ Create
    \/ BaselineReady
    \/ RebuildFails
    \/ Crash
    \/ Restart

AnalysisNext ==
    \E q \in Requests :
        \/ AnsweredAtOnce(q)
        \/ Analyze(q)
        \/ Load(q)
        \/ Scroll(q)
        \/ Detect(q)
        \/ Train(q)
        \/ Judge(q)
        \/ QdrantFails(q)

Next == AnyUpload \/ Background \/ AnalysisNext \/ Replaced

Spec == Init /\ [][Next]_vars

-----------------------------------------------------------------------------
(* /analyze calls a line normal only because of one baseline that somebody  *)
(* uploaded, with two templates or more, and in force at some time during   *)
(* the request: never because of one that is being rebuilt, whose rebuild   *)
(* failed half-way, that mixes two uploads, or that an earlier request has  *)
(* trained a detector on.  The baseline is whole, up to the limit of the    *)
(* scroll.  Under AUTOENCODER_DIR it is the saved detector that judges.     *)
NormalByOneBaseline ==
    \A q \in Requests :
        answer[q] \in {"normal", "normal, no match"} =>
            /\ \E baseline \in seen[q] \ {Missing} : vectors[q] \in Pages(baseline)
            /\ Cardinality(PointsOf(vectors[q])) >= 2
            /\ dir = "unset" => basis[q] = vectors[q]
            /\ dir = "saved" => basis[q] = Saved

(* A request that no rebuild got in the way of, with a whole baseline in    *)
(* force, reads that baseline - all of it, or as much as the limit of the   *)
(* scroll allows - and says which template is nearest.                      *)
UndisturbedIsLatest ==
    \A q \in Requests :
        ~ disturbed[q] /\ seen[q] \ {Missing} # {} =>
            /\ answer[q] \notin {"503", "500", "normal, no match"}
            /\ vectors[q] # Missing =>
                 \E baseline \in seen[q] \ {Missing} : vectors[q] \in Pages(baseline)

(* services/analysis_service/app/anomaly.py:8-10: "If AUTOENCODER_DIR       *)
(* points at a saved detector it is loaded; otherwise one is trained on the *)
(* current baseline and cached until the baseline changes."  So unless one  *)
(* is saved there, no line is normal by any other baseline than those in    *)
(* force during the request.                                                *)
CachedUntilBaselineChanges ==
    \A q \in Requests :
        answer[q] \in {"normal", "normal, no match"} /\ dir # "saved" =>
            \E baseline \in seen[q] \ {Missing} : basis[q] \in Pages(baseline)
=============================================================================
