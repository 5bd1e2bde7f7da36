# LogSage in TLA+

LogSage ingests log files, keeps only what looks anomalous, and explains those
entries with a retrieval-augmented LLM pipeline. Three Python services (one of
them a pure worker) exchange work over Kafka, Redis and Qdrant. This directory
models the parts where those processes meet, model-checks them with TLC, and
proves the most important results with TLAPS for every number of replicas,
partitions, records and retries. Line numbers refer to the repository.

## 1. Inventory

| Component | State it keeps | Operations | Talks to |
|---|---|---|---|
| **ingestion service** (`services/ingestion_service/app/main.py`), one replica, one event loop | template miner (`drain3_state.bin`), Kafka producer, lazily loaded sequence model | `/upload/baseline`, `/upload/logs`, `/upload/logs/sequence`, `/sequence/status` | Qdrant (writes `baseline`), Kafka (produces) |
| &nbsp;&nbsp;publisher (`kafka_producer.py`) | records inside `KafkaProducer`, the count of acknowledged sends | `get_producer`, `publish_log_entry`, `publish_batch` | Kafka |
| &nbsp;&nbsp;sequence scorer (`sequence.py`, `logsage_common/sequence_*.py`) | detector, miner, a lock; used by thread-pool threads | `_load`, `score_logs`, `build_block_entry` | model files |
| **consumer service** (`services/consumer_service/app/main.py`), several replicas of one consumer group | position per partition, the message in hand | `connect_with_retry`, the loop of `run_consumer` | Kafka (consumes, commits), Redis (writes) |
| **log store** (`logsage_common/log_store.py`) | `log:{trace_id}` keys and the set `log:index` in Redis | `save`, `get`, `list_trace_ids`, `clear` | Redis |
| **vector store** (`logsage_common/vector_store_qdrant.py`) | the collections `baseline` and `knowledge_base` in Qdrant | `build_index`, `query`, `load` | Qdrant |
| **analysis service** (`services/analysis_service/app/main.py`), several replicas, threaded handlers | `kb_lookup`, autoencoder cache | `lifespan`, `/analyze`, `/logs`, `/stats`, API key | Redis (reads), Qdrant (reads `baseline`, rebuilds `knowledge_base`), LLM |
| &nbsp;&nbsp;diagnostic pipeline (`agentic_pipeline.py`, `rag.py`, `redact.py`) | a typed dict per request | triage, research, report, guardrail | LLM, Qdrant |
| **detectors** (`logsage_common/anomaly.py`, `sequence_anomaly.py`, `tf_autoencoder.py`) | fitted vectors, thresholds | `fit`, `score`, `calibrate` | |
| **training** (`scripts/train_sequence_model.py`, `eval/hdfs_sessions.py`) | `deeplog.pt`, `drain_sequence.state`, `meta.json` | one run, by hand | read by the sequence scorer and by the evaluation |
| **evaluation** (`eval/run_sequence_eval.py`, `blind_review.py`, `run_eval.py`, `judge.py`, ...) | results files, the blind file and its key | runs by hand | the trained model, the diagnostic pipeline, LLMs; the review reads the results |

How they interact: a client uploads a file to the ingestion service, which
scores it against the `baseline` collection and publishes one Kafka record per
anomalous line or block; a consumer replica stores each record in Redis; a
client lists and analyses trace ids through the analysis service, which reads
Redis and both Qdrant collections.

What is hard in it, and what makes each part correct:

* *Consumer.* Offsets are committed by hand after two Redis commands; every
  exception ends the process; the group moves partitions while a replica holds
  a record. Correct means: nothing is committed that Redis does not hold, a
  crash repeats at most the record in hand, commits never go back, everything
  is consumed in the end, and the newest entry of a trace id wins.
* *Publisher.* Sends time out while their record is still in flight, retries
  duplicate, acknowledgements get lost, and the trace ids of an upload are
  reused by the next upload of the same file. Correct means: the response never
  counts what did not arrive, two uploads never mix, an upload is answered.
* *Log store.* Two keys written one after the other under concurrent readers,
  who ask for a listing first and then for each entry, or for page after page.
  Correct means: what was listed is counted and shown, and clearing is thorough.
* *Vector collections.* A rebuild is four requests. Each analysis replica
  rebuilds the knowledge base when it starts; the ingestion service rebuilds
  the baseline under the requests of the analysis service, which train detectors
  on what they read and share them.
* *Sequence scorer.* Double-checked lazy loading in a thread pool, with two
  artifacts of which the second may fail to load.
* *Diagnosis.* LLM retries, degraded retrieval, and a guardrail that rewrites
  suggested fixes. Correct means: what is nearest is retrieved as long as nobody
  interferes and nothing far ever is, every attempt is made before giving up,
  and every diagnosis ends.
* *Offline programs.* Each leaves files that another one reads, and may be
  stopped while it writes them; an evaluation puts hours of calls to two LLMs
  into one file at its very end. Correct means: the training leaves what the
  serving path reads in the same way, every block and case is accounted for
  once, and retries neither end too early nor go on for ever.

`PROJECT.json` lists every component with its status, and every hazard with the
line where it bites and the properties that cover it.

## 2. Plan

1. **(done)** `Messages`, `KafkaTopic`, `LogStore`, `ConsumerService` and the
   abstract `Delivery`: the at-least-once core. Proofs: `ConsumerServiceProofs`.
2. **(done)** `PublishBatch`, and `Pipeline`, which composes it with the
   consumer. Proofs: `PipelineProofs`, for the publisher and end to end.
3. **(done)** `VectorStore` and `KnowledgeBase`. Proofs: `DiagnosisProofs`.
4. **(done)** `Baseline` on top of `VectorStore`: the template miner shared by
   `/upload/baseline` and `/upload/logs`, partial rebuilds, restarts, and
   `/analyze` (load, scroll, detector or its training, query) in between.
   Proofs: `BaselineProofs`.
5. **(done)** `SequenceScorer` over `SequenceParsing` and `SequenceDetector`:
   lazy loading by several threads with a failing load; grouping of lines,
   windows, deduplicated scoring, calibration and block entries as operators,
   compared with reference definitions. Proofs: `SequenceScorerProofs`, of the
   operators, too.
6. **(done)** `Diagnosis` over `KnowledgeBase`: the three nodes with the LLM's
   rate limits and errors, `retrieve_context` query by query under rebuilds, the
   guardrail. Proofs: `DiagnosisProofs`.
7. **(done)** `LogClients` over `ConsumerService`: `/stats`, the pages of
   `/logs` and `clear` under the consumer's writes. Proofs: `LogClientsProofs`.
8. **(done)** `Experiments`: the training, the evaluation of the sequence
   detector, the blind review of its verdicts and the golden evaluation, in one
   working tree. Proofs: `ExperimentsProofs`.
9. **(done)** `FiniteOrders`: what these proofs need of finite sets of numbers,
   lists and running sums, by induction over finite sets.
10. *Open*: replicas with different knowledge bases (a rolling update), and an
    abstract specification of `/analyze` in which a verdict is taken in one
    step.

## 3. Modules

| Module | Models |
|---|---|
| `Messages` | the records, and `Malformed` for everything the shape check of `run_consumer` rejects |
| `KafkaTopic` | the topic (external): partitions that only grow |
| `LogStore` | Redis as `LogStore` uses it, one operator per command |
| `LogClients` | a client of `/stats`, `/logs` or `clear` next to `ConsumerService` |
| `ConsumerService` | `consumer_service/app/main.py`, any number of replicas, and the consumer group (external) |
| `Delivery` | the abstract specification: a partition's records are shown one after the other and finished only when shown |
| `PublishBatch` | `kafka_producer.py` and the end of the upload handlers, with `KafkaProducer` (external) |
| `Pipeline` | `PublishBatch` and `ConsumerService` around one topic |
| `VectorStore` | a Qdrant collection (external) and `build_index` request by request, any number of writers |
| `KnowledgeBase` | `lifespan` of the analysis replicas over a `VectorStore` |
| `Baseline` | the ingestion service's template miner and rebuilds of `baseline`, and `/analyze` reading it |
| `BaselineSources` | `Baseline` with a history of what `/upload/baseline` was given |
| `SequenceParsing` | `sequence_parsing.py`: which block a line belongs to, the order of blocks |
| `Lists` | Python's filtered lists, `dict.fromkeys`, sorting and running sums |
| `SequenceWindows` | `sequence_anomaly.py`: tokens and windows, which training and scoring share |
| `SequenceDetector` | `sequence_anomaly.py`: batched scores and thresholds, as operators |
| `SequenceScorer` | `sequence.py` and `/upload/logs/sequence`: the lazy load by several threads, block results and entries |
| `Diagnosis` | `agentic_pipeline.py` and `rag.py`: one diagnosis in a replica of `KnowledgeBase` |
| `WorkingTree` | the labels and the files the offline programs share |
| `Training` | `train_sequence_model.py` with `hdfs_sessions.py` |
| `SequenceEval` | `run_sequence_eval.py` with its judge |
| `BlindReview` | `blind_review.py` |
| `GoldenEval` | `run_eval.py` with `judge.py` |
| `Experiments` | these four programs, one after the other in any order |
| `MCConsumer`, `MCPipeline`, `MCBaseline`, `MCSequence`, `MCDiagnosis`, `MCExperiments` | the values, bounds and symmetry TLC uses |
| `*Proofs` | the theorems about the module they extend, and those it composes |
| `FiniteOrders` | lemmas only, about finite sets, `Lists` and `SequenceParsing` |

### Consumer service

`pc[c]` is the place of replica `c` in the program: inside
`connect_with_retry`, inside the iterator, before the `SET`, between `SET` and
`SADD`, before `commit()`, or ended. `position[c]` is the consumer's position
per partition, `current[c]` the partition of the message in hand,
`assigned[c]` what `c` *believes* it owns. `committed` and `members` belong to
the broker. `Fetch`, `SaveEntry`, `SaveIndex`, `CommitAccepted` are the loop
(79-103); a malformed payload goes from `Fetch` straight to the commit (82-90);
`SaveFails` and `CommitRejected` end the process as the uncaught exceptions do.
`commit()` has no arguments and commits all assigned partitions, and so does
`CommitAccepted`. `Kill` may happen anywhere.

The group: `Evict` drops a member without telling it; `Rebalance` forms a
generation out of replicas that are inside `poll`, and every new owner starts at
`StartOffset`, the committed one. An evicted replica goes on with its stale
assignment until its commit is refused (or it polls and joins again). This is
the classic protocol as kafka-python runs it with the defaults.

### Publisher

`Send` puts a record in flight and waits; the producer's attempts
(`Delivered`, `AckLost`, `AttemptFails`) happen at any time, also for records
whose `get(timeout=10)` gave up (`GetRaises` while the future is pending).
`FlushAndAnswer` is `producer.flush()` and the response. The handlers never
await between the first send and the response, so one batch at a time is what
the event loop allows. A crash takes the records in flight with it: a request
that reaches the broker after the process that sent it has been replaced is not
modelled.

### Log clients

A client is in the middle of one thing (`doing`). `Begin` takes the first
listing, `StatsGet` is one `get` of `_stats`, the smallest id first, which skips
an id without an entry; what is read is kept with its id. `Page` is one request
for `/logs` with a listing of its own: the ids whose `Rank` in it is between
`offset` and the end of the page; the client stops when it is past the total it
was told. `ClearKey`, one key after the other in any order, and `ClearIndex` are
the commands of `clear`. Everything of `ConsumerService` may
happen between two of these steps. `saved` and `reset` are history. A clear that
overlaps a save can leave an id listed without its entry, or an entry unlisted,
until the record comes again; the properties say what holds in spite of it.

### Knowledge base

`step[w]` is the next request of `build_index`. `points` counts how often the
collection holds each template, because every upsert has fresh uuids.

### Baseline

`miner` is what Drain3 knows, by cluster. `UploadBaseline` teaches it the file
and starts `build_index` with *all* clusters; `Check`, `Delete`, `Create` and
`BaselineReady` are the four requests, and `RebuildFails` and `Crash` may come
between any two of them. `UploadLogs` teaches the miner, too. A request is
`AnsweredAtOnce` (404, or an entry of the sequence detector, which no baseline
can judge), or it `Analyze`s, `Load`s (is there a collection?), `Scroll`s (reads
the vectors, a page of at most `ScrollLimit`; the code asks for 10 000),
`Detect`s (fits the k-NN detector, or looks for an autoencoder in the cache),
perhaps `Train`s one, and `Judge`s (compares, asks for the nearest point), with
anything of the ingestion service in between. `vectors[q]` is what the request
read, `basis[q]` what its detector was fitted on: the vectors, or `Saved`.

`cache` is `_autoencoder_cache`, which outlives the request, until the replica is
`Replaced`. `dir` is what `AUTOENCODER_DIR` stands for: unset, a directory with a
saved detector, or one where nothing is. `Key` is the vectors themselves when it
is unset and the directory otherwise; a detector is loaded if one was saved, and
otherwise trained on the vectors of the request that misses it. Finding 4 comes
of this.

`latest`, `seen` and `disturbed` are history: the whole baseline in force, those
in force during a request, and whether the collection changed (or Qdrant failed)
under it. `NormalByOneBaseline` asks for one of the baselines seen, of which the
request read all, or as much as the scroll returns. Which part of a baseline
beyond the limit it is is Qdrant's choice, and nothing promises that it is the
same twice. Distances are abstracted to what does not depend on them: fewer than
two points have no threshold.

### Diagnosis

`place` is the node of the graph. In "triage" and "report" the request is inside
`_call_llm_json`: `RateLimited` is an attempt that is followed by another one,
`GivesUp` the last one, `LlmRaises` every other exception; `Triaged` and `Report`
are an answer and the rest of the node. `Queries` are the positions of the lines
that are asked for, 0 standing for the whole text when there are none. `Query` is one turn of the loop of
`retrieve_context`: `Hits` are the points Qdrant may return (those at the same
distance in any order), `Meet` updates the best distances; `QueryRefused` is an
`UnexpectedResponse`, which `query` turns into "nothing found", and `QueryRaises`
what it does not catch. `Retrieved` ranks. `KnowledgeBase` takes its steps in
between (`Rebuild`), and may take the replica away (`Killed`). One request is
modelled: requests share nothing they change. The order of the context and the
pauses between attempts are left out.

A point is a copy of an entry, because overlapping rebuilds store entries more
than once: that is what `NearestAreRetrieved` is about. `calm` says that no
replica left or started during the queries; then `WholeWhenAllServe` and
`OneCopyPerReplica` of `KnowledgeBase` give a collection with between one and
`Cardinality(Writers)` copies of every entry, and the nearest entries are still
found as far as that many copies of each fit among the k points.

`sanitize_suggested_fix` works on tokens here: words, paths, destructive
commands, and the breaks (newline, `;`, `|`, backquote) that end the reach of a
command. A suggestion that is no string (`NotText`) is returned as it is (lines
101-102), so `GuardedFix` speaks of text only.

### Sequence scorer

`detector` and `miner` say whether `self._detector` and `self._miner` are set,
`lock` is the thread inside `with self._lock`, and `place[t]` is where the
upload of thread `t` is. `Acquire` enters `_load`; `AlreadyLoaded` returns
early; `LoadDetector` and `LoadMiner` are its two assignments, and `LoadRaises`
an exception in either of them: `with` releases the lock, what is set stays.
`ScoreLogs` is the rest of `score_logs`, `ScoreRaises` its use of a miner that is
not there. What a file's upload computes is a function of the file, so the
results (`BlockResults`) and the Kafka entries (`Entries`, without their order)
are operators and no variables. Lists are functions from positions
(`Lists`, `GroupByBlock`), which TLC evaluates and proofs can look into. The network stays open: `Surprise(context, target)` is any function
into the naturals. A line is the blocks it mentions and the template it
matches; regular expressions are left out. Thresholds are multiplied by
`RateDen`, which keeps quantiles whole.

`FlagsAtMostTarget` is the promise of `calibrate`'s docstring
(`sequence_anomaly.py:300`). In mode "surprisal" the threshold is an
interpolated quantile and the promise is not kept: finding 5, and
`QuantileRateIsNear` proves how far off it can be. In mode "rank" it is kept
(`RankFlagsAtMostTarget`).

### Offline programs

Each program keeps its locals (`training`, `evalAt` and what goes with it,
`review`, `golden`) and writes its files: `netFile` and `stateFile`, a results
file per seed, `blindFile` and `keyFile`. A file is missing (`Nothing`), broken
off (`Torn`) or whole. `TrainStops`, `EvalStops`, `ReviewStops` and
`GoldenStops` are an exception that nobody catches, or an interrupt, at any step
and possibly in the middle of a write: `TrainStops` may leave a torn miner while
it parses and a torn network while it saves. `Start` of `Experiments` begins a program
when none runs; people run them by hand.

`Training` reads a log line by line (Drain3 is external: a cluster per kind of
line, in the order in which the kinds come up): `AddLogMessage` leaves out a line
that does not parse or whose blocks are beyond the limit (`Targets`), teaches the
miner the others and extends the sessions of their blocks. Then it splits the
normal ones, fits, saves, and compares the ids of the saved miner with those of
a fresh one on the first `ParityLines` lines of the log. Of the network only its training data is kept: which rows, and how
often. `TrainedForServing` compares this with what `SequenceScorer` would make
of the same log: its grouping, its windows, its ids. A training that is stopped
leaves a new miner with the old network, and `available` says yes to that;
nothing is claimed of it.

`SequenceEval` scores a sample, asks for a diagnosis and a verdict for each true
positive, and writes the results at the end. `current` is the block before the
judge; in which order the blocks come is left open. The judge has a loop of attempts, a
fallback without `reasoning_effort` inside an attempt, and rate limits of both
calls. `BlindReview` and `GoldenEval` are translated in the same way; verdicts,
scores and answers are open.

## 4. Runs

| Run | Instance | Shows |
|---|---|---|
| `consumer_replicas` | 2 replicas, a partition of 2 records and one of 1, 2 trace ids, 2 connect attempts | the safety of the loop under every fault, `ImplementsDelivery`, and that the topic is drained once faults stop |
| `log_clients` | 1 replica, 1 partition, 3 records, pages of 1 | what is listed is counted, with the entry it had, and shown; a clear is thorough; under every fault of the consumer |
| `consumer_stale` | 2 replicas, 1 partition, 2 entries | *violation*: see finding 1 |
| `pipeline` | an upload of 1 or 2 records and one of the first of them, 1 partition, 1 replica, 2 attempts per send, 2 of the producer to connect | uploads never mix, answers never overstate, the last upload wins, each record is on show in its turn (the strict form of `Delivery`), every upload is answered and what was counted gets listed |
| `kb_shared` | the deployment's 2 replicas | *violation*: see finding 2 |
| `baseline` | 3 templates, pages of 2, 1 request at a time, 2 cached detectors, with and without `AUTOENCODER_DIR`, any number of uploads, failures and crashes | "normal" takes one baseline in force during the request, whole or up to the limit, also with a detector of an earlier request; an undisturbed request gets the latest |
| `baseline_dir` | the same, with pages of 3 | *violation*: see finding 4 |
| `baseline_leak` | 2 templates | *violation*: see finding 3 |
| `sequence` | 2 threads, 6 files of up to 6 lines, 4 validation sets, both modes, window 2, rate 1/4, context of 2 lines | no upload fails because of another's load, all are answered, batched verdicts are those of each block alone, entries account for every line, calibration of mode "rank" keeps its rate |
| `sequence_rate` | 1 thread, the same | *violation*: see finding 5 |
| `diagnosis` | 1 request of 4 texts, 4 entries, 2 replicas, 3 points per query, 2 lines at most, 2 LLM attempts | the nearest entries are retrieved although there are copies, nothing far is, the guardrail holds, all attempts are made, every diagnosis ends; overlapping rebuilds leave the knowledge base whole and bounded, and startups settle |
| `experiments` | 3 programs in a row, 2 training logs of 3 and 7 lines, 4 normal blocks, 5 parity lines, 2 splits, with and without a limit on the blocks, 2 seeds, 3 judge attempts, 4 golden cases | the trained model fits the serving path, blocks and cases are accounted for, the judge gives up last, the review is answerable, every program ends |

**Bounds.** Two replicas are enough for one to be stale while the other owns
its partition; two partitions for a commit that covers a partition other than
the current one, and one record in it is enough for that; two records for one to
be replaced, skipped or replayed; two entries for an old and a new one. Trace
ids are interchangeable for the consumer, so `MCConsumer` lets t1 come first.
The second upload of `MCPipeline` is of the file of one line, one that the first
upload shares whichever file it was of. Three templates make two different
baselines with a threshold, and one that is beyond a page of two. One request at a time is enough because requests change
nothing for each other but the cache, which a later request finds as an earlier
one has left it; `MaxSeen` is 3 because a request reads the collection once: the
old baseline, none and the new one are all it can meet. Two detectors in the
cache are one of the old baseline and one of the new. `MaxRecords` bounds only what the environment
produces (and appends whose acknowledgement was lost); records that were
acknowledged are never held back. `MaxRetries` (consumer) and `MaxConnects` (producer)
are 2 where connecting matters: once to fail, once to try again. Malformed payloads occur in all consumer runs.
Two threads are enough for one to wait or to look while the other loads. The
files of `MCSequence` have lines with no block, one, two, and one twice, known
and unknown templates, blocks with equal events (deduplicated), blocks below, at
and above the limit of the context; the validation sets have one session, a
quantile that falls on a score, and some that fall between. With 4 entries, twice
each, 3 points per query leave out entries that are near; one text has more lines
than are asked for, one has none but an omission; distances tie within a line and
between lines. Two of the training sessions are alike, two are not; the lines of
the parity check are all of one log and the first of the other. One page of one id moves under every insertion. `MaxStarts` is 3:
a training, an evaluation and a review, or two evaluations and a review; the
order of the programs is bounded by what can matter (`run_eval` shares no file
with the others and comes first if at all, a training comes before the results
it could influence, a review reads and comes last). Three attempts of the judge
stand for its six: a first, a middle and a last one. The
mutants listed in `PROJECT.json` show that each property is violated on these
very instances by a plausible bug.

**Fairness.** The platform restarts what has ended (`replicas` of a Deployment,
`restart` of Compose and Fly), a process that runs takes its next step, the
broker forms the group, and `KafkaProducer` gives up on a record by itself: weak
fairness on `Progress(c)`, `SomeRebalance`, `Service` and `Producer`. A thread of
the pool that runs takes its next step (`Step(t)`, weak), and one that waits for
a lock which is released again and again gets it in the end (`Acquire(t)`,
strong): the lock of `threading` promises no order, but a waiting thread is woken
and competes. A diagnosis takes its next step (`Step`, weak): an LLM or Qdrant request
returns, be it with an exception, because their clients have timeouts. A replica
takes the next step of its startup (`Startup(r)`, weak), and an offline program goes on (`Step`, weak), because its calls have timeouts, too. Nothing is
assumed of faults. The two properties about consumption have the premise that
the consumer's faults stop (`FaultsStop`): a replica that is killed for ever
makes no progress. `StartupsSettle` needs a second premise. Two replicas that
start at the same time can make each other's create and upsert fail: `InTheWay`
says so, and such a failure is not a fault but the code's own doing. What draws
them apart is the platform's growing backoff, so the property is about
executions in which, from some time on, at most one replica is starting.

**Deadlock** is checked in all runs but `experiments`, where the bound on the
number of programs is reached and nothing is left to do.

## 5. Findings

1. *A stale replica writes last* (`consumer_stale`). README.md:59 and
   `k8s/deployment.yaml:233` call replicas of the consumer safe because the
   group protocol handles rebalancing. The protocol fences commits, and
   `CommitNeverRegresses` holds; it does not fence the `SET` in `log_store.save`.
   A replica that is evicted with a record in its hands (a long pause is
   enough) stores it after its successor stored and committed a newer entry of
   the same trace id. Nothing brings the newer entry back. The same is why
   `Delivery` has the parameter `StaleReplicas`: with a lone replica the shown
   entry is always the one being finished, with several it may be an old one.
2. *Replicas share a collection they write* (`kb_shared`).
   `k8s/deployment.yaml:180` calls the analysis replicas read-only without
   shared-write races; each start deletes, creates and fills `knowledge_base`.
   A serving replica finds nothing in between (its diagnoses silently lose
   their context), and two starts can fill the collection twice. What does hold
   is checked and proved: never more copies than replicas, and a whole
   knowledge base once all replicas are up.
3. *The baseline holds more than it was given* (`baseline_leak`). README.md:66-71
   wants a fixed reference that `/upload/baseline` recreates from scratch and
   `/upload/logs` does not touch. Both teach the same `template_miner`
   (`main.py:36`), and a rebuild stores everything the miner knows: what was
   once scored, and published as anomalous, is part of the next baseline.
4. *A detector outlives its baseline* (`baseline_dir`).
   `services/analysis_service/app/anomaly.py:8-10` says that where no saved
   detector is found, one is trained and "cached until the baseline changes", and
   README.md:100 that `/analyze` always reflects the latest baseline. The key of
   the cache (line 28) is the directory whenever `AUTOENCODER_DIR` is set, also
   when nothing was saved there: the detector trained for the first request
   judges all later ones, whatever `/upload/baseline` has done since, until the
   process ends. With the variable unset the key is the vectors, and a changed
   baseline has a detector of its own.
5. *Calibration by quantile flags too many* (`sequence_rate`). The docstring of
   `calibrate` (`sequence_anomaly.py:300`) says "at most `target_fpr` of
   held-out NORMAL sessions", and `eval/test_sequence_anomaly.py:133-136` asserts
   it in mode "surprisal". There the threshold is an interpolated quantile
   (line 313), and of n sessions with different scores (n - 1) `target_fpr`,
   rounded up, are beyond it: one of two at 1/4, two of 150 at 0.01. The test has
   200 sessions, where it holds.

## 6. Proofs

All theorems hold for arbitrary constants under the named assumptions of the
modules (`None` and `Malformed` are no data, bounds are naturals, replica and
trace-id sets are finite where something is counted). Of the training they ask
that shuffling a set of blocks gives each at most once, that the two shares of a
split are at most the whole, and that a missing file is no miner's list of
templates (`TrainingAssumption`); of the scroll, that it returns at least one
point, and of `AUTOENCODER_DIR` and what is saved there, that they are not
vectors read from a collection.

* `ConsumerServiceProofs`. `CommittedIsStored` and `OneRecordAtRisk` are not
  inductive: that a commit covers only stored records depends on what the hand
  of every replica holds, stale ones included. `IInv` adds `InTopicSoFar`
  (positions and commits are inside the topic), `MembersAreUp` and
  `RecordInHand` (what is in Redis at each place of the program). From it:
  `TypeCorrect`, `CommittedRecordsAreStored`, `IndexNeverDangles`,
  `RepeatsOneRecord`, and the action property `CommitsOnlyAdvance`.
  `Refinement`: every step of `ConsumerService` is a step of
  `Delivery` or a stutter. The invariant is extended with what a *lone* replica
  knows: the positions of the partitions it is not at are the committed ones,
  and the entry in Redis is the one in its hand once it has been set.
  `LoneReplicaShowsNewest` is the other side of finding 1: without a second
  replica `NewestEntryWins` is an invariant, for any number of partitions. It
  needs one more fact (`LastIsHeld`): of the records that are done, none of its
  partition is later than the one whose entry Redis holds.
* `PipelineProofs`. `UploadsKeepTheirOrder` rests on the flush as a
  barrier: what is in flight belongs to the current upload, and between two
  uploads nothing is. `AnswersAreHonest` rests on counting: the sends counted
  so far are distinct trace ids of the batch that are in the topic. Then
  publisher and consumer are put together. The consumer's lemmas assume nothing of
  who appends (`Arrive`), so a step of the pipeline is a step of `PublishBatch`
  and a step of the consumer under arrivals (`StepOfBoth`), and both invariants
  carry over. `PipelineDelivers`: end to end the topic is delivered as
  `Delivery` says, for any number of replicas and partitions.
  `ReuploadReplaces`: with one replica on one partition, the order of the
  publisher and the newest record of the consumer meet in `LatestUploadWins`.
* `BaselineProofs`. `NormalByOneBaseline` rests on where the writer is: the
  collection equals the latest whole baseline, or there is none and the
  collection is empty; so what a request has read is a page of a baseline it has
  seen, or nothing, and nothing has no threshold (`FittedMeansTwo`, by
  cardinality). Without `AUTOENCODER_DIR`, a detector from the cache was trained
  on the vectors that are its key (`CacheInv`), so it makes no difference who
  trained it.
  `UndisturbedIsLatest` adds that an undisturbed request has seen one value of
  `latest` only.
* `LogClientsProofs`, for any number of replicas, ids and records. Until Redis is
  cleared the consumer's `IInv` holds; afterwards what is left of it is what a
  replica knows of the record in its hands (`HandsInv`). `/stats` has read what is
  there of the ids it is through with, unless they were written since
  (`StatsInv`), and the counts follow by comparing finite sets. `NoPageMisses`
  rests on the ranks: an id is on a page or its rank is not below the offset,
  and a rank only grows, because ids are only inserted (`RankGrows`).
  `NothingSurvivesAClear`: a deleted entry stays deleted unless it is written.
* `SequenceScorerProofs`. `FailuresHaveACause` rests on `LoadInv`: a miner comes
  with a detector, who is about to load the miner holds the lock, and who scores
  has both or met a model that an earlier failure left half loaded.
  The other three are about what an upload computes, for any file, vocabulary,
  window and network.
  `VerdictsAreByBlock`: the position of a window in the batch is the running sum
  of the lengths before its session plus its own (`Flattened`, `SumsGrow`), so
  the piece of the batch between two sums is one session (`ScoresAreTheirs`);
  and the list of all mentions, which comes line by line, gives the lines of a
  block in order and once (`PairsInOrder`, `GroupsAreTheirLines`).
  `EntriesAreComplete`: the positions of a context are those of the first half,
  the note and the last half, and the count in the note is what is missing
  (`LongContext`). `RankRateIsKept`: the search for a rank ends at one that few
  scores reach, because none is beyond the greatest (`RankRate`).
  `QuantileRateIsNear`, next to finding 5: above an interpolated quantile there
  are only positions of the sorted list behind it (`QuantileRate`), fewer than
  `target_fpr` times all sessions but one, and one more.
* `ExperimentsProofs`. `AccountsClose` and `JudgeIsPatient` rest on the account of
  the evaluation: judged cases, errors and what is left to do are disjoint and
  make up the true positives, and a block under judgement has met one rate limit
  per attempt it is past (`AccountInv`, `AttemptInv`). The account is also why no
  results file has a block twice (`ResultsInv`), so that `ReviewCanBeGraded`: two
  cases with the same key are the same case. `GoldenRatesAreOfAll`: each case up
  to the next one has one outcome, in order. The programs leave each other's
  variables alone (`StepOfOne`).
  `ModelFitsServing` needs more than the end of a training, so `TrainInv` says
  what is true on the way. The session of a block is at each line what the
  miner *as it is by now* makes of all the lines read (`ParseInv`): a learned
  template is put behind the others, so earlier ids stay (`KnownAsBefore`,
  `SessionGoesOn`), and a block is left out only because of the limit, which
  is then reached for good (`TakenBlocks`). No block is trained on twice, or both
  trained on and calibrated on (`CutInv`). The saved miner is the one that the
  sessions are read with. Then a session is what the service makes of the block
  (`ServedAsTrained`), because the log's grouping is the service's
  (`GroupsAreTheirLines`). Training sums over the different sessions, each
  weighted by how many blocks have it; the service counts the windows of each
  block: both count the pairs of a block and a place in it (`CountedByKind`,
  `FitCounts`). That all ids agree with those of a fresh miner, as the report
  says of the lines it compares, is `ParityHolds`.
* `DiagnosisProofs`. For the knowledge base, the bound on copies rests on a
  budget: the copies stored and the upserts still to come are together at most
  one per replica, because an upsert needs a create of its own, and a create
  starts from nothing. `NearestReachTheReport` is a counting argument. Suppose that
  an entry is the nearest one to a line and within the cutoff, that as many
  copies as there are replicas of it and of everything nearer fit among the k
  points, and that no replica came or went. If the query misses it, it returned
  k points, all of them copies of entries at least as near, each at most once
  per replica (`CopiesAreBounded`): more points than there are (`NearestIsFound`).
  The rest is bookkeeping through the loop (`NearestInv`): a line that is still
  to be asked for, or the entry's best distance. `NothingFarReachesTheReport`
  needs only that a best distance is the distance of some line.
  `AllAttemptsAreMade` ties the number of calls to the attempt. `FixesAreGuarded`
  is `SanitizeGuards`, a lemma about the rewriting of any suggestion, and the
  fact that the context the fix was held against is the one in the report.
* `FiniteOrders` proves by induction what the library states with an operator as a
  parameter; an induction is a fact about a set of counterexamples here, whose
  minimal one the well-foundedness of strict inclusion gives (`MinimalSubset`,
  `UpTo`). A finite set of numbers has an increasing enumeration (`Row`,
  `Picked`), a list has a sorted form (`SortedList`), a function may be defined
  step by step (`StepByStep`), running sums add up and grow (`SumsGrow`). The
  grouping of lines by block is here, too, since the upload and the training rest
  on it (`PairsInOrder`, `LinesInARow`).

Only model-checked is everything about progress (`EventuallyDrained`,
`PublishedGetsListed`, `UploadGetsAnAnswer`, `EveryUploadIsAnswered`,
`EveryDiagnosisEnds`, `StartupsSettle`, `EveryProgramEnds`), because liveness
under fairness is out of the prover's reach. Every invariant of a passing run,
and every property about single steps, is also a theorem.

## 7. Not modelled

* Durability of Kafka and Redis themselves (retention, eviction, loss of the
  Redis volume), and the security settings of both.
* The text of entries and prompts, redaction patterns, masking, embeddings and
  distances. Drain3 is one cluster per kind of line: that it may merge clusters
  or widen a template is left out.
* The numbers: training of the networks, the PCA detector, the TensorFlow
  autoencoder (when it is trained and who shares it is modelled).
* `compare_detectors`, `precision_recall`, `rag_calibrate`, `eyeball_rag`,
  `anomaly_report` and `split_baseline_holdout`, which read one file and compute
  or print, and the comparison of detectors in the `main` of `sequence_eval`;
  `hf_hub.py`, which downloads; `meta.json`, which only people read.
* The API key: it guards every route and changes nothing.
* Rolling updates, with replicas that hold different knowledge bases.
