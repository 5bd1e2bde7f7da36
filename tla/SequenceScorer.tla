--------------------------- MODULE SequenceScorer ---------------------------
(***************************************************************************)
(* services/ingestion_service/app/sequence.py under the handler of         *)
(* /upload/logs/sequence: uploads are scored by the threads of the pool,   *)
(* the first of which loads the two artifacts of the model - the network,  *)
(* then the template miner - under a lock.  Either may fail to load.       *)
(***************************************************************************)
EXTENDS SequenceDetector

CONSTANTS
    Threads,        \* uploads that may be under way at once
    NoThread,
    Files,          \* the files that are uploaded, as sequences of lines
    Validations,    \* the normal sessions the threshold may have been calibrated on
    MAX_CONTEXT_LINES

ASSUME NobodyIsNoThread == NoThread \notin Threads
ASSUME ContextAssumption == MAX_CONTEXT_LINES \in Nat \ {0, 1}

ASSUME FilesAssumption ==
    /\ \A lines \in Files : lines \in Seq([blocks : Seq(STRING), template : Int])
    /\ \A sessions \in Validations : sessions \in Seq(Seq(Int)) \ {<<>>}

VARIABLES
    available,  \* whether both artifacts are in the image
    mode,       \* of the trained detector
    validation, \* what its threshold was calibrated on
    threshold,  \* saved with it
    detector,   \* whether self._detector is set
    miner,      \* whether self._miner is set
    lock,       \* the thread inside `with self._lock`, or NoThread
    place,      \* place[t]: where the upload of t is
    file,       \* file[t]: its lines
    answer,     \* answer[t]: the last response
    loadFailed  \* history: the threads whose own load failed

model == <<available, mode, validation, threshold>>
scorer == <<detector, miner, lock>>
upload == <<place, file, answer>>
vars == <<model, scorer, upload, loadFailed>>

TypeOK ==
    /\ available \in BOOLEAN
    /\ mode \in {"rank", "surprisal"}
    /\ validation \in Validations
    /\ detector \in BOOLEAN
    /\ miner \in BOOLEAN
    /\ lock \in Threads \cup {NoThread}
    /\ \A t \in Threads : lock = t <=> place[t] \in {"loading", "miner"}
    /\ place \in [Threads -> {"idle", "start", "loading", "miner", "score", "publish"}]
    /\ file \in [Threads -> Files \cup {<<>>}]
    /\ answer \in [Threads -> {"none", "200", "503", "500"}]
    /\ loadFailed \in SUBSET Threads

Init ==
    /\ available \in BOOLEAN
    /\ mode \in {"rank", "surprisal"}
    /\ validation \in Validations
    /\ threshold = Calibrate(mode, validation)
    /\ detector = FALSE
    /\ miner = FALSE
    /\ lock = NoThread
    /\ place = [t \in Threads |-> "idle"]
    /\ file = [t \in Threads |-> <<>>]
    /\ answer = [t \in Threads |-> "none"]
    /\ loadFailed = {}

(* A BlockResult for every block, in the order they come up.                *)
BlockResults(lines) ==
    LET groups == GroupByBlock(lines)
        blocks == BlockOrder(lines)
        sessions == [k \in DOMAIN blocks |->
                        [i \in DOMAIN groups[blocks[k]] |-> lines[groups[blocks[k]][i]].template]]
        scores == Scores(sessions)
        flagged == Flagged(scores, threshold)
    IN  [k \in DOMAIN blocks |->
            [block_id |-> blocks[k],
             score |-> scores[k],
             is_anomalous |-> k \in flagged,
             line_indices |-> groups[blocks[k]],
             unknown_templates |->
                Cardinality({i \in DOMAIN sessions[k] : sessions[k][i] = UNKNOWN_TEMPLATE_ID})]]

Line(number) == [kind |-> "line", number |-> number]
Omitted(number) == [kind |-> "omitted", number |-> number]

Shown(indices) == [i \in DOMAIN indices |-> Line(indices[i])]

(* Mutant: only the first lines of a long block.                            *)
ContextCutOff(indices) ==
    LET n == Len(indices)
    IN  IF n <= MAX_CONTEXT_LINES
          THEN Shown(indices)
          ELSE Shown(SubSeq(indices, 1, MAX_CONTEXT_LINES)) \o <<Omitted(n - MAX_CONTEXT_LINES)>>

(* build_block_entry: all lines of the block, or the first and last ones.   *)
Context(indices) ==
    LET half == MAX_CONTEXT_LINES \div 2
        n == Len(indices)
    IN  IF n <= MAX_CONTEXT_LINES
          THEN Shown(indices)
          ELSE Shown(SubSeq(indices, 1, half))
                 \o <<Omitted(n - 2 * half)>>
                 \o Shown(SubSeq(indices, n - half + 1, n))

BlockEntry(result) ==
    [block_id |-> result.block_id,
     context |-> Context(result.line_indices),
     n_events |-> Len(result.line_indices),
     score |-> result.score]

(* Without their order.                                                     *)
Entries(lines) == {BlockEntry(r) : r \in {r \in ToSet(BlockResults(lines)) : r.is_anomalous}}

-----------------------------------------------------------------------------
At(t, p) == place' = [place EXCEPT ![t] = p]

Reply(t, a) ==
    /\ At(t, "idle")
    /\ answer' = [answer EXCEPT ![t] = a]

(* The handler, up to the thread pool.                                      *)
Upload(t, lines) ==
    /\ place[t] = "idle"
    /\ file' = [file EXCEPT ![t] = lines]
    /\ IF available
         THEN At(t, "start") /\ answer' = [answer EXCEPT ![t] = "none"]
         ELSE Reply(t, "503")
    /\ loadFailed' = loadFailed \ {t}
    /\ UNCHANGED <<model, scorer>>

(* Mutant: a detector that is set is taken for a loaded model without       *)
(* waiting for the lock.                                                    *)
AcquireUnlessSet(t) ==
    /\ place[t] = "start"
    /\ \/ detector /\ At(t, "score") /\ UNCHANGED lock
       \/ ~ detector /\ lock = NoThread /\ lock' = t /\ At(t, "loading")
    /\ UNCHANGED <<model, detector, miner, file, answer, loadFailed>>

(* _load: with self._lock.                                                  *)
Acquire(t) ==
    /\ place[t] = "start"
    /\ lock = NoThread
    /\ lock' = t
    /\ At(t, "loading")
    /\ UNCHANGED <<model, detector, miner, file, answer, loadFailed>>

AlreadyLoaded(t) ==
    /\ place[t] = "loading"
    /\ detector
    /\ lock' = NoThread
    /\ At(t, "score")
    /\ UNCHANGED <<model, detector, miner, file, answer, loadFailed>>

LoadDetector(t) ==
    /\ place[t] = "loading"
    /\ ~ detector
    /\ detector' = TRUE
    /\ At(t, "miner")
    /\ UNCHANGED <<model, miner, lock, file, answer, loadFailed>>

LoadMiner(t) ==
    /\ place[t] = "miner"
    /\ miner' = TRUE
    /\ lock' = NoThread
    /\ At(t, "score")
    /\ UNCHANGED <<model, detector, file, answer, loadFailed>>

(* Mutant: the exception leaves the lock taken.                             *)
LoadRaisesLocked(t) ==
    /\ (place[t] = "loading" /\ ~ detector) \/ place[t] = "miner"
    /\ loadFailed' = loadFailed \cup {t}
    /\ Reply(t, "500")
    /\ UNCHANGED <<model, scorer, file>>

(* A file that is corrupt, or no memory left, for either of the artifacts.  *)
(* `with` releases the lock; a detector that is set stays.                  *)
LoadRaises(t) ==
    /\ (place[t] = "loading" /\ ~ detector) \/ place[t] = "miner"
    /\ lock' = NoThread
    /\ loadFailed' = loadFailed \cup {t}
    /\ Reply(t, "500")
    /\ UNCHANGED <<model, detector, miner, file>>

AnyBlock(lines) == \E i \in DOMAIN lines : lines[i].blocks # <<>>

(* The rest of score_logs.  The miner is used if there is a block at all.   *)
ScoreLogs(t) ==
    /\ place[t] = "score"
    /\ miner \/ ~ AnyBlock(file[t])
    /\ At(t, "publish")
    /\ UNCHANGED <<model, scorer, file, answer, loadFailed>>

(* self._miner is None.                                                     *)
ScoreRaises(t) ==
    /\ place[t] = "score"
    /\ ~ miner
    /\ AnyBlock(file[t])
    /\ Reply(t, "500")
    /\ UNCHANGED <<model, scorer, file, loadFailed>>

(* Back in the handler: the Entries go to publish_batch.                    *)
Publish(t) ==
    /\ place[t] = "publish"
    /\ Reply(t, "200")
    /\ UNCHANGED <<model, scorer, file, loadFailed>>

(* The process ends and is started again: the next upload loads the model.  *)
Restart ==
    /\ detector' = FALSE
    /\ miner' = FALSE
    /\ lock' = NoThread
    /\ place' = [t \in Threads |-> "idle"]
    /\ file' = [t \in Threads |-> <<>>]
    /\ answer' = [t \in Threads |-> "none"]
    /\ loadFailed' = {}
    /\ UNCHANGED model

Step(t) ==
    \/ AlreadyLoaded(t)
    \/ LoadDetector(t)
    \/ LoadMiner(t)
    \/ LoadRaises(t)
    \/ ScoreLogs(t)
    \/ ScoreRaises(t)
    \/ Publish(t)

Next ==
    \/ \E t \in Threads : Acquire(t) \/ Step(t)
    \/ \E t \in Threads, lines \in Files : Upload(t, lines)
    \/ Restart

Spec == Init /\ [][Next]_vars

(* Threads run, and whoever waits for a lock that is released again and     *)
(* again gets it at last.                                                   *)
FairSpec == Spec /\ \A t \in Threads : WF_vars(Step(t)) /\ SF_vars(Acquire(t))

-----------------------------------------------------------------------------
(* The model that is loaded halfway for good: the detector is set, and      *)
(* nobody is about to set the miner.                                        *)
HalfLoaded == detector /\ ~ miner /\ \A t \in Threads : place[t] # "miner"

(* No upload fails because of another one that is still loading the model:  *)
(* behind every 500 is a load that failed, the upload's own or the one that *)
(* left the model half loaded.                                              *)
FailsOnlyAfterAFailedLoad ==
    \A t \in Threads : answer[t] = "500" => t \in loadFailed \/ HalfLoaded

(* What the network looks back on before event i of a session.              *)
LookBack(tokens, i) ==
    [k \in 1 .. Window |-> IF i + k - 1 <= Window THEN PAD ELSE tokens[i + k - 1 - Window]]

(* The worst of a session by itself, the end included.                      *)
SessionScore(session) ==
    LET tokens == Encode(Vocabulary, session)
    IN  Max({Surprise(LookBack(tokens, i), tokens[i]) : i \in DOMAIN tokens})

(* The lines that mention a block.                                          *)
LinesOf(lines, block) ==
    Pick([i \in DOMAIN lines |-> i], {i \in DOMAIN lines : block \in ToSet(lines[i].blocks)})

(* Grouping, batching and the removal of duplicates leave no trace: each    *)
(* block of the file gets one verdict, from its own lines in their order.   *)
VerdictsAreTheirBlocks ==
    \A t \in Threads : place[t] = "publish" =>
        \A rs \in {BlockResults(file[t])} :
            /\ {rs[k].block_id : k \in DOMAIN rs}
                 = UNION {ToSet(file[t][i].blocks) : i \in DOMAIN file[t]}
            /\ IsInjective([k \in DOMAIN rs |-> rs[k].block_id])
            /\ \A k \in DOMAIN rs :
                 /\ rs[k].line_indices = LinesOf(file[t], rs[k].block_id)
                 /\ rs[k].score =
                      SessionScore([i \in DOMAIN rs[k].line_indices |->
                                      file[t][rs[k].line_indices[i]].template])

(* What goes to Kafka shows both ends of an anomalous block, in order, and  *)
(* accounts for every line of it.                                           *)
EntriesAccountForTheirLines ==
    \A t \in Threads : place[t] = "publish" =>
        \A e \in Entries(file[t]) :
            LET indices == LinesOf(file[t], e.block_id)
                shown == {i \in DOMAIN e.context : e.context[i].kind = "line"}
                notes == DOMAIN e.context \ shown
            IN  /\ e.context[1] = Line(indices[1])
                /\ Last(e.context) = Line(Last(indices))
                /\ \A i, j \in shown : i < j => e.context[i].number < e.context[j].number
                /\ Cardinality(shown) <= MAX_CONTEXT_LINES
                /\ IF notes = {}
                     THEN Cardinality(shown) = e.n_events
                     ELSE \E note \in notes :
                            /\ notes = {note}
                            /\ Cardinality(shown) + e.context[note].number = e.n_events

(* sequence_anomaly.py:300: "Set the threshold so at most `target_fpr` of    *)
(* held-out NORMAL sessions are flagged" - whatever the mode is.            *)
FlagsAtMostTarget ==
    Cardinality(Flagged(Scores(validation), threshold)) * RateDen <= RateNum * Len(validation)

(* The search for a rank keeps that promise for every number of sessions,   *)
(* also for one, or for so few that none of them may be flagged.            *)
RankFlagsAtMostTarget == mode = "rank" => FlagsAtMostTarget

(* Every upload is answered, a failing load or a restart notwithstanding.   *)
EveryUploadIsAnswered == \A t \in Threads : (place[t] # "idle") ~> (place[t] = "idle")
=============================================================================
