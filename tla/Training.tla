------------------------------- MODULE Training -------------------------------
(***************************************************************************)
(* scripts/train_sequence_model.py with eval/hdfs_sessions.py: one log is  *)
(* mined line by line into sessions, the normal sessions are split, the    *)
(* network is fitted, and three files are left for the ingestion service:  *)
(* the miner's state, the network, and the report with the parity check.   *)
(*                                                                         *)
(* Drain3 is external: it is taken to put all lines of one kind into one   *)
(* cluster, whose id is the position at which the kind came up.  The       *)
(* weights of the network are left out; what is kept of it is what it was  *)
(* trained on.                                                             *)
(***************************************************************************)
EXTENDS WorkingTree, SequenceWindows

CONSTANTS
    TrainingLogs,   \* logs, as sequences of [blocks, template, parsed]
    BlockLimits,    \* --max-blocks; one that exceeds all blocks stands for none
    Splits,         \* --train-frac and --val-frac as [train, val, of]
    ParityLines,    \* --parity-lines
    Shuffled(_),    \* of a set of blocks, how random.Random(seed) lines it up
    Committed       \* what the repository holds of an earlier training

ASSUME TrainingAssumption ==
    /\ \A log \in TrainingLogs :
         log \in Seq([blocks : Seq(STRING), template : STRING, parsed : BOOLEAN])
    /\ BlockLimits \subseteq Nat
    /\ ParityLines \in Nat
    /\ \A s \in Splits :
         s.train \in Nat /\ s.val \in Nat /\ s.of \in Nat \ {0} /\ s.train + s.val <= s.of
    /\ \A S \in SUBSET DOMAIN Labels : Shuffled(S) \in Seq(S) /\ IsInjective(Shuffled(S))
    /\ Nothing \notin Seq(STRING)

VARIABLES
    training,   \* the locals of main, Nothing while it does not run
    netFile,    \* deeplog.pt
    stateFile   \* drain_sequence.state

trainVars == <<training, netFile, stateFile>>

-----------------------------------------------------------------------------
(* iter_selected_lines: the blocks of a line that are among the first       *)
(* `limit` to come up.                                                      *)
Targets(selected, limit, blocks) ==
    {blocks[k] : k \in {k \in DOMAIN blocks :
        \/ blocks[k] \in selected
        \/ Cardinality(selected \cup {blocks[j] : j \in 1 .. k - 1}) < limit}}

(* build_masking_miner: without a file the miner starts empty.              *)
Loaded(file) == IF file = Nothing THEN <<>> ELSE file

Learn(known, template) ==
    IF template \in ToSet(known) THEN known ELSE Append(known, template)

(* miner.match: no learning, and UNKNOWN_TEMPLATE_ID for what is not known. *)
MatchTemplateId(known, template) ==
    IF template \in ToSet(known)
      THEN CHOOSE i \in DOMAIN known : known[i] = template
      ELSE UNKNOWN_TEMPLATE_ID

(* sequences.setdefault(b, []).append(id) for every target b.               *)
Extend(sequences, targets, id) ==
    [b \in DOMAIN sequences \cup targets |->
        IF b \notin targets THEN sequences[b]
        ELSE IF b \in DOMAIN sequences THEN Append(sequences[b], id)
        ELSE <<id>>]

(* split_blocks shuffles the normal blocks and cuts them twice.             *)
SplitBlocks(normal, split) ==
    LET nTrain == (split.train * Len(normal)) \div split.of
        nVal == (split.val * Len(normal)) \div split.of
    IN  [train |-> SubSeq(normal, 1, nTrain), val |-> SubSeq(normal, nTrain + 1, nTrain + nVal)]

Vocabulary(sessions) == UNION {ToSet(sessions[k]) : k \in DOMAIN sessions}

Occurrences(s, e) == Cardinality({i \in DOMAIN s : s[i] = e})

(* fit: sessions that are alike are taken once with their number, and so    *)
(* are rows; a row's weight grows with this count.                          *)
Fit(sessions) ==
    LET unique == Distinct(sessions)
        vocabulary == Vocabulary(sessions)
        windows == [k \in DOMAIN unique |-> Windows(vocabulary, unique[k])]
        times(k, row) == Occurrences(sessions, unique[k]) * Occurrences(windows[k], row)
    IN  [row \in UNION {ToSet(windows[k]) : k \in DOMAIN unique} |->
            Sums([k \in DOMAIN unique |-> times(k, row)])[Len(unique)]]

(* parity_check: the ids of the saved miner against those of a fresh one,   *)
(* on the first of the lines.                                               *)
FirstLines(mined) == IF Len(mined) <= ParityLines THEN mined ELSE SubSeq(mined, 1, ParityLines)

Parity(mined, saved) ==
    LET lines == FirstLines(mined)
        reference == Distinct(lines)
        served(i) == MatchTemplateId(saved, lines[i])
        trained(i) == MatchTemplateId(reference, lines[i])
    IN  [checked |-> Len(lines),
         same |-> Cardinality({i \in DOMAIN lines : served(i) = trained(i)}),
         unmatched |-> Cardinality({i \in DOMAIN lines : served(i) = UNKNOWN_TEMPLATE_ID})]

-----------------------------------------------------------------------------
At(place) == training # Nothing /\ training.at = place

TrainInit ==
    /\ training = Nothing
    /\ netFile = Committed
    /\ stateFile = Committed

(* state_path.unlink(), and an empty miner.                                 *)
Train(log, limit, split) ==
    /\ training = Nothing
    /\ training' = [at |-> "parse", log |-> log, limit |-> limit, read |-> 0,
                    selected |-> {}, mined |-> <<>>, miner |-> <<>>, sequences |-> <<>>,
                    split |-> split, detector |-> Nothing, meta |-> Nothing]
    /\ stateFile' = Nothing
    /\ UNCHANGED netFile

(* The next line of the log, unless parse_line gives None or none of its    *)
(* blocks is selected.  Drain3 may save its state on its own account.       *)
AddLogMessage ==
    /\ At("parse")
    /\ training.read < Len(training.log)
    /\ LET line == training.log[training.read + 1]
           targets == IF line.parsed
                        THEN Targets(training.selected, training.limit, Mentions(line))
                        ELSE {}
           miner == Learn(training.miner, line.template)
           id == MatchTemplateId(miner, line.template)
       IN  IF targets = {}
             THEN /\ training' = [training EXCEPT !.read = @ + 1]
                  /\ UNCHANGED stateFile
             ELSE /\ training' = [training EXCEPT
                        !.read = @ + 1,
                        !.selected = @ \cup targets,
                        !.mined = Append(@, line.template),
                        !.miner = miner,
                        !.sequences = Extend(@, targets, id)]
                  /\ stateFile' \in {stateFile, miner}
    /\ UNCHANGED netFile

(* Mutant: no miner.save_state.                                             *)
ParsedUnsaved ==
    /\ At("parse")
    /\ training.read = Len(training.log)
    /\ training' = [training EXCEPT !.at = "split"]
    /\ UNCHANGED <<netFile, stateFile>>

Parsed ==
    /\ At("parse")
    /\ training.read = Len(training.log)
    /\ stateFile' = training.miner
    /\ training' = [training EXCEPT !.at = "split"]
    /\ UNCHANGED netFile

(* split_blocks.  Without anomalous blocks main exits, and without blocks   *)
(* to train on or to calibrate on numpy raises.                             *)
Split ==
    /\ At("split")
    /\ LET blocks == DOMAIN training.sequences
           s == SplitBlocks(Shuffled(Labelled(blocks, FALSE)), training.split)
       IN  training' =
             IF Labelled(blocks, TRUE) = {} \/ s.train = <<>> \/ s.val = <<>>
               THEN Nothing
               ELSE [training EXCEPT !.at = "fit", !.split = s]
    /\ UNCHANGED <<netFile, stateFile>>

(* fit and calibrate.                                                       *)
FitDetector ==
    /\ At("fit")
    /\ LET sequences == training.sequences
           train == training.split.train
           val == training.split.val
           sessions == [k \in DOMAIN train |-> sequences[train[k]]]
       IN  training' = [training EXCEPT
              !.at = "save",
              !.detector = [train |-> ToSet(train),
                            validation |-> [b \in ToSet(val) |-> sequences[b]],
                            vocabulary |-> Vocabulary(sessions),
                            weights |-> Fit(sessions)]]
    /\ UNCHANGED <<netFile, stateFile>>

SaveDetector ==
    /\ At("save")
    /\ netFile' = training.detector
    /\ training' = [training EXCEPT !.at = "parity"]
    /\ UNCHANGED stateFile

(* meta.json is for people only.                                            *)
WriteMeta ==
    /\ At("parity")
    /\ training' = [training EXCEPT !.at = "print", !.meta = Parity(training.mined, Loaded(stateFile))]
    /\ UNCHANGED <<netFile, stateFile>>

PrintFiles ==
    /\ At("print")
    /\ training' = Nothing
    /\ UNCHANGED <<netFile, stateFile>>

(* An exception or an interrupt, perhaps in the middle of writing a file:   *)
(* the miner's while the log is parsed, by Drain3 or by save_state, and     *)
(* the network's after the fit.                                             *)
TrainStops ==
    /\ training # Nothing
    /\ training' = Nothing
    /\ netFile' \in {netFile} \cup (IF At("save") THEN {Torn} ELSE {})
    /\ stateFile' \in {stateFile} \cup (IF At("parse") THEN {Torn} ELSE {})

TrainStep == AddLogMessage \/ Parsed \/ Split \/ FitDetector \/ SaveDetector \/ WriteMeta \/ PrintFiles

-----------------------------------------------------------------------------
(* score_logs: the template ids of every block of these lines.              *)
ServedSessions(lines, saved) ==
    LET groups == GroupByBlock(lines)
    IN  [b \in DOMAIN groups |->
            [i \in DOMAIN groups[b] |-> MatchTemplateId(saved, lines[groups[b][i]].template)]]

(* Once a training is through, the ingestion service reads the blocks of    *)
(* the log as the training did, although it matches lines with a saved      *)
(* miner and leaves no lines out: the network was trained on every window   *)
(* of its training blocks as often as it occurs, its threshold comes from   *)
(* other blocks, and the report says that all ids agree.                    *)
TrainedForServing ==
    At("print") =>
        LET log == Pick(training.log, {i \in DOMAIN training.log : training.log[i].parsed})
            served == ServedSessions(log, Loaded(stateFile))
            windows == [b \in netFile.train |-> Windows(netFile.vocabulary, served[b])]
            at(b, row) == {i \in DOMAIN windows[b] : windows[b][i] = row}
        IN  /\ netFile.vocabulary = UNION {ToSet(served[b]) : b \in netFile.train}
            /\ DOMAIN netFile.weights = UNION {ToSet(windows[b]) : b \in netFile.train}
            /\ \A row \in DOMAIN netFile.weights :
                 netFile.weights[row]
                   = Cardinality(UNION {{b} \X at(b, row) : b \in netFile.train})
            /\ netFile.train \cap DOMAIN netFile.validation = {}
            /\ \A b \in DOMAIN netFile.validation : netFile.validation[b] = served[b]
            /\ training.meta.same = training.meta.checked /\ training.meta.unmatched = 0
=============================================================================
