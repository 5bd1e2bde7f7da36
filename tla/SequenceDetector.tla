-------------------------- MODULE SequenceDetector --------------------------
(***************************************************************************)
(* libs/logsage_common/sequence_anomaly.py: scores computed for all        *)
(* sessions in one batch, and the threshold.                               *)
(*                                                                         *)
(* The network is left open: Surprise is what it makes of an event after   *)
(* `Window` others, the surprisal or the rank, as a natural number.        *)
(***************************************************************************)
EXTENDS SequenceWindows

CONSTANTS
    Vocabulary,         \* the templates of the training sessions
    Surprise(_, _),     \* of a context and a target token
    RateNum, RateDen    \* target_fpr = RateNum / RateDen

ASSUME DetectorAssumption ==
    /\ Vocabulary \subseteq Int
    /\ IsFiniteSet(Vocabulary)
    /\ RateDen \in Nat \ {0}
    /\ RateNum \in 0 .. RateDen
    /\ \A context \in [1 .. Window -> Tokens(Vocabulary)], target \in Tokens(Vocabulary) :
         Surprise(context, target) \in Nat

-----------------------------------------------------------------------------

(* Mutant: the end of a session counts for the next one, too.               *)
MaximaOverlapping(steps, lens) ==
    [k \in DOMAIN lens |->
        LET first == IF k = 1 THEN 1 ELSE Sums(lens)[k - 1]
        IN  Max({steps[i] : i \in first .. Sums(lens)[k]})]

(* np.maximum.reduceat: the maxima between one offset and the next.         *)
Maxima(steps, lens) ==
    [k \in DOMAIN lens |->
        Max({steps[i] : i \in Sums(lens)[k - 1] + 1 .. Sums(lens)[k]})]

(* score: the windows of all different sessions in one batch, the worst     *)
(* window of each, and those back to all sessions that are alike.           *)
Scores(sessions) ==
    LET unique == Distinct(sessions)
        windows == [k \in DOMAIN unique |-> Windows(Vocabulary, unique[k])]
        batch == FlattenSeq(windows)
        steps == [i \in DOMAIN batch |-> Surprise(batch[i].context, batch[i].target)]
        worst == Maxima(steps, [k \in DOMAIN unique |-> Len(windows[k])])
    IN  [j \in DOMAIN sessions |-> worst[CHOOSE k \in DOMAIN unique : unique[k] = sessions[j]]]

-----------------------------------------------------------------------------
(* Thresholds are times RateDen, because a quantile may fall between scores.*)
Flagged(scores, threshold) == {k \in DOMAIN scores : scores[k] * RateDen > threshold}

(* Mutant: the loop counts the scores > g.                                  *)
RankThresholdLow(scores) ==
    LET few(g) == Cardinality({k \in DOMAIN scores : scores[k] > g}) * RateDen
                    <= RateNum * Len(scores)
        g == CHOOSE h \in 1 .. Max(ToSet(scores)) + 1 : few(h) /\ \A i \in 1 .. h - 1 : ~ few(i)
    IN  (g - 1) * RateDen

(* calibrate in mode "rank": the least g with few enough scores >= g, less  *)
(* one, so that "beyond the threshold" means "at least g".                  *)
RankThreshold(scores) ==
    LET few(g) == Cardinality({k \in DOMAIN scores : scores[k] >= g}) * RateDen
                    <= RateNum * Len(scores)
        g == CHOOSE h \in 1 .. Max(ToSet(scores)) + 1 : few(h) /\ \A i \in 1 .. h - 1 : ~ few(i)
    IN  (g - 1) * RateDen

(* and in mode "surprisal": np.quantile(scores, 1 - target_fpr), which is   *)
(* linear between the two scores next to the position.                      *)
QuantileThreshold(scores) ==
    LET sorted == Sorted(scores)
        position == (Len(scores) - 1) * (RateDen - RateNum)
        below == sorted[position \div RateDen + 1]
        above == IF position % RateDen = 0 THEN below ELSE sorted[position \div RateDen + 2]
    IN  below * RateDen + (above - below) * (position % RateDen)

Calibrate(mode, sessions) ==
    IF mode = "rank" THEN RankThreshold(Scores(sessions)) ELSE QuantileThreshold(Scores(sessions))
=============================================================================
