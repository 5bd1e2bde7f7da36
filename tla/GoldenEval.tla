------------------------------ MODULE GoldenEval ------------------------------
(***************************************************************************)
(* eval/run_eval.py with eval/judge.py: the golden cases one by one, the   *)
(* known-normal ones against the baseline only, the others through the     *)
(* detector, the diagnostic pipeline and the judge.  Verdicts, diagnoses   *)
(* and scores are open.                                                    *)
(***************************************************************************)
EXTENDS WorkingTree

CONSTANT
    GoldenCases     \* golden_dataset.json: of each case, whether it is negative

ASSUME GoldenAssumption == GoldenCases \in Seq(BOOLEAN)

VARIABLE
    golden          \* the locals of run_eval, Nothing while it does not run

(* What judge_diagnosis returns as the score: a number on either side of    *)
(* the threshold, or something json.loads made of it that is no number.     *)
JudgeScores == {"pass", "fail", "no number"}

GoldenInit == golden = Nothing

(* _build_kb and _get_baseline_store.  With MOCK_LLM there is no baseline,  *)
(* nor if it cannot be loaded; if the knowledge base cannot be built, or    *)
(* Qdrant answers with another error, run_eval ends.                        *)
RunEval(mock) ==
    /\ golden = Nothing
    /\ \E baseline \in BOOLEAN :
          /\ mock => ~ baseline
          /\ golden' = [mock |-> mock, baseline |-> baseline, next |-> 1,
                        positive |-> <<>>, negative |-> <<>>, skipped |-> 0]

Case(negative) ==
    /\ golden # Nothing
    /\ golden.next <= Len(GoldenCases)
    /\ GoldenCases[golden.next] = negative

NegativeSkipped ==
    /\ Case(TRUE)
    /\ ~ golden.baseline
    /\ golden' = [golden EXCEPT !.next = @ + 1, !.skipped = @ + 1]

NegativeChecked ==
    /\ Case(TRUE)
    /\ golden.baseline
    /\ \E flagged \in BOOLEAN :
          golden' = [golden EXCEPT !.next = @ + 1,
                                   !.negative = Append(@, [id |-> golden.next, flagged |-> flagged])]

(* Mutant: the case goes on to the pipeline.                                *)
PositiveMissedGoesOn ==
    /\ Case(FALSE)
    /\ golden.baseline
    /\ golden' = [golden EXCEPT !.positive =
                    @ \o <<[id |-> golden.next, score |-> "fail", missed |-> TRUE],
                           [id |-> golden.next, score |-> "fail", missed |-> FALSE]>>,
                                !.next = @ + 1]

(* is_anomalous says normal: the case counts with a score of 0.             *)
PositiveMissed ==
    /\ Case(FALSE)
    /\ golden.baseline
    /\ golden' = [golden EXCEPT
                    !.next = @ + 1,
                    !.positive = Append(@, [id |-> golden.next, score |-> "fail", missed |-> TRUE])]

(* run_diagnostic_pipeline and judge_diagnosis; the mock judge gives 0.9 or *)
(* 0.4.                                                                     *)
PositiveJudged ==
    /\ Case(FALSE)
    /\ \E score \in JudgeScores :
          /\ golden.mock => score # "no number"
          /\ golden' = [golden EXCEPT
                          !.next = @ + 1,
                          !.positive = Append(@, [id |-> golden.next, score |-> score, missed |-> FALSE])]

Summed == golden # Nothing /\ golden.next > Len(GoldenCases)

(* The summary compares and adds up the scores; one that is no number       *)
(* raises, and nothing is written.                                          *)
WriteSummary ==
    /\ Summed
    /\ golden' = Nothing

(* An exception of Qdrant, the pipeline or the judge, or an interrupt.      *)
GoldenStops ==
    /\ golden # Nothing
    /\ golden' = Nothing

GoldenStep ==
    NegativeSkipped \/ NegativeChecked \/ PositiveMissed \/ PositiveJudged \/ WriteSummary

-----------------------------------------------------------------------------
(* The outcomes in s are those of these cases, each once, in order.         *)
Lists(s, ids) ==
    /\ {s[k].id : k \in DOMAIN s} = ids
    /\ \A j, k \in DOMAIN s : j < k => s[j].id < s[k].id

(* The rates are of all cases: each positive one counts once, missed or     *)
(* judged, each negative one once, checked or skipped, and the negatives    *)
(* are skipped either all or not at all.                                    *)
GoldenCasesAreCounted ==
    Summed =>
        LET negatives == {i \in DOMAIN GoldenCases : GoldenCases[i]}
        IN  /\ Lists(golden.positive, DOMAIN GoldenCases \ negatives)
            /\ \/ golden.skipped = Cardinality(negatives) /\ golden.negative = <<>>
               \/ golden.skipped = 0 /\ Lists(golden.negative, negatives)
=============================================================================
