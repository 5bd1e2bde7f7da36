------------------------------ MODULE Experiments ------------------------------
(***************************************************************************)
(* The offline programs in one working tree: training leaves the model     *)
(* that the evaluation loads, the evaluation the results that the review   *)
(* samples.  They are run by hand, one at a time and in any order, and any *)
(* of them may be stopped anywhere.                                        *)
(***************************************************************************)
EXTENDS Training, BlindReview, GoldenEval

CONSTANTS
    ReviewSizes,    \* --n
    MaxStarts       \* bound on the programs that are started

ASSUME ReviewAssumption == ReviewSizes \subseteq Nat \ {0}

VARIABLE starts

expVars == <<trainVars, evalVars, reviewVars, golden, starts>>

ExpInit ==
    /\ TrainInit
    /\ EvalInit
    /\ ReviewInit
    /\ GoldenInit
    /\ starts = 0

NothingRuns == training = Nothing /\ evalAt = "off" /\ review = Nothing /\ golden = Nothing

(* SequenceScorer needs a network and a miner that it can load.             *)
ModelAvailable == netFile \notin {Nothing, Torn} /\ stateFile \notin {Nothing, Torn}

(* A bound on the orders, which leaves out nothing that one program could   *)
(* read of another: run_eval comes first if at all, the training before any *)
(* results, and the review last.                                            *)
Start ==
    /\ NothingRuns
    /\ starts < MaxStarts
    /\ starts' = starts + 1
    /\ \/ /\ results = [s \in Seeds |-> Nothing]
          /\ \E log \in TrainingLogs, limit \in BlockLimits, split \in Splits :
                Train(log, limit, split)
          /\ UNCHANGED <<evalVars, reviewVars, golden>>
       \/ /\ \E s \in Seeds, dry \in BOOLEAN : Evaluate(s, dry)
          /\ UNCHANGED <<trainVars, reviewVars, golden>>
       \/ /\ starts = MaxStarts - 1
          /\ \E sources \in (SUBSET Seeds) \ {{}}, n \in ReviewSizes : Review(sources, n)
          /\ UNCHANGED <<trainVars, evalVars, golden>>
       \/ /\ starts = 0
          /\ \E mock \in BOOLEAN : RunEval(mock)
          /\ UNCHANGED <<trainVars, evalVars, reviewVars>>

(* The program that runs takes a step.                                      *)
Step ==
    /\ \/ TrainStep /\ UNCHANGED <<evalVars, reviewVars, golden>>
       \/ EvalStep(ModelAvailable) /\ UNCHANGED <<trainVars, reviewVars, golden>>
       \/ ReviewStep /\ UNCHANGED <<trainVars, evalVars, golden>>
       \/ GoldenStep /\ UNCHANGED <<trainVars, evalVars, reviewVars>>
    /\ UNCHANGED starts

Stop ==
    /\ \/ TrainStops /\ UNCHANGED <<evalVars, reviewVars, golden>>
       \/ EvalStops /\ UNCHANGED <<trainVars, reviewVars, golden>>
       \/ ReviewStops /\ UNCHANGED <<trainVars, evalVars, golden>>
       \/ GoldenStops /\ UNCHANGED <<trainVars, evalVars, reviewVars>>
    /\ UNCHANGED starts

ExpNext == Start \/ Step \/ Stop

(* A program goes on: its calls return or raise.                            *)
ExpSpec == ExpInit /\ [][ExpNext]_expVars /\ WF_expVars(Step)

-----------------------------------------------------------------------------
(* Every program comes to its end, whatever its calls answer: above all,    *)
(* rate limits do not keep the judge asking for ever.                       *)
EveryProgramEnds == ~ NothingRuns ~> NothingRuns
=============================================================================
