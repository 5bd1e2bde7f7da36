----------------------------- MODULE SequenceEval -----------------------------
(***************************************************************************)
(* eval/run_sequence_eval.py: a sample of labelled blocks is scored by the *)
(* saved detector, what it flags rightly is diagnosed block by block, and  *)
(* a second model judges each diagnosis.  The results are written at the   *)
(* very end, to a file named after the seed.                               *)
(*                                                                         *)
(* The verdicts of the detector and the answers of both models are open; a *)
(* verdict of the judge is a pass or not (PASS_THRESHOLD).                 *)
(***************************************************************************)
EXTENDS WorkingTree

CONSTANTS
    EvalLog,        \* the log, as a sequence of [blocks, template, parsed]
    Seeds,
    Sampled(_),     \* of a seed, the blocks that random.Random(seed) draws
    JudgeAttempts   \* range(6)

ASSUME EvalAssumption ==
    /\ IsFiniteSet(Seeds)
    /\ \A s \in Seeds : Sampled(s) \subseteq DOMAIN Labels /\ IsFiniteSet(Sampled(s))
    /\ JudgeAttempts \in Nat \ {0}

VARIABLES
    evalAt,     \* where main is
    seed, dryRun, selected,
    scored,     \* the selected blocks that have a result
    flagged,    \* those of them that the detector flagged
    todo,       \* the true positives that are not done
    current,    \* the one that is before the judge, Nothing between two blocks
    cases,      \* [block, pass] of those that were diagnosed and judged
    errors,     \* the blocks that ran into an error
    attempt,    \* of judge: the loop's variable, from 1
    reasoning,  \* of judge: use_reasoning_effort
    limits,     \* history: the rate limits this case has met
    results     \* results[s]: the results file of seed s

options == <<seed, dryRun, selected>>
detection == <<scored, flagged>>
progress == <<todo, current, cases, errors>>
asking == <<attempt, reasoning, limits>>
evalVars == <<evalAt, options, detection, progress, asking, results>>

-----------------------------------------------------------------------------
(* collect_lines: every line that parses and mentions a selected block.     *)
CollectLines(blocks) ==
    {i \in DOMAIN EvalLog :
        EvalLog[i].parsed /\ ToSet(EvalLog[i].blocks) \cap blocks # {}}

(* Of the blocks that these lines mention, all of which score_logs gives a  *)
(* result, the selected ones.                                               *)
Scored == selected \cap UNION {ToSet(EvalLog[i].blocks) : i \in CollectLines(selected)}

Summary ==
    [missing |-> Cardinality(selected \ scored),
     tp |-> Cardinality(Labelled(flagged, TRUE)),
     fn |-> Cardinality(Labelled(scored \ flagged, TRUE)),
     fp |-> Cardinality(Labelled(flagged, FALSE)),
     normal |-> Cardinality(Labelled(scored, FALSE)),
     cases |-> cases,
     errored |-> errors]

-----------------------------------------------------------------------------
EvalInit ==
    /\ evalAt = "off"
    /\ seed = Nothing
    /\ dryRun = FALSE
    /\ selected = {}
    /\ scored = {}
    /\ flagged = {}
    /\ todo = {}
    /\ current = Nothing
    /\ cases = <<>>
    /\ errors = <<>>
    /\ attempt = 0
    /\ reasoning = TRUE
    /\ limits = 0
    /\ results = [s \in Seeds |-> Nothing]

(* The locals are gone.                                                     *)
EvalEnds ==
    /\ evalAt' = "off"
    /\ seed' = Nothing
    /\ dryRun' = FALSE
    /\ selected' = {}
    /\ scored' = {}
    /\ flagged' = {}
    /\ todo' = {}
    /\ current' = Nothing
    /\ cases' = <<>>
    /\ errors' = <<>>
    /\ attempt' = 0
    /\ reasoning' = TRUE
    /\ limits' = 0

(* sample_blocks.  Without both models, or with one that judges    *)
(* itself, main ends before it does anything.                               *)
Evaluate(s, dry) ==
    /\ evalAt = "off"
    /\ selected' = Sampled(s)
    /\ seed' = s
    /\ dryRun' = dry
    /\ evalAt' = "score"
    /\ UNCHANGED <<detection, progress, asking, results>>

(* SequenceScorer needs both of its files.  A dry run prints and returns.   *)
ScoreSample(available) ==
    /\ evalAt = "score"
    /\ IF ~ available \/ dryRun
         THEN EvalEnds
         ELSE /\ scored' = Scored
              /\ flagged' \in SUBSET scored'
              /\ todo' = Labelled(flagged', TRUE)
              /\ evalAt' = "index"
              /\ UNCHANGED <<options, current, cases, errors, asking>>
    /\ UNCHANGED results

(* build_kb_index, whose errors nobody catches: see EvalStops.              *)
IndexKnowledgeBase ==
    /\ evalAt = "index"
    /\ evalAt' = "diagnose"
    /\ UNCHANGED <<options, detection, progress, asking, results>>

(* run_diagnostic_pipeline, and on to the judge.  The order of the blocks   *)
(* is left open.                                                            *)
DiagnoseBlock ==
    /\ evalAt = "diagnose"
    /\ current' \in todo
    /\ evalAt' = "judge"
    /\ attempt' = 1
    /\ reasoning' = TRUE
    /\ limits' = 0
    /\ UNCHANGED <<options, detection, todo, cases, errors, results>>

(* The block that an error may meet: any that comes next, or the one that   *)
(* is being judged.                                                         *)
InHand == IF evalAt = "diagnose" THEN todo ELSE {current}

(* Mutant: no `continue` after an error.                                    *)
BlockErrsAndCounts ==
    /\ evalAt \in {"diagnose", "judge", "fallback"}
    /\ \E b \in InHand :
          /\ errors' = Append(errors, b)
          /\ cases' = Append(cases, [block |-> b, pass |-> FALSE])
          /\ todo' = todo \ {b}
    /\ current' = Nothing
    /\ evalAt' = "diagnose"
    /\ UNCHANGED <<options, detection, asking, results>>

(* OpenAIError or JSONDecodeError, from the pipeline or from the judge.     *)
BlockErrs ==
    /\ evalAt \in {"diagnose", "judge", "fallback"}
    /\ \E b \in InHand :
          /\ errors' = Append(errors, b)
          /\ todo' = todo \ {b}
    /\ current' = Nothing
    /\ evalAt' = "diagnose"
    /\ UNCHANGED <<options, detection, cases, asking, results>>

Judged(pass) ==
    /\ evalAt \in {"judge", "fallback"}
    /\ cases' = Append(cases, [block |-> current, pass |-> pass])
    /\ todo' = todo \ {current}
    /\ current' = Nothing
    /\ evalAt' = "diagnose"
    /\ UNCHANGED <<options, detection, errors, asking, results>>

(* BadRequestError: the same attempt goes on without reasoning_effort.      *)
BadRequest ==
    /\ evalAt = "judge"
    /\ reasoning' = FALSE
    /\ evalAt' = "fallback"
    /\ UNCHANGED <<options, detection, progress, attempt, limits, results>>

(* Mutant: the first rate limit of the fallback is the last.                *)
JudgeLimitedOnce ==
    /\ evalAt \in {"judge", "fallback"}
    /\ limits' = limits + 1
    /\ IF attempt < JudgeAttempts /\ evalAt = "judge"
         THEN attempt' = attempt + 1 /\ evalAt' = "judge"
         ELSE evalAt' = "limited" /\ UNCHANGED attempt
    /\ UNCHANGED <<options, detection, progress, reasoning, results>>

(* Mutant: the loop starts again.                                           *)
JudgeLimitedForGood ==
    /\ evalAt \in {"judge", "fallback"}
    /\ limits' = (limits + 1) % (JudgeAttempts + 1)
    /\ attempt' = 1
    /\ evalAt' = "judge"
    /\ UNCHANGED <<options, detection, progress, reasoning, results>>

(* RateLimitError from either call: wait and go on with the next attempt,   *)
(* or raise the RuntimeError that ends main.                                *)
JudgeLimited ==
    /\ evalAt \in {"judge", "fallback"}
    /\ limits' = limits + 1
    /\ IF attempt < JudgeAttempts
         THEN attempt' = attempt + 1 /\ evalAt' = "judge"
         ELSE evalAt' = "limited" /\ UNCHANGED attempt
    /\ UNCHANGED <<options, detection, progress, reasoning, results>>

Abandon ==
    /\ evalAt = "limited"
    /\ EvalEnds
    /\ UNCHANGED results

WriteResults ==
    /\ evalAt = "diagnose"
    /\ todo = {}
    /\ results' = [results EXCEPT ![seed] = Summary]
    /\ EvalEnds

(* An exception that nobody catches, or an interrupt, perhaps in the middle *)
(* of writing the file.                                                     *)
EvalStops ==
    /\ evalAt # "off"
    /\ EvalEnds
    /\ \/ UNCHANGED results
       \/ /\ evalAt = "diagnose" /\ todo = {}
          /\ results' = [results EXCEPT ![seed] = Torn]

EvalStep(available) ==
    \/ ScoreSample(available)
    \/ IndexKnowledgeBase
    \/ DiagnoseBlock
    \/ BlockErrs
    \/ \E pass \in BOOLEAN : Judged(pass)
    \/ BadRequest
    \/ JudgeLimited
    \/ Abandon
    \/ WriteResults

-----------------------------------------------------------------------------
(* The blocks of a sequence of cases.                                       *)
BlocksOf(s) == [k \in DOMAIN s |-> s[k].block]

(* When the results are written, every selected block is in one account: it *)
(* is missing if no line of the log that parses mentions it, and otherwise  *)
(* among the hits, the misses, the false alarms or the rest; and each hit   *)
(* is either a judged case or an error, once, whatever calls failed.        *)
BlocksAreAccountedFor ==
    evalAt = "diagnose" /\ todo = {} =>
        LET found == {b \in selected : \E i \in DOMAIN EvalLog :
                        EvalLog[i].parsed /\ b \in ToSet(EvalLog[i].blocks)}
        IN  /\ Summary.missing = Cardinality(selected \ found)
            /\ Summary.missing + Summary.tp + Summary.fn + Summary.normal = Cardinality(selected)
            /\ Len(cases) + Len(errors) = Summary.tp
            /\ ToSet(BlocksOf(cases)) \cup ToSet(errors)
                 = Labelled(found \cap flagged, TRUE)

(* The run is given up for rate limits, and all its verdicts with it, only  *)
(* after one block has met one in each attempt, the calls without           *)
(* reasoning_effort included.                                               *)
JudgeGivesUpLast == evalAt = "limited" => limits = JudgeAttempts
=============================================================================
