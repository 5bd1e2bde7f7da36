------------------------------ MODULE BlindReview ------------------------------
(***************************************************************************)
(* eval/blind_review.py: a stratified sample of the judged cases of some   *)
(* results files goes to a blind file, and the judge's verdicts on it to   *)
(* an answer key.                                                          *)
(***************************************************************************)
EXTENDS SequenceEval

VARIABLES
    review,     \* the locals of main, Nothing while it does not run
    blindFile,  \* the cases
    keyFile     \* of each case key, the judge's verdict

reviewVars == <<review, blindFile, keyFile>>

(* load_cases.                                                              *)
LoadCases(sources) ==
    UNION {{[seed |-> s, block |-> c.block, pass |-> c.pass] : c \in ToSet(results[s].cases)}
             : s \in sources}

(* Mutant: the seed is left out.                                            *)
BlockKey(case) == case.block

CaseKey(case) == <<case.seed, case.block>>

(* stratified_sample: how many of the passed and of the failed cases.       *)
Strata(nPassed, nFailed, n) ==
    LET wanted == IF nFailed = 0 THEN 0 ELSE Min({nFailed, Max({1, n \div 3})})
        pass == Min({nPassed, n - wanted})
    IN  [pass |-> pass, fail |-> Min({nFailed, n - pass})]

ReviewInit ==
    /\ review = Nothing
    /\ blindFile = Nothing
    /\ keyFile = Nothing

(* A results file that is missing or broken ends main at once.              *)
Review(sources, n) ==
    /\ review = Nothing
    /\ \A s \in sources : results[s] \notin {Nothing, Torn}
    /\ LET all == LoadCases(sources)
           passed == {c \in all : c.pass}
           take == Strata(Cardinality(passed), Cardinality(all \ passed), n)
       IN  \E p \in kSubset(take.pass, passed), f \in kSubset(take.fail, all \ passed) :
             review' = [at |-> "blind", n |-> n, all |-> all, sample |-> p \cup f]
    /\ UNCHANGED <<blindFile, keyFile>>

ReviewAt(place) == review # Nothing /\ review.at = place

WriteBlind ==
    /\ ReviewAt("blind")
    /\ blindFile' = review.sample
    /\ review' = [review EXCEPT !.at = "key"]
    /\ UNCHANGED keyFile

WriteKey ==
    /\ ReviewAt("key")
    /\ keyFile' = [key \in {CaseKey(c) : c \in review.sample} |->
                     (CHOOSE c \in review.sample : CaseKey(c) = key).pass]
    /\ review' = [review EXCEPT !.at = "print"]
    /\ UNCHANGED blindFile

PrintCounts ==
    /\ ReviewAt("print")
    /\ review' = Nothing
    /\ UNCHANGED <<blindFile, keyFile>>

(* An interrupt, perhaps in the middle of writing a file.                   *)
ReviewStops ==
    /\ review # Nothing
    /\ review' = Nothing
    /\ blindFile' \in {blindFile} \cup (IF ReviewAt("blind") THEN {Torn} ELSE {})
    /\ keyFile' \in {keyFile} \cup (IF ReviewAt("key") THEN {Torn} ELSE {})

ReviewStep == WriteBlind \/ WriteKey \/ PrintCounts

-----------------------------------------------------------------------------
(* A review that has written both files can be graded: it holds as many     *)
(* cases as it was asked for, if there are so many, of both kinds if there  *)
(* are both, and the key gives each case its own verdict although two runs  *)
(* may have judged the same block.                                          *)
ReviewIsAnswerable ==
    ReviewAt("print") =>
        /\ Cardinality(blindFile) = Min({review.n, Cardinality(review.all)})
        /\ review.n >= 2 =>
             \A c \in review.all : \E d \in blindFile : d.pass = c.pass
        /\ \A c \in blindFile : keyFile[CaseKey(c)] = c.pass
=============================================================================
