--------------------------- MODULE ExperimentsProofs ---------------------------
(***************************************************************************)
(* What holds of the evaluation, the review, the golden cases and the      *)
(* training whatever the log, the labels, the sample, the number of        *)
(* attempts and the calls.                                                 *)
(*                                                                         *)
(* The evaluation keeps an account: of the true positives, those that are  *)
(* not done, the judged cases and the errors are disjoint, so that a block *)
(* is judged at most once per results file, and the review can tell its    *)
(* cases apart by seed and block.                                          *)
(*                                                                         *)
(* The training keeps three relations.  While it reads, every session is   *)
(* what the miner as it is by now makes of all the lines of its block that *)
(* were read: identifiers stay what they were when templates are added.    *)
(* Once the blocks are shuffled and cut, no block is trained on twice or   *)
(* both trained on and calibrated on.  And the weight of a session among   *)
(* the distinct ones is the number of blocks that have it, so that summing *)
(* over distinct sessions counts the windows of the blocks.                *)
(***************************************************************************)
EXTENDS Experiments, FiniteOrders

-----------------------------------------------------------------------------
(* The evaluation.                                                          *)

Hits == Labelled(flagged, TRUE)
Blocks(s) == {s[k].block : k \in DOMAIN s}

(* The cases of a results file: no block twice.                             *)
Judgements(s) ==
    /\ s \in Seq([block : DOMAIN Labels, pass : BOOLEAN])
    /\ \A j, k \in DOMAIN s : s[j].block = s[k].block => j = k

Places == {"off", "score", "index", "diagnose", "judge", "fallback", "limited"}

SelectionInv ==
    /\ evalAt \in Places
    /\ evalAt # "off" => seed \in Seeds /\ selected = Sampled(seed)
    /\ evalAt \notin {"off", "score"} => scored = Scored
    /\ flagged \subseteq scored
    /\ evalAt \in {"off", "score"} => scored = {}
    /\ evalAt \in {"judge", "fallback", "limited"} => current \in todo

AccountInv ==
    /\ IsFiniteSet(Hits)
    /\ todo \subseteq Hits
    /\ Judgements(cases)
    /\ errors \in Seq(DOMAIN Labels)
    /\ Blocks(cases) \cup ToSet(errors) = Hits \ todo
    /\ Len(cases) + Len(errors) + Cardinality(todo) = Cardinality(Hits)

AttemptInv ==
    /\ evalAt \in {"judge", "fallback"} => attempt \in 1 .. JudgeAttempts /\ limits = attempt - 1
    /\ evalAt = "limited" => limits = JudgeAttempts

ResultsInv ==
    /\ results = [s \in Seeds |-> results[s]]
    /\ \A s \in Seeds : results[s] \notin {Nothing, Torn} => Judgements(results[s].cases)

EvalInv == SelectionInv /\ AccountInv /\ AttemptInv /\ ResultsInv

EvalNext ==
    \/ \E s \in Seeds, dry \in BOOLEAN : Evaluate(s, dry)
    \/ EvalStep(ModelAvailable)
    \/ EvalStops

(* One more case, or one more error.                                        *)
LEMMA OneMoreCase ==
    ASSUME NEW s, Judgements(s), NEW b \in DOMAIN Labels, NEW pass \in BOOLEAN, b \notin Blocks(s)
    PROVE  LET t == Append(s, [block |-> b, pass |-> pass])
           IN  Judgements(t) /\ Blocks(t) = Blocks(s) \cup {b} /\ Len(t) = Len(s) + 1
<1> DEFINE t == Append(s, [block |-> b, pass |-> pass])
<1>1. /\ t \in Seq([block : DOMAIN Labels, pass : BOOLEAN])
      /\ Len(s) \in Nat /\ Len(t) = Len(s) + 1
      /\ DOMAIN s = 1 .. Len(s) /\ DOMAIN t = 1 .. Len(s) + 1
      /\ \A k \in DOMAIN s : t[k] = s[k]
      /\ t[Len(s) + 1].block = b
  BY DEF Judgements
<1>2. Blocks(t) = Blocks(s) \cup {b}
  <2> HIDE DEF t
  <2>1. \A k \in DOMAIN t : k \in DOMAIN s \/ k = Len(s) + 1
    BY <1>1
  <2>2. Len(s) + 1 \in DOMAIN t /\ DOMAIN s \subseteq DOMAIN t
    BY <1>1
  <2>3. QED
    BY <1>1, <2>1, <2>2 DEF Blocks
<1>3. \A j, k \in DOMAIN t : t[j].block = t[k].block => j = k
  <2> HIDE DEF t
  <2>1. \A k \in DOMAIN t : k \in DOMAIN s \/ k = Len(s) + 1
    BY <1>1
  <2>2. \A k \in DOMAIN s : t[k].block = s[k].block /\ s[k].block # b
    BY <1>1 DEF Blocks
  <2>3. QED
    BY <1>1, <2>1, <2>2 DEF Judgements
<1> QED
  BY <1>1, <1>2, <1>3 DEF Judgements

LEMMA OneMoreError ==
    ASSUME NEW s \in Seq(DOMAIN Labels), NEW b \in DOMAIN Labels
    PROVE  /\ Append(s, b) \in Seq(DOMAIN Labels)
           /\ ToSet(Append(s, b)) = ToSet(s) \cup {b}
           /\ Len(Append(s, b)) = Len(s) + 1
<1> DEFINE t == Append(s, b)
<1>1. /\ t \in Seq(DOMAIN Labels) /\ Len(s) \in Nat /\ Len(t) = Len(s) + 1
      /\ DOMAIN s = 1 .. Len(s) /\ DOMAIN t = 1 .. Len(s) + 1
      /\ \A k \in DOMAIN s : t[k] = s[k]
      /\ t[Len(s) + 1] = b
  OBVIOUS
<1>2. ToSet(t) = ToSet(s) \cup {b}
  <2> HIDE DEF t
  <2>1. \A k \in DOMAIN t : k \in DOMAIN s \/ k = Len(s) + 1
    BY <1>1
  <2>2. Len(s) + 1 \in DOMAIN t /\ DOMAIN s \subseteq DOMAIN t
    BY <1>1
  <2>3. QED
    BY <1>1, <2>1, <2>2 DEF ToSet
<1> QED
  BY <1>1, <1>2

(* What an evaluation starts from and comes back to.                        *)
LEMMA EmptyAccount ==
    /\ Labelled({}, TRUE) = {} /\ IsFiniteSet({}) /\ Cardinality({}) = 0
    /\ Judgements(<<>>) /\ <<>> \in Seq(DOMAIN Labels)
    /\ Blocks(<<>>) = {} /\ ToSet(<<>>) = {}
    /\ Len(<<>>) = 0
  BY FS_EmptySet DEF Labelled, Judgements, Blocks, ToSet

LEMMA ElementIn ==
    ASSUME NEW S, NEW s \in Seq(S), NEW k \in DOMAIN s
    PROVE  s[k] \in S
  OBVIOUS

LEMMA EmptyIsNone ==
    ASSUME NEW S, NEW s \in Seq(S), Len(s) = 0
    PROVE  s = <<>>
  OBVIOUS

LEMMA EndedInv ==
    ASSUME EvalEnds
    PROVE  SelectionInv' /\ AccountInv' /\ AttemptInv'
<1> USE EmptyAccount
<1>1. /\ evalAt' = "off" /\ scored' = {} /\ flagged' = {} /\ todo' = {} /\ cases' = <<>>
      /\ errors' = <<>>
  BY DEF EvalEnds
<1>2. AccountInv'
  <2>1. Hits' = {}
    BY <1>1 DEF Hits
  <2>2. QED
    BY <1>1, <2>1 DEF AccountInv
<1> QED
  BY <1>1, <1>2 DEF SelectionInv, AttemptInv, Places

LEMMA EvalInitInv == EvalInit => EvalInv
<1> SUFFICES ASSUME EvalInit PROVE EvalInv
  OBVIOUS
<1> USE EmptyAccount DEF EvalInit
<1>1. AccountInv
  <2>1. Hits = {}
    BY DEF Hits
  <2>2. QED
    BY <2>1 DEF AccountInv
<1>2. ResultsInv
  BY DEF ResultsInv
<1> QED
  BY <1>1, <1>2 DEF EvalInv, SelectionInv, AttemptInv, Places

LEMMA EvaluateInv ==
    ASSUME EvalInv, NEW s \in Seeds, NEW dry, Evaluate(s, dry)
    PROVE  EvalInv'
<1> USE DEF EvalInv, Evaluate, detection, progress, asking
<1>1. SelectionInv'
  BY DEF SelectionInv, Places, Scored
<1>2. AccountInv'
  BY DEF AccountInv, Hits
<1> QED
  BY <1>1, <1>2 DEF AttemptInv, ResultsInv

LEMMA ScoreSampleInv ==
    ASSUME EvalInv, NEW available \in BOOLEAN, ScoreSample(available)
    PROVE  EvalInv'
<1> USE DEF EvalInv
<1>1. UNCHANGED results /\ evalAt = "score"
  BY DEF ScoreSample
<1>2. ResultsInv'
  BY <1>1 DEF ResultsInv
<1>3. CASE EvalEnds
  BY <1>2, <1>3, EndedInv
<1>4. CASE ~ EvalEnds
  <2>1. /\ scored' = Scored /\ flagged' \subseteq scored' /\ todo' = Labelled(flagged', TRUE)
        /\ evalAt' = "index" /\ UNCHANGED <<options, current, cases, errors, asking>>
    BY <1>4 DEF ScoreSample
  <2>2. seed \in Seeds /\ selected = Sampled(seed) /\ scored = {} /\ flagged = {}
    BY <1>1 DEF SelectionInv
  <2>3. SelectionInv'
    BY <2>1, <2>2 DEF SelectionInv, Places, options, Scored
  <2>4. cases = <<>> /\ errors = <<>>
    <3>1. Hits = {}
      BY <2>2, EmptyAccount DEF Hits
    <3>2. Len(cases) \in Nat /\ Len(errors) \in Nat /\ todo = {}
      BY <3>1 DEF AccountInv, Judgements
    <3>3. Len(cases) = 0 /\ Len(errors) = 0
      BY <3>1, <3>2, EmptyAccount DEF AccountInv
    <3>4. QED
      BY <3>3, EmptyIsNone DEF AccountInv, Judgements
  <2>5. AccountInv'
    <3>1. /\ todo' = Hits' /\ cases' = <<>> /\ errors' = <<>>
      BY <2>1, <2>4 DEF Hits
    <3>2. IsFiniteSet(selected)
      BY <2>2, EvalAssumption
    <3>3. Hits' \subseteq selected
      BY <2>1 DEF Hits, Labelled, Scored
    <3>4. IsFiniteSet(Hits') /\ Cardinality(Hits') \in Nat
      BY <3>2, <3>3, FS_Subset, FS_CardinalityType
    <3>5. QED
      BY <3>1, <3>4, EmptyAccount DEF AccountInv
  <2>6. QED
    BY <1>2, <2>1, <2>3, <2>5 DEF AttemptInv
<1> QED
  BY <1>3, <1>4

LEMMA DiagnoseBlockInv ==
    ASSUME EvalInv, DiagnoseBlock
    PROVE  EvalInv'
<1> USE DEF EvalInv, DiagnoseBlock, options, detection
<1>1. SelectionInv'
  BY DEF SelectionInv, Places, Scored
<1>2. AccountInv'
  BY DEF AccountInv, Hits
<1>3. AttemptInv'
  BY EvalAssumption DEF AttemptInv
<1> QED
  BY <1>1, <1>2, <1>3 DEF ResultsInv

(* A block that is done leaves the ones to do.                              *)
LEMMA OneLessToDo ==
    ASSUME AccountInv, NEW b \in todo
    PROVE  /\ b \in DOMAIN Labels /\ b \notin Blocks(cases) /\ b \notin ToSet(errors)
           /\ Hits \ (todo \ {b}) = (Hits \ todo) \cup {b}
           /\ Cardinality(todo \ {b}) = Cardinality(todo) - 1
           /\ Cardinality(todo) \in Nat /\ Cardinality(Hits) \in Nat
<1>1. b \in Hits /\ b \notin Hits \ todo
  BY DEF AccountInv
<1>2. IsFiniteSet(todo) /\ IsFiniteSet(Hits)
  BY FS_Subset DEF AccountInv
<1> QED
  BY <1>1, <1>2, FS_RemoveElement, FS_CardinalityType DEF AccountInv, Hits, Labelled

LEMMA JudgedInv ==
    ASSUME EvalInv, NEW pass \in BOOLEAN, Judged(pass)
    PROVE  EvalInv'
<1> USE DEF EvalInv
<1>1. /\ current \in todo /\ evalAt' = "diagnose" /\ todo' = todo \ {current}
      /\ cases' = Append(cases, [block |-> current, pass |-> pass])
      /\ UNCHANGED <<options, detection, errors, asking, results>>
      /\ evalAt \in {"judge", "fallback"}
  BY DEF Judged, SelectionInv
<1>2. SelectionInv'
  BY <1>1 DEF SelectionInv, options, detection, Places, Scored
<1>3. AccountInv'
  <2>1. Hits' = Hits /\ errors' = errors
    BY <1>1 DEF Hits, detection
  <2>2. PICK b \in todo : b = current
    BY <1>1
  <2>3. /\ b \in DOMAIN Labels /\ b \notin Blocks(cases)
        /\ Hits \ (todo \ {b}) = (Hits \ todo) \cup {b}
        /\ Cardinality(todo \ {b}) = Cardinality(todo) - 1
        /\ Cardinality(todo) \in Nat /\ Cardinality(Hits) \in Nat
    BY OneLessToDo
  <2>4. Judgements(cases') /\ Blocks(cases') = Blocks(cases) \cup {b} /\ Len(cases') = Len(cases) + 1
    BY <1>1, <2>2, <2>3, OneMoreCase DEF AccountInv
  <2>5. Len(cases) \in Nat /\ Len(errors) \in Nat
    BY DEF AccountInv, Judgements
  <2>6. /\ Blocks(cases') \cup ToSet(errors') = Hits' \ todo'
        /\ todo' \subseteq Hits'
    BY <1>1, <2>1, <2>2, <2>3, <2>4 DEF AccountInv
  <2>7. Len(cases') + Len(errors') + Cardinality(todo') = Cardinality(Hits')
    <3>1. Cardinality(todo') = Cardinality(todo) - 1
      BY <1>1, <2>2, <2>3
    <3>2. Len(cases) + Len(errors) + Cardinality(todo) = Cardinality(Hits)
      BY DEF AccountInv
    <3>3. QED
      BY <2>1, <2>3, <2>4, <2>5, <3>1, <3>2
  <2>8. QED
    BY <2>1, <2>4, <2>6, <2>7 DEF AccountInv
<1> QED
  BY <1>1, <1>2, <1>3 DEF AttemptInv, ResultsInv

LEMMA BlockErrsInv ==
    ASSUME EvalInv, BlockErrs
    PROVE  EvalInv'
<1> USE DEF EvalInv
<1>1. PICK b \in todo : errors' = Append(errors, b) /\ todo' = todo \ {b}
  BY DEF BlockErrs, InHand, SelectionInv
<1>2. /\ evalAt' = "diagnose" /\ evalAt \in {"diagnose", "judge", "fallback"}
      /\ UNCHANGED <<options, detection, cases, asking, results>>
  BY DEF BlockErrs
<1>3. SelectionInv'
  BY <1>2 DEF SelectionInv, options, detection, Places, Scored
<1>4. AccountInv'
  <2>1. Hits' = Hits /\ cases' = cases
    BY <1>2 DEF Hits, detection
  <2>2. /\ b \in DOMAIN Labels
        /\ Hits \ (todo \ {b}) = (Hits \ todo) \cup {b}
        /\ Cardinality(todo \ {b}) = Cardinality(todo) - 1
        /\ Cardinality(todo) \in Nat /\ Cardinality(Hits) \in Nat
    BY OneLessToDo
  <2>3. /\ errors' \in Seq(DOMAIN Labels) /\ ToSet(errors') = ToSet(errors) \cup {b}
        /\ Len(errors') = Len(errors) + 1
    BY <1>1, <2>2, OneMoreError DEF AccountInv
  <2>4. Len(cases) \in Nat /\ Len(errors) \in Nat
    BY DEF AccountInv, Judgements
  <2>5. /\ Blocks(cases') \cup ToSet(errors') = Hits' \ todo'
        /\ todo' \subseteq Hits'
    BY <1>1, <2>1, <2>2, <2>3 DEF AccountInv
  <2>6. Len(cases') + Len(errors') + Cardinality(todo') = Cardinality(Hits')
    <3>1. Cardinality(todo') = Cardinality(todo) - 1
      BY <1>1, <2>2
    <3>2. Len(cases) + Len(errors) + Cardinality(todo) = Cardinality(Hits)
      BY DEF AccountInv
    <3>3. QED
      BY <2>1, <2>2, <2>3, <2>4, <3>1, <3>2
  <2>7. QED
    BY <2>1, <2>3, <2>5, <2>6 DEF AccountInv
<1> QED
  BY <1>2, <1>3, <1>4 DEF AttemptInv, ResultsInv

(* The steps that leave the account alone.                                  *)
LEMMA AskingInv ==
    ASSUME EvalInv, IndexKnowledgeBase \/ BadRequest \/ JudgeLimited
    PROVE  EvalInv'
<1> USE DEF EvalInv, options, detection, progress, asking
<1>1. UNCHANGED <<options, detection, progress, results>>
  BY DEF IndexKnowledgeBase, BadRequest, JudgeLimited
<1>2. AccountInv' /\ ResultsInv'
  BY <1>1 DEF AccountInv, Hits, ResultsInv
<1>3. SelectionInv'
  BY <1>1 DEF SelectionInv, Places, Scored, IndexKnowledgeBase, BadRequest, JudgeLimited
<1>4. AttemptInv'
  BY EvalAssumption DEF AttemptInv, IndexKnowledgeBase, BadRequest, JudgeLimited
<1> QED
  BY <1>2, <1>3, <1>4

LEMMA EndingInv ==
    ASSUME EvalInv, Abandon \/ WriteResults \/ EvalStops
    PROVE  EvalInv'
<1> USE DEF EvalInv
<1>1. EvalEnds /\ evalAt # "off"
  BY DEF Abandon, WriteResults, EvalStops
<1>2. seed \in Seeds
  BY <1>1 DEF SelectionInv
<1>3. PICK file : /\ results' = results \/ results' = [results EXCEPT ![seed] = file]
                  /\ file \notin {Nothing, Torn} => Judgements(file.cases)
  <2>1. CASE WriteResults
    <3>1. Judgements(Summary.cases)
      BY DEF Summary, AccountInv
    <3>2. QED
      BY <2>1, <3>1 DEF WriteResults
  <2>2. CASE ~ WriteResults
    BY <2>2 DEF Abandon, EvalStops
  <2>3. QED
    BY <2>1, <2>2
<1>4. ResultsInv'
  BY <1>2, <1>3 DEF ResultsInv
<1> QED
  BY <1>1, <1>4, EndedInv

LEMMA EvalKeeps ==
    ASSUME EvalInv, EvalNext \/ UNCHANGED evalVars
    PROVE  EvalInv'
<1>1. CASE UNCHANGED evalVars
  <2>1. UNCHANGED <<evalAt, seed, selected, scored, flagged, todo, current, cases, errors, attempt, limits, results>>
    BY <1>1 DEF evalVars, options, detection, progress, asking
  <2>2. QED
    BY <2>1 DEF EvalInv, SelectionInv, AccountInv, AttemptInv, ResultsInv, Scored, Hits
<1>2. CASE EvalNext
  BY <1>2, EvaluateInv, ScoreSampleInv, DiagnoseBlockInv, JudgedInv, BlockErrsInv, AskingInv, EndingInv
    DEF EvalNext, EvalStep, ModelAvailable
<1> QED
  BY <1>1, <1>2

-----------------------------------------------------------------------------
(* The golden cases.                                                        *)

(* The cases of both kinds, and those that have had their turn.             *)
Negatives == {i \in DOMAIN GoldenCases : GoldenCases[i]}
Positives == DOMAIN GoldenCases \ Negatives
Done(ids, next) == {i \in ids : i < next}

Outcomes(s, ids) ==
    /\ s = [k \in 1 .. Len(s) |-> s[k]]
    /\ Len(s) \in Nat
    /\ Lists(s, ids)

GoldenInv ==
    golden # Nothing =>
        /\ golden = [mock |-> golden.mock, baseline |-> golden.baseline, next |-> golden.next,
                     positive |-> golden.positive, negative |-> golden.negative,
                     skipped |-> golden.skipped]
        /\ golden.baseline \in BOOLEAN
        /\ golden.next \in 1 .. Len(GoldenCases) + 1
        /\ Outcomes(golden.positive, Done(Positives, golden.next))
        /\ IF golden.baseline
             THEN golden.skipped = 0 /\ Outcomes(golden.negative, Done(Negatives, golden.next))
             ELSE /\ golden.negative = <<>>
                  /\ golden.skipped = Cardinality(Done(Negatives, golden.next))

GoldenNext == (\E mock \in BOOLEAN : RunEval(mock)) \/ GoldenStep \/ GoldenStops

LEMMA OneMoreOutcome ==
    ASSUME NEW s, NEW ids \in SUBSET Nat, Outcomes(s, ids),
           NEW e, NEW n \in Nat, e.id = n, \A i \in ids : i < n
    PROVE  Outcomes(Append(s, e), ids \cup {n})
<1> DEFINE t == Append(s, e)
<1> DEFINE elements == {s[k] : k \in 1 .. Len(s)} \cup {e}
<1>0. e \in elements /\ s \in Seq(elements)
  <2>1. \A k \in 1 .. Len(s) : s[k] \in elements
    OBVIOUS
  <2> HIDE DEF elements
  <2>2. [k \in 1 .. Len(s) |-> s[k]] \in Seq(elements)
    BY <2>1 DEF Outcomes
  <2>3. QED
    BY <2>2 DEF Outcomes, elements
<1>1. PICK S : s \in Seq(S) /\ e \in S
  BY <1>0
<1>2. /\ Len(s) \in Nat /\ Len(t) = Len(s) + 1
      /\ DOMAIN s = 1 .. Len(s) /\ DOMAIN t = 1 .. Len(s) + 1
      /\ \A k \in DOMAIN s : t[k] = s[k]
      /\ t[Len(s) + 1] = e
      /\ t \in Seq(S)
  BY <1>1
<1> HIDE DEF t
<1>3. \A k \in DOMAIN t : k \in DOMAIN s \/ k = Len(s) + 1
  BY <1>2
<1>4. Len(s) + 1 \in DOMAIN t /\ DOMAIN s \subseteq DOMAIN t
  BY <1>2
<1>5. {t[k].id : k \in DOMAIN t} = ids \cup {n}
  BY <1>2, <1>3, <1>4 DEF Outcomes, Lists
<1>6. ASSUME NEW j \in DOMAIN t, NEW k \in DOMAIN t, j < k
      PROVE  t[j].id < t[k].id
  <2>1. j \in DOMAIN s
    BY <1>2, <1>3, <1>6
  <2>2. CASE k \in DOMAIN s
    BY <1>2, <1>6, <2>1, <2>2 DEF Outcomes, Lists
  <2>3. CASE k = Len(s) + 1
    <3>1. t[j].id \in ids
      BY <1>2, <2>1 DEF Outcomes, Lists
    <3>2. QED
      BY <1>2, <2>3, <3>1
  <2>4. QED
    BY <1>3, <2>2, <2>3
<1>7. Len(t) \in Nat /\ t = [k \in 1 .. Len(t) |-> t[k]]
  BY <1>2
<1> QED
  BY <1>2, <1>5, <1>6, <1>7 DEF Outcomes, Lists, t

LEMMA NoOutcome == Outcomes(<<>>, {})
  BY DEF Outcomes, Lists

LEMMA GoldenState ==
    ASSUME NEW g, golden' = g,
           g = [mock |-> g.mock, baseline |-> g.baseline, next |-> g.next, positive |-> g.positive,
                negative |-> g.negative, skipped |-> g.skipped],
           g.baseline \in BOOLEAN,
           g.next \in 1 .. Len(GoldenCases) + 1,
           Outcomes(g.positive, Done(Positives, g.next)),
           g.baseline => g.skipped = 0 /\ Outcomes(g.negative, Done(Negatives, g.next)),
           ~ g.baseline => g.negative = <<>> /\ g.skipped = Cardinality(Done(Negatives, g.next))
    PROVE  GoldenInv'
  BY DEF GoldenInv

LEMMA RunEvalInv ==
    ASSUME GoldenInv, NEW mock, RunEval(mock)
    PROVE  GoldenInv'
<1> USE GoldenAssumption
<1>1. /\ Done(Negatives, 1) = {} /\ Done(Positives, 1) = {}
  BY DEF Done, Positives, Negatives
<1>2. PICK baseline \in BOOLEAN :
        golden' = [mock |-> mock, baseline |-> baseline, next |-> 1,
                   positive |-> <<>>, negative |-> <<>>, skipped |-> 0]
  BY DEF RunEval
<1>5. PICK g :
        /\ g = [mock |-> mock, baseline |-> baseline, next |-> 1,
                positive |-> <<>>, negative |-> <<>>, skipped |-> 0]
        /\ golden' = g
  BY <1>2
<1>4. /\ g = [mock |-> g.mock, baseline |-> g.baseline, next |-> g.next, positive |-> g.positive,
              negative |-> g.negative, skipped |-> g.skipped]
      /\ g.baseline \in BOOLEAN /\ g.next = 1 /\ g.positive = <<>> /\ g.negative = <<>>
      /\ g.skipped = 0
  BY <1>5
<1>3. 1 \in 1 .. Len(GoldenCases) + 1
  OBVIOUS
<1> QED
  BY <1>1, <1>3, <1>4, <1>5, NoOutcome, EmptyAccount, GoldenState

(* The next case goes to one of the two kinds.                              *)
LEMMA NextCase ==
    ASSUME GoldenInv, NEW negative \in BOOLEAN, Case(negative)
    PROVE  LET n == golden.next
           IN  /\ n \in Nat /\ n + 1 \in 1 .. Len(GoldenCases) + 1
               /\ Done(Negatives, n + 1) = Done(Negatives, n) \cup (IF negative THEN {n} ELSE {})
               /\ Done(Positives, n + 1) = Done(Positives, n) \cup (IF negative THEN {} ELSE {n})
               /\ Done(Negatives, n) \in SUBSET Nat /\ Done(Positives, n) \in SUBSET Nat
               /\ IsFiniteSet(Done(Negatives, n))
               /\ \A i \in Done(Negatives, n) \cup Done(Positives, n) : i < n
<1> USE GoldenAssumption
<1> DEFINE n == golden.next
<1>1. /\ n \in 1 .. Len(GoldenCases) /\ DOMAIN GoldenCases = 1 .. Len(GoldenCases)
      /\ GoldenCases[n] = negative /\ Len(GoldenCases) \in Nat
  BY DEF GoldenInv, Case
<1>2. \A i \in DOMAIN GoldenCases : i < n + 1 <=> (i < n \/ i = n)
  BY <1>1
<1>3. n \in Negatives <=> negative
  BY <1>1 DEF Negatives
<1>4. IsFiniteSet(Done(Negatives, n))
  <2>1. Done(Negatives, n) \subseteq 1 .. Len(GoldenCases)
    BY <1>1 DEF Done, Positives, Negatives
  <2>2. IsFiniteSet(1 .. Len(GoldenCases))
    BY <1>1, FS_Interval
  <2>3. QED
    BY <2>1, <2>2, FS_Subset
<1> QED
  BY <1>1, <1>2, <1>3, <1>4 DEF Done, Positives, Negatives

LEMMA GoldenStepInv ==
    ASSUME GoldenInv, NegativeSkipped \/ NegativeChecked \/ PositiveMissed \/ PositiveJudged
    PROVE  GoldenInv'
<1> DEFINE n == golden.next
<1>1. /\ golden # Nothing
      /\ golden = [mock |-> golden.mock, baseline |-> golden.baseline, next |-> n,
                   positive |-> golden.positive, negative |-> golden.negative,
                   skipped |-> golden.skipped]
      /\ golden.baseline \in BOOLEAN
      /\ Outcomes(golden.positive, Done(Positives, n))
      /\ golden.baseline => golden.skipped = 0 /\ Outcomes(golden.negative, Done(Negatives, n))
      /\ ~ golden.baseline => /\ golden.negative = <<>>
                              /\ golden.skipped = Cardinality(Done(Negatives, n))
  BY DEF GoldenInv, NegativeSkipped, NegativeChecked, PositiveMissed, PositiveJudged, Case
<1>2. CASE NegativeSkipped
  <2>1. /\ Case(TRUE) /\ ~ golden.baseline
        /\ golden' = [golden EXCEPT !.next = @ + 1, !.skipped = @ + 1]
    BY <1>2 DEF NegativeSkipped
  <2>2. /\ n + 1 \in 1 .. Len(GoldenCases) + 1
        /\ Done(Negatives, n + 1) = Done(Negatives, n) \cup {n}
        /\ Done(Positives, n + 1) = Done(Positives, n)
        /\ n \in Nat
        /\ IsFiniteSet(Done(Negatives, n))
    BY <2>1, NextCase
  <2>3. Cardinality(Done(Negatives, n + 1)) = Cardinality(Done(Negatives, n)) + 1
    <3>1. n \notin Done(Negatives, n)
      BY <2>2 DEF Done
    <3>2. QED
      BY <2>2, <3>1, FS_AddElement
  <2>4. PICK g :
          /\ golden' = g
          /\ g = [mock |-> g.mock, baseline |-> g.baseline, next |-> g.next, positive |-> g.positive,
                  negative |-> g.negative, skipped |-> g.skipped]
          /\ g.baseline = golden.baseline /\ g.next = n + 1 /\ g.positive = golden.positive
          /\ g.negative = golden.negative /\ g.skipped = golden.skipped + 1
    <3>1. golden' = [mock |-> golden.mock, baseline |-> golden.baseline, next |-> n + 1,
                     positive |-> golden.positive, negative |-> golden.negative,
                     skipped |-> golden.skipped + 1]
      BY <1>1, <2>1
    <3>2. PICK g : golden' = g /\ g = [mock |-> golden.mock, baseline |-> golden.baseline,
                                       next |-> n + 1, positive |-> golden.positive,
                                       negative |-> golden.negative,
                                       skipped |-> golden.skipped + 1]
      BY <3>1
    <3>3. QED
      BY <3>2
  <2>5. QED
    BY <1>1, <2>1, <2>2, <2>3, <2>4, GoldenState
<1>3. CASE NegativeChecked
  <2>1. PICK flagged0 \in BOOLEAN :
          /\ Case(TRUE) /\ golden.baseline
          /\ golden' = [golden EXCEPT !.next = @ + 1,
                                      !.negative = Append(@, [id |-> golden.next, flagged |-> flagged0])]
    BY <1>3 DEF NegativeChecked
  <2>2. /\ n + 1 \in 1 .. Len(GoldenCases) + 1 /\ n \in Nat
        /\ Done(Negatives, n + 1) = Done(Negatives, n) \cup {n}
        /\ Done(Positives, n + 1) = Done(Positives, n)
        /\ Done(Negatives, n) \in SUBSET Nat /\ \A i \in Done(Negatives, n) : i < n
    BY <2>1, NextCase
  <2>3. PICK e : e.id = n /\ e = [id |-> n, flagged |-> flagged0]
    OBVIOUS
  <2>4. Outcomes(Append(golden.negative, e), Done(Negatives, n + 1))
    BY <1>1, <2>1, <2>2, <2>3, OneMoreOutcome
  <2>5. PICK g :
          /\ golden' = g
          /\ g = [mock |-> g.mock, baseline |-> g.baseline, next |-> g.next, positive |-> g.positive,
                  negative |-> g.negative, skipped |-> g.skipped]
          /\ g.baseline = golden.baseline /\ g.next = n + 1 /\ g.positive = golden.positive
          /\ g.negative = Append(golden.negative, e) /\ g.skipped = golden.skipped
    <3>1. golden' = [mock |-> golden.mock, baseline |-> golden.baseline, next |-> n + 1,
                     positive |-> golden.positive, negative |-> Append(golden.negative, e),
                     skipped |-> golden.skipped]
      BY <1>1, <2>1, <2>3
    <3>2. PICK g : golden' = g /\ g = [mock |-> golden.mock, baseline |-> golden.baseline,
                                       next |-> n + 1, positive |-> golden.positive,
                                       negative |-> Append(golden.negative, e),
                                       skipped |-> golden.skipped]
      BY <3>1
    <3>3. QED
      BY <3>2
  <2>6. QED
    BY <1>1, <2>1, <2>2, <2>4, <2>5, GoldenState
<1>4. CASE PositiveMissed \/ PositiveJudged
  <2>1. PICK e : /\ Case(FALSE) /\ e.id = n
                 /\ golden' = [golden EXCEPT !.next = @ + 1, !.positive = Append(@, e)]
    <3>1. CASE PositiveMissed
      BY <3>1 DEF PositiveMissed
    <3>2. CASE PositiveJudged
      BY <3>2 DEF PositiveJudged
    <3>3. QED
      BY <1>4, <3>1, <3>2
  <2>2. /\ n + 1 \in 1 .. Len(GoldenCases) + 1 /\ n \in Nat
        /\ Done(Negatives, n + 1) = Done(Negatives, n)
        /\ Done(Positives, n + 1) = Done(Positives, n) \cup {n}
        /\ Done(Positives, n) \in SUBSET Nat /\ \A i \in Done(Positives, n) : i < n
    BY <2>1, NextCase
  <2>3. Outcomes(Append(golden.positive, e), Done(Positives, n + 1))
    BY <1>1, <2>1, <2>2, OneMoreOutcome
  <2>4. PICK g :
          /\ golden' = g
          /\ g = [mock |-> g.mock, baseline |-> g.baseline, next |-> g.next, positive |-> g.positive,
                  negative |-> g.negative, skipped |-> g.skipped]
          /\ g.baseline = golden.baseline /\ g.next = n + 1 /\ g.positive = Append(golden.positive, e)
          /\ g.negative = golden.negative /\ g.skipped = golden.skipped
    <3>1. golden' = [mock |-> golden.mock, baseline |-> golden.baseline, next |-> n + 1,
                     positive |-> Append(golden.positive, e), negative |-> golden.negative,
                     skipped |-> golden.skipped]
      BY <1>1, <2>1
    <3>2. PICK g : golden' = g /\ g = [mock |-> golden.mock, baseline |-> golden.baseline,
                                       next |-> n + 1, positive |-> Append(golden.positive, e),
                                       negative |-> golden.negative,
                                       skipped |-> golden.skipped]
      BY <3>1
    <3>3. QED
      BY <3>2
  <2>5. QED
    BY <1>1, <2>1, <2>2, <2>3, <2>4, GoldenState
<1> QED
  BY <1>2, <1>3, <1>4

LEMMA GoldenKeeps ==
    ASSUME GoldenInv, GoldenNext \/ UNCHANGED golden
    PROVE  GoldenInv'
<1>1. CASE UNCHANGED golden
  BY <1>1 DEF GoldenInv
<1>2. CASE golden' = Nothing
  BY <1>2 DEF GoldenInv
<1> QED
  BY <1>1, <1>2, RunEvalInv, GoldenStepInv DEF GoldenNext, GoldenStep, WriteSummary, GoldenStops

LEMMA GoldenCounts == GoldenInv => GoldenCasesAreCounted
<1> SUFFICES ASSUME GoldenInv, Summed PROVE GoldenCasesAreCounted
  BY DEF GoldenCasesAreCounted
<1> USE GoldenAssumption
<1>1. /\ golden # Nothing /\ golden.next = Len(GoldenCases) + 1
      /\ DOMAIN GoldenCases = 1 .. Len(GoldenCases) /\ Len(GoldenCases) \in Nat
  BY DEF Summed, GoldenInv
<1>2. /\ Done(Negatives, golden.next) = Negatives
      /\ Done(Positives, golden.next) = Positives
  <2>1. \A i \in DOMAIN GoldenCases : i < golden.next
    BY <1>1
  <2>2. QED
    BY <2>1 DEF Done, Positives, Negatives
<1> QED
  BY <1>1, <1>2 DEF GoldenInv, GoldenCasesAreCounted, Outcomes, Positives, Negatives

-----------------------------------------------------------------------------
(* The review.                                                              *)

EnoughOfBoth(n, all, sample) ==
    /\ sample \subseteq all
    /\ Cardinality(sample) = Min({n, Cardinality(all)})
    /\ n >= 2 => \A c \in all : \E d \in sample : d.pass = c.pass

(* Cases that a key tells apart.                                            *)
ToldApart(all) == \A c, d \in all : CaseKey(c) = CaseKey(d) => c.pass = d.pass

ReviewInv ==
    review # Nothing =>
        /\ review = [at |-> review.at, n |-> review.n, all |-> review.all, sample |-> review.sample]
        /\ EnoughOfBoth(review.n, review.all, review.sample)
        /\ ToldApart(review.all)
        /\ review.at \in {"key", "print"} => blindFile = review.sample
        /\ review.at = "print" => \A c \in review.sample : keyFile[CaseKey(c)] = c.pass

ReviewNext ==
    \/ \E sources \in (SUBSET Seeds) \ {{}}, n \in ReviewSizes : Review(sources, n)
    \/ ReviewStep
    \/ ReviewStops

LEMMA MinOfTwo ==
    ASSUME NEW a \in Int, NEW b \in Int
    PROVE  Min({a, b}) = IF a <= b THEN a ELSE b
<1>1. CASE a <= b
  BY <1>1 DEF Min
<1>2. CASE ~ a <= b
  BY <1>2 DEF Min
<1> QED
  BY <1>1, <1>2

LEMMA MaxOfTwo ==
    ASSUME NEW a \in Int, NEW b \in Int
    PROVE  Max({a, b}) = IF a >= b THEN a ELSE b
<1>1. CASE a >= b
  BY <1>1 DEF Max
<1>2. CASE ~ a >= b
  BY <1>2 DEF Max
<1> QED
  BY <1>1, <1>2

(* stratified_sample asks for as many as there are or are wanted, and for   *)
(* some of each kind if two are wanted.                                     *)
LEMMA StrataFill ==
    ASSUME NEW nPassed \in Nat, NEW nFailed \in Nat, NEW n \in Nat \ {0}
    PROVE  LET take == Strata(nPassed, nFailed, n)
           IN  /\ take.pass \in 0 .. nPassed /\ take.fail \in 0 .. nFailed
               /\ take.pass + take.fail = IF n <= nPassed + nFailed THEN n ELSE nPassed + nFailed
               /\ n >= 2 /\ nPassed > 0 => take.pass > 0
               /\ n >= 2 /\ nFailed > 0 => take.fail > 0
<1> DEFINE most == Max({1, n \div 3})
           wanted == IF nFailed = 0 THEN 0 ELSE Min({nFailed, most})
           pass == Min({nPassed, n - wanted})
           fail == Min({nFailed, n - pass})
<1>1. n \div 3 \in Nat /\ n \div 3 <= n /\ (n >= 2 => n \div 3 < n)
  OBVIOUS
<1>2. most \in Nat /\ most >= 1 /\ most <= n /\ (n >= 2 => most < n)
  BY <1>1, MaxOfTwo
<1> HIDE DEF most
<1>3. /\ wanted \in Nat /\ wanted <= most /\ wanted <= nFailed
      /\ nFailed > 0 => wanted >= 1
  BY <1>2, MinOfTwo
<1> HIDE DEF wanted
<1>4. /\ pass \in Nat /\ pass = IF nPassed <= n - wanted THEN nPassed ELSE n - wanted
  BY <1>2, <1>3, MinOfTwo
<1> HIDE DEF pass
<1>5. fail \in Nat /\ fail = IF nFailed <= n - pass THEN nFailed ELSE n - pass
  BY <1>2, <1>3, <1>4, MinOfTwo
<1> HIDE DEF fail
<1>6. Strata(nPassed, nFailed, n).pass = pass /\ Strata(nPassed, nFailed, n).fail = fail
  BY Zenon DEF Strata, fail, pass, wanted, most
<1>7. /\ pass \in 0 .. nPassed /\ fail \in 0 .. nFailed
      /\ pass + fail = IF n <= nPassed + nFailed THEN n ELSE nPassed + nFailed
      /\ n >= 2 /\ nPassed > 0 => pass > 0
      /\ n >= 2 /\ nFailed > 0 => fail > 0
  BY <1>2, <1>3, <1>4, <1>5
<1> QED
  BY <1>6, <1>7

LEMMA SampleFills ==
    ASSUME NEW all, IsFiniteSet(all), \A c \in all : c.pass \in BOOLEAN,
           NEW n \in Nat \ {0},
           NEW passed, passed = {c \in all : c.pass},
           NEW p \in kSubset(Strata(Cardinality(passed), Cardinality(all \ passed), n).pass, passed),
           NEW f \in kSubset(Strata(Cardinality(passed), Cardinality(all \ passed), n).fail, all \ passed)
    PROVE  EnoughOfBoth(n, all, p \cup f)
<1> DEFINE failed == all \ passed
           nPassed == Cardinality(passed)
           nFailed == Cardinality(failed)
           take == Strata(nPassed, nFailed, n)
<1>1. /\ IsFiniteSet(passed) /\ IsFiniteSet(failed)
      /\ nPassed \in Nat /\ nFailed \in Nat
      /\ passed \cap failed = {} /\ passed \cup failed = all
  BY FS_Subset, FS_CardinalityType
<1>2. Cardinality(all) = nPassed + nFailed
  <2>1. Cardinality(passed \cup failed) = nPassed + nFailed
    BY <1>1, DisjointUnion
  <2>2. QED
    BY <1>1, <2>1
<1>3. /\ p \subseteq passed /\ f \subseteq failed
      /\ Cardinality(p) = take.pass /\ Cardinality(f) = take.fail
  BY DEF kSubset
<1>4. /\ IsFiniteSet(p) /\ IsFiniteSet(f) /\ p \cap f = {}
  BY <1>1, <1>3, FS_Subset
<1>5. Cardinality(p \cup f) = take.pass + take.fail
  <2>1. Cardinality(p \cup f) = Cardinality(p) + Cardinality(f)
    BY <1>4, DisjointUnion
  <2>2. QED
    BY <1>3, <2>1
<1> HIDE DEF failed, nPassed, nFailed
<1>6. /\ take.pass + take.fail = IF n <= nPassed + nFailed THEN n ELSE nPassed + nFailed
      /\ n >= 2 /\ nPassed > 0 => take.pass > 0
      /\ n >= 2 /\ nFailed > 0 => take.fail > 0
  BY <1>1, StrataFill
<1> HIDE DEF take
<1>7. Cardinality(p \cup f) = Min({n, Cardinality(all)})
  BY <1>1, <1>2, <1>5, <1>6, MinOfTwo
<1>8. ASSUME n >= 2, NEW c \in all
      PROVE  \E d \in p \cup f : d.pass = c.pass
  <2>1. CASE c \in passed
    <3>1. nPassed > 0
      BY <1>1, <2>1, FS_EmptySet DEF nPassed
    <3>2. p # {}
      <4>1. Cardinality(p) > 0
        BY <1>1, <1>3, <1>6, <1>8, <3>1
      <4>2. QED
        BY <4>1, FS_EmptySet
    <3>3. PICK d \in p : TRUE
      BY <3>2
    <3>4. d.pass = TRUE /\ c.pass = TRUE
      BY <1>3, <2>1
    <3>5. QED
      BY <3>4
  <2>2. CASE c \in failed
    <3>1. nFailed > 0
      BY <1>1, <2>2, FS_EmptySet DEF nFailed
    <3>2. f # {}
      <4>1. Cardinality(f) > 0
        BY <1>1, <1>3, <1>6, <1>8, <3>1
      <4>2. QED
        BY <4>1, FS_EmptySet
    <3>3. PICK d \in f : TRUE
      BY <3>2
    <3>4. d.pass = FALSE /\ c.pass = FALSE
      BY <1>3, <2>2 DEF failed
    <3>5. QED
      BY <3>4
  <2>3. QED
    BY <1>1, <2>1, <2>2
<1> QED
  BY <1>1, <1>3, <1>7, <1>8 DEF EnoughOfBoth

(* The cases of finitely many results files are finitely many, and seed and *)
(* block tell them apart.                                                   *)
LEMMA CasesAreToldApart ==
    ASSUME ResultsInv, NEW sources \in SUBSET Seeds,
           \A s \in sources : results[s] \notin {Nothing, Torn}
    PROVE  LET all == LoadCases(sources)
           IN  /\ IsFiniteSet(all) /\ ToldApart(all)
               /\ \A c \in all : c.pass \in BOOLEAN
<1> DEFINE all == LoadCases(sources)
           of(s) == {[seed |-> s, block |-> c.block, pass |-> c.pass] : c \in ToSet(results[s].cases)}
<1>1. \A s \in sources : Judgements(results[s].cases)
  BY DEF ResultsInv
<1>2. all = UNION {of(s) : s \in sources}
  BY DEF LoadCases
<1>3. ASSUME NEW c \in all
      PROVE  \E s \in sources : \E k \in DOMAIN results[s].cases :
               c = [seed |-> s, block |-> results[s].cases[k].block, pass |-> results[s].cases[k].pass]
  <2>1. PICK s \in sources : c \in of(s)
    BY <1>2
  <2>2. PICK e \in ToSet(results[s].cases) : c = [seed |-> s, block |-> e.block, pass |-> e.pass]
    BY <2>1
  <2>3. QED
    BY <2>2 DEF ToSet
<1>4. IsFiniteSet(all)
  <2>1. IsFiniteSet(sources)
    BY EvalAssumption, FS_Subset
  <2>2. ASSUME NEW s \in sources
        PROVE  IsFiniteSet(of(s))
    <3>1. PICK t : t = results[s].cases /\ Len(t) \in Nat /\ DOMAIN t = 1 .. Len(t)
      BY <1>1 DEF Judgements
    <3>2. IsFiniteSet(DOMAIN t)
      BY <3>1, FS_Interval
    <3> DEFINE f == [k \in DOMAIN t |-> [seed |-> s, block |-> t[k].block, pass |-> t[k].pass]]
    <3>3. IsFiniteSet({f[k] : k \in DOMAIN t})
      <4>1. f = [k \in DOMAIN t |-> f[k]]
        OBVIOUS
      <4> HIDE DEF f
      <4>2. QED
        BY <3>2, <4>1, FiniteValues
    <3>4. of(s) = {f[k] : k \in DOMAIN t}
      BY <3>1 DEF ToSet
    <3>5. QED
      BY <3>3, <3>4
  <2> DEFINE g == [s \in sources |-> of(s)]
  <2>3. IsFiniteSet({g[s] : s \in sources})
    <3>1. g = [s \in sources |-> g[s]]
      OBVIOUS
    <3> HIDE DEF g
    <3>2. QED
      BY <2>1, <3>1, FiniteValues
  <2>4. all = UNION {g[s] : s \in sources} /\ \A T \in {g[s] : s \in sources} : IsFiniteSet(T)
    BY <1>2, <2>2
  <2> HIDE DEF g, all
  <2>5. QED
    BY <2>3, <2>4, FS_UNION
<1>5. ASSUME NEW c \in all, NEW d \in all, CaseKey(c) = CaseKey(d)
      PROVE  c.pass = d.pass
  <2>1. PICK s \in sources : \E k \in DOMAIN results[s].cases :
          c = [seed |-> s, block |-> results[s].cases[k].block, pass |-> results[s].cases[k].pass]
    BY <1>3
  <2>2. PICK t \in sources : \E j \in DOMAIN results[t].cases :
          d = [seed |-> t, block |-> results[t].cases[j].block, pass |-> results[t].cases[j].pass]
    BY <1>3
  <2>7. PICK k \in DOMAIN results[s].cases :
          c = [seed |-> s, block |-> results[s].cases[k].block, pass |-> results[s].cases[k].pass]
    BY <2>1
  <2>8. PICK j \in DOMAIN results[t].cases :
          d = [seed |-> t, block |-> results[t].cases[j].block, pass |-> results[t].cases[j].pass]
    BY <2>2
  <2>3. c.seed = d.seed /\ c.block = d.block
    BY <1>5 DEF CaseKey
  <2>4. s = t /\ results[s].cases[k].block = results[s].cases[j].block
    BY <2>3, <2>7, <2>8
  <2>5. k = j
    BY <1>1, <2>4 DEF Judgements
  <2>6. QED
    BY <2>4, <2>5, <2>7, <2>8
<1>6. ASSUME NEW c \in all
      PROVE  c.pass \in BOOLEAN
  <2>1. PICK s \in sources : \E k \in DOMAIN results[s].cases :
          c = [seed |-> s, block |-> results[s].cases[k].block, pass |-> results[s].cases[k].pass]
    BY <1>3
  <2>4. PICK k \in DOMAIN results[s].cases :
          c = [seed |-> s, block |-> results[s].cases[k].block, pass |-> results[s].cases[k].pass]
    BY <2>1
  <2>2. results[s].cases[k] \in [block : DOMAIN Labels, pass : BOOLEAN]
    <3>1. PICK t : t = results[s].cases /\ t \in Seq([block : DOMAIN Labels, pass : BOOLEAN])
      BY <1>1 DEF Judgements
    <3>4. k \in DOMAIN t
      BY <2>4, <3>1
    <3>2. t[k] \in [block : DOMAIN Labels, pass : BOOLEAN]
      BY <3>1, <3>4, ElementIn
    <3>3. QED
      BY <3>1, <3>2
  <2>3. QED
    BY <2>2, <2>4
<1> QED
  BY <1>4, <1>5, <1>6 DEF ToldApart

LEMMA ReviewStarts ==
    ASSUME ResultsInv, NEW sources \in SUBSET Seeds, NEW n \in ReviewSizes, Review(sources, n)
    PROVE  ReviewInv'
<1> DEFINE all == LoadCases(sources)
           passed == {c \in all : c.pass}
           take == Strata(Cardinality(passed), Cardinality(all \ passed), n)
<1>1. PICK p \in kSubset(take.pass, passed), f \in kSubset(take.fail, all \ passed) :
        review' = [at |-> "blind", n |-> n, all |-> all, sample |-> p \cup f]
  BY Zenon DEF Review
<1>2. n \in Nat \ {0}
  BY ReviewAssumption
<1>3. IsFiniteSet(all) /\ ToldApart(all) /\ \A c \in all : c.pass \in BOOLEAN
  BY CasesAreToldApart DEF Review
<1> HIDE DEF all
<1>4. EnoughOfBoth(n, all, p \cup f)
  BY <1>1, <1>2, <1>3, SampleFills
<1>5. PICK r : review' = r /\ r = [at |-> "blind", n |-> n, all |-> all, sample |-> p \cup f]
  BY <1>1
<1> HIDE DEF passed, take
<1>6. /\ r = [at |-> r.at, n |-> r.n, all |-> r.all, sample |-> r.sample]
      /\ r.at = "blind" /\ r.n = n /\ r.all = all /\ r.sample = p \cup f
  BY <1>5
<1> QED
  BY <1>3, <1>4, <1>5, <1>6 DEF ReviewInv

LEMMA WritesInv ==
    ASSUME ReviewInv, WriteBlind \/ WriteKey
    PROVE  ReviewInv'
<1>1. PICK place \in {"key", "print"} :
        /\ review # Nothing
        /\ review' = [review EXCEPT !.at = place]
        /\ blindFile' = review.sample
        /\ place = "print" =>
             keyFile' = [key \in {CaseKey(c) : c \in review.sample} |->
                           (CHOOSE c \in review.sample : CaseKey(c) = key).pass]
  BY DEF WriteBlind, WriteKey, ReviewAt, ReviewInv
<1>2. PICK r : /\ review' = r
               /\ r = [at |-> place, n |-> review.n, all |-> review.all, sample |-> review.sample]
  BY <1>1 DEF ReviewInv
<1>3. /\ r = [at |-> r.at, n |-> r.n, all |-> r.all, sample |-> r.sample]
      /\ r.at = place /\ r.n = review.n /\ r.all = review.all /\ r.sample = review.sample
  BY <1>2
<1>4. ASSUME place = "print", NEW c \in review.sample
      PROVE  keyFile'[CaseKey(c)] = c.pass
  <2> DEFINE chosen == CHOOSE d \in review.sample : CaseKey(d) = CaseKey(c)
  <2>1. keyFile'[CaseKey(c)] = chosen.pass
    BY <1>1, <1>4
  <2>2. chosen \in review.sample /\ CaseKey(chosen) = CaseKey(c)
    OBVIOUS
  <2>3. chosen \in review.all /\ c \in review.all
    BY <1>1, <2>2 DEF ReviewInv, EnoughOfBoth
  <2>4. chosen.pass = c.pass
    <3> HIDE DEF chosen
    <3>1. QED
      BY <1>1, <2>2, <2>3 DEF ReviewInv, ToldApart
  <2>5. QED
    BY <2>1, <2>4
<1> QED
  BY <1>1, <1>2, <1>3, <1>4 DEF ReviewInv

LEMMA ReviewKeeps ==
    ASSUME ReviewInv, ResultsInv, ReviewNext \/ UNCHANGED reviewVars
    PROVE  ReviewInv'
<1>1. CASE UNCHANGED reviewVars
  BY <1>1 DEF ReviewInv, reviewVars
<1>2. CASE review' = Nothing
  BY <1>2 DEF ReviewInv
<1> QED
  BY <1>1, <1>2, ReviewStarts, WritesInv DEF ReviewNext, ReviewStep, PrintCounts, ReviewStops

-----------------------------------------------------------------------------
(* The training.                                                            *)

(* The lines, of the first n, that a training reads of a block, and what    *)
(* its miner makes of them.                                                 *)
LinesRead(log, n, b) == {i \in 1 .. n : log[i].parsed /\ b \in ToSet(log[i].blocks)}

Session(log, n, b, known) ==
    LET M == LinesRead(log, n, b)
    IN  [k \in 1 .. Cardinality(M) |-> MatchTemplateId(known, log[Nth(M, k)].template)]

LogLines == [blocks : Seq(STRING), template : STRING, parsed : BOOLEAN]

LEMMA LogIsOfLines ==
    ASSUME NEW log \in TrainingLogs
    PROVE  /\ log \in Seq(LogLines) /\ Len(log) \in Nat /\ DOMAIN log = 1 .. Len(log)
           /\ \A r \in LogLines : r.blocks \in Seq(STRING)
           /\ \A i \in 1 .. Len(log) :
                /\ log[i] \in LogLines
                /\ log[i].blocks \in Seq(STRING) /\ log[i].template \in STRING
                /\ log[i].parsed \in BOOLEAN
<1>1. log \in Seq(LogLines)
  BY TrainingAssumption DEF LogLines
<1>2. \A i \in 1 .. Len(log) : log[i] \in LogLines
  BY <1>1, ElementOfSeq
<1>3. \A r \in LogLines : r.blocks \in Seq(STRING) /\ r.template \in STRING /\ r.parsed \in BOOLEAN
  BY DEF LogLines
<1> QED
  BY <1>1, <1>2, <1>3, LenProperties

LEMMA FiniteLinesRead ==
    ASSUME NEW log, NEW n \in Nat, NEW b
    PROVE  /\ LinesRead(log, n, b) \subseteq 1 .. n /\ LinesRead(log, n, b) \subseteq Int
           /\ IsFiniteSet(LinesRead(log, n, b))
           /\ Cardinality(LinesRead(log, n, b)) \in Nat
           /\ \A i \in LinesRead(log, n, b) : i < n + 1
           /\ \A k \in 1 .. Cardinality(LinesRead(log, n, b)) :
                Nth(LinesRead(log, n, b), k) \in LinesRead(log, n, b)
<1> DEFINE M == LinesRead(log, n, b)
<1>1. M \subseteq 1 .. n
  BY DEF LinesRead
<1> HIDE DEF M
<1>2. M \subseteq Int /\ \A i \in M : i < n + 1
  BY <1>1
<1>3. IsFiniteSet(M)
  <2>1. IsFiniteSet(1 .. n)
    BY FS_Interval
  <2>2. QED
    BY <1>1, <2>1, FS_Subset
<1>4. Cardinality(M) \in Nat /\ \A k \in 1 .. Cardinality(M) : Nth(M, k) \in M
  BY <1>2, <1>3, Row, FS_CardinalityType
<1> QED
  BY <1>1, <1>2, <1>3, <1>4 DEF M

LEMMA OneMoreLine ==
    ASSUME NEW log, NEW n \in Nat, NEW b
    PROVE  LinesRead(log, n + 1, b) =
             IF log[n + 1].parsed /\ b \in ToSet(log[n + 1].blocks)
               THEN LinesRead(log, n, b) \cup {n + 1}
               ELSE LinesRead(log, n, b)
<1>1. \A i : i \in 1 .. n + 1 <=> (i \in 1 .. n \/ i = n + 1)
  OBVIOUS
<1> QED
  BY <1>1 DEF LinesRead

(* What the miner knows keeps its id.                                       *)
LEMMA KnownAsBefore ==
    ASSUME NEW V, NEW known \in Seq(V),
           \A k, l \in 1 .. Len(known) : known[k] = known[l] => k = l,
           NEW x \in V, NEW y \in ToSet(known)
    PROVE  /\ y \in ToSet(Learn(known, x))
           /\ MatchTemplateId(Learn(known, x), y) = MatchTemplateId(known, y)
<1>1. CASE x \in ToSet(known)
  BY <1>1 DEF Learn
<1>2. CASE x \notin ToSet(known)
  <2> DEFINE t == Append(known, x)
  <2>1. /\ Len(known) \in Nat /\ DOMAIN known = 1 .. Len(known)
        /\ DOMAIN t = 1 .. Len(known) + 1
        /\ \A i \in 1 .. Len(known) : t[i] = known[i]
        /\ t[Len(known) + 1] = x
    OBVIOUS
  <2>10. Learn(known, x) = t
    BY <1>2 DEF Learn
  <2> HIDE DEF t
  <2>2. PICK i \in 1 .. Len(known) : known[i] = y
    BY <2>1 DEF ToSet
  <2>3. i \in DOMAIN t /\ t[i] = y
    BY <2>1, <2>2
  <2>4. \A j \in DOMAIN t : t[j] = y => j = i
    <3> SUFFICES ASSUME NEW j \in DOMAIN t, t[j] = y PROVE j = i
      OBVIOUS
    <3>1. j # Len(known) + 1
      BY <1>2, <2>1
    <3>2. j \in 1 .. Len(known)
      BY <2>1, <3>1
    <3>3. QED
      BY <2>1, <2>2, <3>2
  <2>5. \A j \in DOMAIN known : known[j] = y => j = i
    BY <2>1, <2>2
  <2>6. (CHOOSE j \in DOMAIN t : t[j] = y) = i
    BY <2>3, <2>4
  <2>7. (CHOOSE j \in DOMAIN known : known[j] = y) = i
    BY <2>1, <2>2, <2>5
  <2>8. y \in ToSet(t)
    BY <2>3 DEF ToSet
  <2>9. MatchTemplateId(t, y) = i
    BY <2>6, <2>8 DEF MatchTemplateId
  <2>11. MatchTemplateId(known, y) = i
    BY <2>7 DEF MatchTemplateId
  <2>12. QED
    BY <2>8, <2>9, <2>10, <2>11
<1> QED
  BY <1>1, <1>2

LEMMA LearnIsKnown ==
    ASSUME NEW V, NEW known \in Seq(V), NEW x \in V
    PROVE  x \in ToSet(Learn(known, x))
<1>1. CASE x \in ToSet(known)
  BY <1>1 DEF Learn
<1>2. CASE x \notin ToSet(known)
  <2> DEFINE t == Append(known, x)
  <2>1. Len(known) + 1 \in DOMAIN t /\ t[Len(known) + 1] = x
    OBVIOUS
  <2>2. Learn(known, x) = t
    BY <1>2 DEF Learn
  <2> HIDE DEF t
  <2>3. QED
    BY <2>1, <2>2 DEF ToSet
<1> QED
  BY <1>1, <1>2

(* The sessions after one more line.                                        *)
LEMMA SessionGoesOn ==
    ASSUME NEW log, NEW n \in Nat, NEW b, NEW before, NEW after,
           \A i \in LinesRead(log, n, b) :
             MatchTemplateId(after, log[i].template) = MatchTemplateId(before, log[i].template)
    PROVE  LET line == log[n + 1]
               id == MatchTemplateId(after, line.template)
           IN  /\ ~ (line.parsed /\ b \in ToSet(line.blocks)) =>
                    Session(log, n + 1, b, after) = Session(log, n, b, before)
               /\ line.parsed /\ b \in ToSet(line.blocks) =>
                    /\ Session(log, n + 1, b, after) = Append(Session(log, n, b, before), id)
                    /\ LinesRead(log, n, b) = {} => Session(log, n + 1, b, after) = <<id>>
<1> DEFINE M == LinesRead(log, n, b)
           c == Cardinality(M)
           line == log[n + 1]
           id == MatchTemplateId(after, line.template)
           s == Session(log, n, b, before)
<1>1. /\ M \subseteq Int /\ IsFiniteSet(M) /\ c \in Nat
      /\ \A i \in M : i < n + 1
      /\ \A k \in 1 .. c : Nth(M, k) \in M
  BY FiniteLinesRead
<1>2. s = [k \in 1 .. c |-> MatchTemplateId(before, log[Nth(M, k)].template)]
  BY DEF Session
<1>3. s = [k \in 1 .. c |-> MatchTemplateId(after, log[Nth(M, k)].template)]
  BY <1>1, <1>2
<1>4. ASSUME ~ (line.parsed /\ b \in ToSet(line.blocks))
      PROVE  Session(log, n + 1, b, after) = s
  <2>1. LinesRead(log, n + 1, b) = M
    BY <1>4, OneMoreLine
  <2>2. QED
    BY <1>3, <2>1 DEF Session
<1>5. ASSUME line.parsed /\ b \in ToSet(line.blocks)
      PROVE  /\ Session(log, n + 1, b, after) = Append(s, id)
             /\ M = {} => Session(log, n + 1, b, after) = <<id>>
  <2> DEFINE U == M \cup {n + 1}
             t == [k \in 1 .. c + 1 |-> MatchTemplateId(after, log[Nth(U, k)].template)]
  <2>1. LinesRead(log, n + 1, b) = U
    BY <1>5, OneMoreLine
  <2>2. /\ Cardinality(U) = c + 1
        /\ \A k \in 1 .. c : Nth(U, k) = Nth(M, k)
        /\ Nth(U, c + 1) = n + 1
    <3> HIDE DEF M
    <3>1. n + 1 \in Int
      OBVIOUS
    <3>2. QED
      BY <1>1, <3>1, OneMoreInARow
  <2>3. Session(log, n + 1, b, after) = t
    BY <2>1, <2>2 DEF Session
  <2> HIDE DEF U, M
  <2>4. \A k \in 1 .. c : t[k] = s[k]
    <3> SUFFICES ASSUME NEW k \in 1 .. c PROVE t[k] = s[k]
      OBVIOUS
    <3>1. k \in 1 .. c + 1 /\ Nth(U, k) = Nth(M, k)
      BY <1>1, <2>2
    <3> HIDE DEF c, s
    <3>2. QED
      BY <1>3, <3>1
  <2>5. t[c + 1] = id
    BY <1>1, <2>2
  <2> DEFINE V == {s[k] : k \in 1 .. c} \cup {id}
  <2>6. s \in Seq(V) /\ Len(s) = c
    <3>1. s = [k \in 1 .. c |-> s[k]] /\ c \in Nat
      BY <1>1, <1>2
    <3> HIDE DEF s, c
    <3>2. QED
      BY <3>1
  <2>7. t \in Seq(V) /\ Len(t) = c + 1
    <3>1. t = [k \in 1 .. c + 1 |-> t[k]] /\ c + 1 \in Nat
      BY <1>1
    <3>2. \A k \in 1 .. c + 1 : t[k] \in V
      <4> HIDE DEF t, s, c, id
      <4>1. \A k \in 1 .. c + 1 : k \in 1 .. c \/ k = c + 1
        BY <1>1
      <4>2. QED
        BY <2>4, <2>5, <4>1
    <3> HIDE DEF t, V, c
    <3>3. QED
      BY <3>1, <3>2
  <2>8. t = Append(s, id)
    <3> HIDE DEF t, s, c, id
    <3>1. /\ Append(s, id) \in Seq(V) /\ Len(Append(s, id)) = c + 1
          /\ \A k \in 1 .. c : Append(s, id)[k] = s[k]
          /\ Append(s, id)[c + 1] = id
      BY <2>6
    <3>2. \A k \in 1 .. c + 1 : t[k] = Append(s, id)[k]
      BY <1>1, <2>4, <2>5, <3>1
    <3>3. QED
      BY <2>7, <3>1, <3>2, SeqEqual
  <2>9. M = {} => t = <<id>>
    <3> SUFFICES ASSUME M = {} PROVE t = <<id>>
      OBVIOUS
    <3>1. c = 0
      BY FS_EmptySet
    <3> HIDE DEF t, id, c
    <3>2. Len(<<id>>) = 1 /\ <<id>>[1] = id /\ <<id>> \in Seq(V)
      OBVIOUS
    <3>3. QED
      BY <2>5, <2>7, <3>1, <3>2, SeqEqual
  <2>10. QED
    BY <2>3, <2>8, <2>9
<1> HIDE DEF s, M, line, id
<1>6. QED
  BY <1>4, <1>5 DEF s, M, line, id

(* The blocks of a line that are taken, and those that come too late.       *)
LEMMA TargetsOfLine ==
    ASSUME NEW blocks \in Seq(STRING), NEW S, IsFiniteSet(S), NEW limit \in Nat
    PROVE  LET T == Targets(S, limit, blocks)
           IN  /\ T \subseteq ToSet(blocks) /\ IsFiniteSet(S \cup T)
               /\ S \cap ToSet(blocks) \subseteq T
               /\ Cardinality(S) >= limit => T \subseteq S
               /\ Cardinality(S) <= Cardinality(S \cup T)
               /\ (\E b \in ToSet(blocks) : b \notin S \cup T) => Cardinality(S \cup T) >= limit
<1> DEFINE n == Len(blocks)
           T == Targets(S, limit, blocks)
           sofar(k) == S \cup {blocks[j] : j \in 1 .. k - 1}
<1>1. n \in Nat /\ DOMAIN blocks = 1 .. n
  BY LenProperties
<1>2. T = {blocks[k] : k \in {k \in DOMAIN blocks :
                               blocks[k] \in S \/ Cardinality(sofar(k)) < limit}}
  BY DEF Targets
<1> HIDE DEF T
<1>3. T \subseteq ToSet(blocks) /\ S \cap ToSet(blocks) \subseteq T
  <2> HIDE DEF sofar
  <2>1. QED
    BY <1>2 DEF ToSet
<1>4. \A k \in 1 .. n : IsFiniteSet(sofar(k)) /\ Cardinality(sofar(k)) \in Nat
                         /\ Cardinality(S) <= Cardinality(sofar(k))
  <2> SUFFICES ASSUME NEW k \in 1 .. n
               PROVE  IsFiniteSet(sofar(k)) /\ Cardinality(sofar(k)) \in Nat
                         /\ Cardinality(S) <= Cardinality(sofar(k))
    OBVIOUS
  <2> DEFINE f == [j \in 1 .. k - 1 |-> blocks[j]]
             R == {blocks[j] : j \in 1 .. k - 1}
  <2>1. k - 1 \in Nat
    BY <1>1
  <2>2. IsFiniteSet(1 .. k - 1)
    BY <2>1, FS_Interval
  <2>3. R = {f[j] : j \in 1 .. k - 1} /\ f = [j \in 1 .. k - 1 |-> f[j]]
    OBVIOUS
  <2>4. IsFiniteSet(R)
    <3> HIDE DEF f, R
    <3>1. IsFiniteSet({f[j] : j \in 1 .. k - 1})
      BY <2>2, <2>3, FiniteValues
    <3>2. QED
      BY <2>3, <3>1
  <2>5. sofar(k) = S \cup R
    OBVIOUS
  <2> HIDE DEF R, sofar
  <2>6. IsFiniteSet(S \cup R)
    BY <2>4, FS_Union
  <2>7. QED
    BY <2>5, <2>6, FS_Subset, FS_CardinalityType
<1>5. Cardinality(S) \in Nat
  BY FS_CardinalityType
<1>6. Cardinality(S) >= limit => T \subseteq S
  <2> HIDE DEF sofar
  <2> SUFFICES ASSUME Cardinality(S) >= limit, NEW k \in 1 .. n,
                      Cardinality(sofar(k)) < limit
               PROVE  FALSE
    BY <1>1, <1>2
  <2>1. Cardinality(sofar(k)) \in Nat /\ Cardinality(S) <= Cardinality(sofar(k))
    BY <1>4
  <2>2. QED
    BY <1>5, <2>1
<1>7. IsFiniteSet(S \cup T) /\ Cardinality(S \cup T) \in Nat
  <2> DEFINE f == [j \in 1 .. n |-> blocks[j]]
  <2>1. ToSet(blocks) = {f[j] : j \in 1 .. n} /\ f = [j \in 1 .. n |-> f[j]]
    BY <1>1 DEF ToSet
  <2>2. IsFiniteSet(1 .. n)
    BY <1>1, FS_Interval
  <2> HIDE DEF f, n
  <2>3. IsFiniteSet({f[j] : j \in 1 .. n})
    BY <2>1, <2>2, FiniteValues
  <2>4. IsFiniteSet(T)
    BY <1>3, <2>1, <2>3, FS_Subset
  <2>5. QED
    BY <2>4, FS_Union, FS_CardinalityType
<1>8. Cardinality(S) <= Cardinality(S \cup T)
  BY <1>7, FS_Subset
<1>9. ASSUME NEW b \in ToSet(blocks), b \notin S \cup T
      PROVE  Cardinality(S \cup T) >= limit
  <2> DEFINE late == {k \in 1 .. n : blocks[k] \notin S \cup T}
             m == Min(late)
  <2>1. late # {} /\ late \subseteq Nat
    BY <1>1, <1>9 DEF ToSet
  <2>2. m \in late /\ \A k \in late : m <= k
    <3> HIDE DEF late
    <3>1. QED
      BY <2>1, MinIsLeast
  <2> HIDE DEF m
  <2>3. sofar(m) \subseteq S \cup T
    <3> SUFFICES ASSUME NEW j \in 1 .. m - 1 PROVE blocks[j] \in S \cup T
      OBVIOUS
    <3>1. j \in 1 .. n /\ ~ (m <= j)
      BY <1>1, <2>2
    <3>2. QED
      BY <2>2, <3>1
  <2>4. ~ (Cardinality(sofar(m)) < limit)
    <3> HIDE DEF sofar
    <3>1. QED
      BY <1>1, <1>2, <2>2
  <2>5. m \in 1 .. n
    BY <2>2
  <2> HIDE DEF sofar, late
  <2>6. Cardinality(sofar(m)) \in Nat
    BY <1>4, <2>5
  <2>7. Cardinality(sofar(m)) <= Cardinality(S \cup T)
    BY <1>7, <2>3, FS_Subset
  <2>8. QED
    BY <1>7, <2>4, <2>6, <2>7
<1> QED
  BY <1>3, <1>6, <1>7, <1>8, <1>9 DEF T

Stages == {"parse", "split", "fit", "save", "parity", "print"}

IsTraining(t) ==
    /\ t = [at |-> t.at, log |-> t.log, limit |-> t.limit, read |-> t.read,
            selected |-> t.selected, mined |-> t.mined, miner |-> t.miner,
            sequences |-> t.sequences, split |-> t.split, detector |-> t.detector,
            meta |-> t.meta]
    /\ t.at \in Stages

(* The blocks are left out only for their number, and a session is what the *)
(* miner, as it is by now, makes of all lines of its block so far.          *)
ParseInv(t) ==
    /\ t.log \in TrainingLogs /\ t.limit \in BlockLimits /\ t.read \in 0 .. Len(t.log)
    /\ t.mined \in Seq(STRING) /\ t.miner = Distinct(t.mined)
    /\ IsFiniteSet(t.selected)
    /\ \A i \in 1 .. t.read :
         t.log[i].parsed =>
           ToSet(t.log[i].blocks) \subseteq t.selected \/ Cardinality(t.selected) >= t.limit
    /\ \A b \in t.selected : LinesRead(t.log, t.read, b) # {}
    /\ \A b \in t.selected : \A i \in LinesRead(t.log, t.read, b) :
         t.log[i].template \in ToSet(t.miner)
    /\ t.sequences = [b \in t.selected |-> Session(t.log, t.read, b, t.miner)]

(* No block is trained on twice, or trained on and calibrated on.           *)
CutInv(selection, cut) ==
    /\ cut.train \in Seq(selection) /\ cut.val \in Seq(selection)
    /\ IsInjective(cut.train)
    /\ ToSet(cut.train) \cap ToSet(cut.val) = {}

TrainedOn(sequences, cut) == [k \in DOMAIN cut.train |-> sequences[cut.train[k]]]

Detector(sequences, cut) ==
    [train |-> ToSet(cut.train),
     validation |-> [b \in ToSet(cut.val) |-> sequences[b]],
     vocabulary |-> Vocabulary(TrainedOn(sequences, cut)),
     weights |-> Fit(TrainedOn(sequences, cut))]

Trains(t, net, state) ==
    /\ IsTraining(t)
    /\ ParseInv(t)
    /\ t.at \in {"parse", "split"} => t.split \in Splits
    /\ t.at # "parse" => t.read = Len(t.log) /\ state = t.miner
    /\ t.at \notin {"parse", "split"} => CutInv(t.selected, t.split)
    /\ t.at \in {"save", "parity", "print"} => t.detector = Detector(t.sequences, t.split)
    /\ t.at \in {"parity", "print"} => net = t.detector
    /\ t.at = "print" => t.meta = Parity(t.mined, t.miner)

TrainInv == training # Nothing => Trains(training, netFile, stateFile)

TrainNext ==
    \/ \E log \in TrainingLogs, limit \in BlockLimits, split \in Splits : Train(log, limit, split)
    \/ TrainStep
    \/ TrainStops

(* What a line adds, and what it leaves as it was.                          *)
Taken(t) ==
    LET line == t.log[t.read + 1]
    IN  IF line.parsed THEN Targets(t.selected, t.limit, Mentions(line)) ELSE {}

LEMMA LimitsAreNumbers == BlockLimits \subseteq Nat
  BY TrainingAssumption

LEMMA TakenBlocks ==
    ASSUME NEW t, ParseInv(t), t.read < Len(t.log)
    PROVE  LET line == t.log[t.read + 1]
               T == Taken(t)
           IN  /\ t.read \in Nat /\ t.read + 1 \in 1 .. Len(t.log) /\ Len(t.log) \in Nat
               /\ line.template \in STRING
               /\ T \subseteq ToSet(line.blocks) /\ (T # {} => line.parsed)
               /\ line.parsed => t.selected \cap ToSet(line.blocks) \subseteq T
               /\ \A b \in T \ t.selected : LinesRead(t.log, t.read, b) = {}
               /\ IsFiniteSet(t.selected \cup T)
               /\ Cardinality(t.selected) <= Cardinality(t.selected \cup T)
               /\ line.parsed =>
                    \/ ToSet(line.blocks) \subseteq t.selected \cup T
                    \/ Cardinality(t.selected \cup T) >= t.limit
<1> DEFINE log == t.log
           n == t.read
           line == log[n + 1]
           T == Taken(t)
           S == t.selected
<1>1. /\ log \in TrainingLogs /\ n \in 0 .. Len(log) /\ n < Len(log) /\ t.limit \in BlockLimits
      /\ IsFiniteSet(S)
      /\ \A i \in 1 .. n :
           log[i].parsed => ToSet(log[i].blocks) \subseteq S \/ Cardinality(S) >= t.limit
  BY DEF ParseInv
<1>2. T = IF line.parsed THEN Targets(S, t.limit, Mentions(line)) ELSE {}
  BY DEF Taken
<1> HIDE DEF log, n, T, S
<1>3. /\ log \in Seq(LogLines) /\ Len(log) \in Nat
      /\ \A r \in LogLines : r.blocks \in Seq(STRING)
      /\ \A i \in 1 .. Len(log) : log[i].template \in STRING /\ log[i].parsed \in BOOLEAN
  BY <1>1, LogIsOfLines
<1>4. n \in Nat /\ n + 1 \in 1 .. Len(log) /\ t.limit \in Nat
  <2>1. t.limit \in Nat
    BY <1>1, LimitsAreNumbers
  <2>2. QED
    BY <1>1, <1>3, <2>1
<1>5. /\ Mentions(line) \in Seq(STRING)
      /\ ToSet(Mentions(line)) = ToSet(line.blocks)
  <2> DEFINE s == Mentions(line)
             B == ToSet(line.blocks)
  <2>1. /\ s \in Seq(STRING)
        /\ \A k \in 1 .. Len(s) : s[k] \in B
        /\ \A b \in B : \E k \in 1 .. Len(s) : s[k] = b
    BY <1>3, <1>4, MentionsOnce
  <2> HIDE DEF s, B
  <2>2. DOMAIN s = 1 .. Len(s)
    BY <2>1, LenProperties
  <2>3. ToSet(s) = B
    BY <2>1, <2>2 DEF ToSet
  <2>4. QED
    BY <2>1, <2>3 DEF s, B
<1>6. CASE ~ line.parsed
  <2>1. T = {} /\ S \cup T = S
    BY <1>2, <1>6
  <2>2. Cardinality(S) \in Nat
    BY <1>1, FS_CardinalityType
  <2>3. QED
    BY <1>1, <1>3, <1>4, <1>6, <2>1, <2>2 DEF log, n, T, S
<1>7. CASE line.parsed
  <2> DEFINE s == Mentions(line)
             limit == t.limit
  <2>1. T = Targets(S, limit, s) /\ s \in Seq(STRING) /\ limit \in Nat
    BY <1>2, <1>4, <1>5, <1>7
  <2> HIDE DEF s, limit
  <2>2. /\ T \subseteq ToSet(s) /\ IsFiniteSet(S \cup T)
        /\ S \cap ToSet(s) \subseteq T
        /\ Cardinality(S) >= limit => T \subseteq S
        /\ Cardinality(S) <= Cardinality(S \cup T)
        /\ (\E b \in ToSet(s) : b \notin S \cup T) => Cardinality(S \cup T) >= limit
    BY <1>1, <2>1, TargetsOfLine
  <2>3. ToSet(s) = ToSet(line.blocks)
    BY <1>5 DEF s
  <2>4. ASSUME NEW b \in T \ S PROVE LinesRead(log, n, b) = {}
    <3> SUFFICES ASSUME NEW i \in LinesRead(log, n, b) PROVE FALSE
      OBVIOUS
    <3>1. i \in 1 .. n /\ log[i].parsed /\ b \in ToSet(log[i].blocks)
      BY DEF LinesRead
    <3>2. Cardinality(S) >= limit
      BY <1>1, <3>1 DEF limit
    <3>3. QED
      BY <2>2, <3>2
  <2>5. ToSet(line.blocks) \subseteq S \cup T \/ Cardinality(S \cup T) >= limit
    BY <2>2, <2>3
  <2> HIDE DEF line
  <2>6. /\ T \subseteq ToSet(line.blocks) /\ IsFiniteSet(S \cup T)
        /\ S \cap ToSet(line.blocks) \subseteq T
        /\ Cardinality(S) <= Cardinality(S \cup T)
    BY <2>2, <2>3
  <2>7. line.template \in STRING
    BY <1>3, <1>4 DEF line
  <2>8. QED
    BY <1>3, <1>4, <1>7, <2>4, <2>5, <2>6, <2>7 DEF log, n, T, S, line, limit
<1> QED
  BY <1>6, <1>7

LEMMA ReadOn ==
    ASSUME NEW t, ParseInv(t), t.read < Len(t.log), NEW u,
           u.log = t.log, u.limit = t.limit, u.read = t.read + 1,
           u.selected = t.selected \cup Taken(t),
           u.mined \in Seq(STRING), u.miner = Distinct(u.mined),
           \A x \in ToSet(t.miner) :
             x \in ToSet(u.miner) /\ MatchTemplateId(u.miner, x) = MatchTemplateId(t.miner, x),
           Taken(t) # {} => t.log[t.read + 1].template \in ToSet(u.miner),
           u.sequences = Extend(t.sequences, Taken(t),
                                MatchTemplateId(u.miner, t.log[t.read + 1].template))
    PROVE  ParseInv(u)
<1> DEFINE log == t.log
           n == t.read
           line == log[n + 1]
           T == Taken(t)
           S == t.selected
           id == MatchTemplateId(u.miner, line.template)
           reads(b) == line.parsed /\ b \in ToSet(line.blocks)
<1>1. /\ log \in TrainingLogs /\ t.limit \in BlockLimits
      /\ \A i \in 1 .. n :
           log[i].parsed => ToSet(log[i].blocks) \subseteq S \/ Cardinality(S) >= t.limit
      /\ \A b \in S : LinesRead(log, n, b) # {}
      /\ \A b \in S : \A i \in LinesRead(log, n, b) : log[i].template \in ToSet(t.miner)
      /\ t.sequences = [b \in S |-> Session(log, n, b, t.miner)]
      /\ IsFiniteSet(S)
  BY DEF ParseInv
<1>2. /\ n \in Nat /\ n + 1 \in 1 .. Len(log) /\ Len(log) \in Nat
      /\ T \subseteq ToSet(line.blocks) /\ (T # {} => line.parsed)
      /\ line.parsed => S \cap ToSet(line.blocks) \subseteq T
      /\ \A b \in T \ S : LinesRead(log, n, b) = {}
      /\ IsFiniteSet(S \cup T)
      /\ Cardinality(S) <= Cardinality(S \cup T)
      /\ line.parsed => ToSet(line.blocks) \subseteq S \cup T \/ Cardinality(S \cup T) >= t.limit
  BY TakenBlocks
<1>3. /\ u.log = log /\ u.limit = t.limit /\ u.read = n + 1 /\ u.selected = S \cup T
      /\ u.sequences = Extend(t.sequences, T, id)
      /\ T # {} => line.template \in ToSet(u.miner)
  OBVIOUS
<1> HIDE DEF log, n, T, S, line, id
<1>4. /\ Cardinality(S) \in Nat /\ Cardinality(S \cup T) \in Nat /\ t.limit \in Nat
      /\ \A i : i \in 1 .. n + 1 <=> (i \in 1 .. n \/ i = n + 1)
  <2>1. Cardinality(S) \in Nat /\ Cardinality(S \cup T) \in Nat /\ t.limit \in Nat
    BY <1>1, <1>2, FS_CardinalityType, LimitsAreNumbers
  <2>2. QED
    BY <1>2, <2>1
<1>5. \A b \in S \cup T : reads(b) <=> b \in T
  BY <1>2
<1>6. \A b : LinesRead(log, n + 1, b) =
               IF reads(b) THEN LinesRead(log, n, b) \cup {n + 1} ELSE LinesRead(log, n, b)
  BY <1>2, OneMoreLine DEF line
<1>7. \A i \in 1 .. n + 1 :
        log[i].parsed =>
          ToSet(log[i].blocks) \subseteq S \cup T \/ Cardinality(S \cup T) >= t.limit
  <2> SUFFICES ASSUME NEW i \in 1 .. n + 1, log[i].parsed
               PROVE  ToSet(log[i].blocks) \subseteq S \cup T \/ Cardinality(S \cup T) >= t.limit
    OBVIOUS
  <2>1. CASE i = n + 1
    BY <1>2, <2>1 DEF line
  <2>2. CASE i \in 1 .. n
    <3>1. CASE ToSet(log[i].blocks) \subseteq S
      BY <3>1
    <3>2. CASE Cardinality(S) >= t.limit
      BY <1>2, <1>4, <3>2
    <3>3. QED
      BY <1>1, <2>2, <3>1, <3>2
  <2>3. QED
    BY <1>4, <2>1, <2>2
<1>8. ASSUME NEW b \in S \cup T
      PROVE  /\ LinesRead(log, n + 1, b) # {}
             /\ \A i \in LinesRead(log, n + 1, b) : log[i].template \in ToSet(u.miner)
  <2> HIDE DEF reads
  <2>1. CASE b \in T
    <3>1. LinesRead(log, n + 1, b) = LinesRead(log, n, b) \cup {n + 1}
      BY <1>5, <1>6, <2>1
    <3>2. line.template \in ToSet(u.miner)
      BY <1>3, <2>1
    <3>3. \A i \in LinesRead(log, n, b) : log[i].template \in ToSet(u.miner)
      BY <1>1, <1>2, <2>1
    <3>4. QED
      BY <3>1, <3>2, <3>3 DEF line
  <2>2. CASE b \notin T
    <3>1. LinesRead(log, n + 1, b) = LinesRead(log, n, b)
      BY <1>5, <1>6, <2>2
    <3>2. QED
      BY <1>1, <2>2, <3>1
  <2>3. QED
    BY <2>1, <2>2
<1>9. ASSUME NEW b \in S \cup T
      PROVE  u.sequences[b] = Session(log, n + 1, b, u.miner)
  <2>1. u.sequences[b] = IF b \notin T THEN t.sequences[b]
                         ELSE IF b \in S THEN Append(t.sequences[b], id)
                         ELSE <<id>>
    BY <1>1, <1>3 DEF Extend
  <2>2. \A i \in LinesRead(log, n, b) :
          MatchTemplateId(u.miner, log[i].template) = MatchTemplateId(t.miner, log[i].template)
    <3>1. CASE b \in S
      BY <1>1, <3>1
    <3>2. CASE b \notin S
      BY <1>2, <3>2
    <3>3. QED
      BY <3>1, <3>2
  <2>3. /\ ~ reads(b) => Session(log, n + 1, b, u.miner) = Session(log, n, b, t.miner)
        /\ reads(b) =>
             /\ Session(log, n + 1, b, u.miner) = Append(Session(log, n, b, t.miner), id)
             /\ LinesRead(log, n, b) = {} => Session(log, n + 1, b, u.miner) = <<id>>
    BY <1>2, <2>2, SessionGoesOn DEF line, id
  <2> HIDE DEF reads
  <2>4. b \in S => t.sequences[b] = Session(log, n, b, t.miner)
    BY <1>1
  <2>5. CASE b \notin T
    BY <1>5, <2>1, <2>3, <2>4, <2>5
  <2>6. CASE b \in T /\ b \in S
    BY <1>5, <2>1, <2>3, <2>4, <2>6
  <2>7. CASE b \in T /\ b \notin S
    BY <1>2, <1>5, <2>1, <2>3, <2>7
  <2>8. QED
    BY <2>5, <2>6, <2>7
<1>10. u.sequences = [b \in S \cup T |-> Session(log, n + 1, b, u.miner)]
  <2>1. u.sequences = [b \in S \cup T |-> u.sequences[b]]
    BY <1>1, <1>3 DEF Extend
  <2>2. QED
    BY <1>9, <2>1
<1>11. n + 1 \in 0 .. Len(log)
  BY <1>2
<1>12. /\ u.log \in TrainingLogs /\ u.limit \in BlockLimits /\ u.read \in 0 .. Len(u.log)
       /\ u.mined \in Seq(STRING) /\ u.miner = Distinct(u.mined)
       /\ IsFiniteSet(u.selected)
  BY <1>1, <1>2, <1>3, <1>11
<1>13. \A i \in 1 .. u.read :
         u.log[i].parsed =>
           ToSet(u.log[i].blocks) \subseteq u.selected \/ Cardinality(u.selected) >= u.limit
  BY <1>3, <1>7
<1>14. /\ \A b \in u.selected : LinesRead(u.log, u.read, b) # {}
       /\ \A b \in u.selected : \A i \in LinesRead(u.log, u.read, b) :
            u.log[i].template \in ToSet(u.miner)
  BY <1>3, <1>8
<1>15. u.sequences = [b \in u.selected |-> Session(u.log, u.read, b, u.miner)]
  BY <1>3, <1>10
<1> QED
  BY <1>12, <1>13, <1>14, <1>15 DEF ParseInv

(* The locals of main after some of them were changed.                      *)
Reading(t, u) ==
    /\ u.log = t.log /\ u.limit = t.limit /\ u.read = t.read /\ u.selected = t.selected
    /\ u.mined = t.mined /\ u.miner = t.miner /\ u.sequences = t.sequences

LEMMA ReadAsBefore ==
    ASSUME NEW t, ParseInv(t), NEW u, Reading(t, u)
    PROVE  ParseInv(u)
  BY DEF ParseInv, Reading

LEMMA NothingRead ==
    ASSUME NEW log \in TrainingLogs, NEW limit \in BlockLimits, NEW t,
           t.log = log, t.limit = limit, t.read = 0, t.selected = {},
           t.mined = <<>>, t.miner = <<>>, t.sequences = <<>>
    PROVE  ParseInv(t)
<1>1. 0 \in 0 .. Len(log) /\ 1 .. 0 = {}
  BY LogIsOfLines
<1>2. <<>> \in Seq(STRING) /\ IsFiniteSet({})
  BY FS_EmptySet
<1>3. Distinct(<<>>) = <<>>
  <2> DEFINE d == Distinct(<<>>)
  <2>1. <<>> \in Seq({}) /\ Len(<<>>) = 0
    BY EmptySeq
  <2>2. d \in Seq({})
    BY <2>1, DifferentOnes
  <2> HIDE DEF d
  <2>3. Len(d) = 0
    <3>1. Len(d) \in Nat /\ \A k \in 1 .. Len(d) : d[k] \in {}
      BY <2>2, LenProperties, ElementOfSeq
    <3>2. QED
      BY <3>1
  <2>4. QED
    BY <2>2, <2>3, EmptySeq DEF d
<1>4. <<>> = [b \in {} |-> Session(log, 0, b, <<>>)]
  OBVIOUS
<1> QED
  BY <1>1, <1>2, <1>3, <1>4 DEF ParseInv

LEMMA TrainInitInv == TrainInit => TrainInv
  BY DEF TrainInit, TrainInv

LEMMA TrainStartsInv ==
    ASSUME NEW log \in TrainingLogs, NEW limit \in BlockLimits, NEW split \in Splits,
           Train(log, limit, split)
    PROVE  TrainInv'
<1> DEFINE t == [at |-> "parse", log |-> log, limit |-> limit, read |-> 0,
                 selected |-> {}, mined |-> <<>>, miner |-> <<>>, sequences |-> <<>>,
                 split |-> split, detector |-> Nothing, meta |-> Nothing]
<1>1. training' = t
  BY DEF Train
<1>2. IsTraining(t) /\ t.at = "parse" /\ t.split \in Splits
  BY DEF IsTraining, Stages
<1>3. /\ t.log = log /\ t.limit = limit /\ t.read = 0 /\ t.selected = {}
      /\ t.mined = <<>> /\ t.miner = <<>> /\ t.sequences = <<>>
  OBVIOUS
<1> HIDE DEF t
<1>4. ParseInv(t)
  BY <1>3, NothingRead
<1>5. Trains(t, netFile', stateFile')
  BY <1>2, <1>4 DEF Trains
<1> QED
  BY <1>1, <1>5 DEF TrainInv

(* A miner that goes on learning keeps the ids of the lines it has had.     *)
LEMMA LearnsOneMore ==
    ASSUME NEW V, NEW s \in Seq(V), NEW x \in V
    PROVE  /\ Distinct(s) \in Seq(V)
           /\ \A k, l \in 1 .. Len(Distinct(s)) : Distinct(s)[k] = Distinct(s)[l] => k = l
           /\ Distinct(Append(s, x)) = Learn(Distinct(s), x)
           /\ x \in ToSet(Distinct(Append(s, x)))
           /\ \A y \in ToSet(Distinct(s)) :
                /\ y \in ToSet(Distinct(Append(s, x)))
                /\ MatchTemplateId(Distinct(Append(s, x)), y) = MatchTemplateId(Distinct(s), y)
<1> DEFINE known == Distinct(s)
<1>1. /\ known \in Seq(V)
      /\ \A k, l \in 1 .. Len(known) : known[k] = known[l] => k = l
      /\ \A i \in 1 .. Len(s) : \E k \in 1 .. Len(known) : known[k] = s[i]
      /\ \A k \in 1 .. Len(known) : \E i \in 1 .. Len(s) : known[k] = s[i]
  BY DifferentOnes
<1> HIDE DEF known
<1>2. ToSet(s) = ToSet(known)
  <2>1. DOMAIN s = 1 .. Len(s) /\ DOMAIN known = 1 .. Len(known)
    BY <1>1, LenProperties
  <2>2. \A y : y \in ToSet(s) <=> \E i \in 1 .. Len(s) : s[i] = y
    BY <2>1 DEF ToSet
  <2>3. \A y : y \in ToSet(known) <=> \E k \in 1 .. Len(known) : known[k] = y
    BY <2>1 DEF ToSet
  <2>4. QED
    BY <1>1, <2>2, <2>3
<1>3. Distinct(Append(s, x)) = Learn(known, x)
  BY <1>2, DistinctFromMore DEF Learn, known
<1>4. /\ x \in ToSet(Learn(known, x))
      /\ \A y \in ToSet(known) :
           /\ y \in ToSet(Learn(known, x))
           /\ MatchTemplateId(Learn(known, x), y) = MatchTemplateId(known, y)
  BY <1>1, LearnIsKnown, KnownAsBefore
<1> QED
  BY <1>1, <1>3, <1>4 DEF known

LEMMA AddLogMessageInv ==
    ASSUME TrainInv, AddLogMessage
    PROVE  TrainInv'
<1> DEFINE line == training.log[training.read + 1]
           T == Taken(training)
           learnt == Learn(training.miner, line.template)
           id == MatchTemplateId(learnt, line.template)
<1>1. /\ IsTraining(training) /\ ParseInv(training) /\ training.at = "parse"
      /\ training.split \in Splits /\ training.read < Len(training.log)
  BY DEF TrainInv, Trains, AddLogMessage, At
<1>2. \/ /\ T = {} /\ training' = [training EXCEPT !.read = @ + 1]
      \/ /\ T # {}
         /\ training' = [training EXCEPT
                !.read = @ + 1,
                !.selected = @ \cup T,
                !.mined = Append(@, line.template),
                !.miner = learnt,
                !.sequences = Extend(@, T, id)]
  BY DEF AddLogMessage, Taken
<1>3. /\ training.mined \in Seq(STRING) /\ training.miner = Distinct(training.mined)
      /\ line.template \in STRING
      /\ training.sequences =
           [b \in training.selected |->
              Session(training.log, training.read, b, training.miner)]
  BY <1>1, TakenBlocks DEF ParseInv
<1> DEFINE known == training.miner
           x == line.template
           s == training.mined
<1>4. /\ known \in Seq(STRING)
      /\ \A k, l \in 1 .. Len(known) : known[k] = known[l] => k = l
      /\ Distinct(Append(s, x)) = learnt
      /\ Append(s, x) \in Seq(STRING)
      /\ x \in ToSet(learnt)
      /\ \A y \in ToSet(known) :
           y \in ToSet(learnt) /\ MatchTemplateId(learnt, y) = MatchTemplateId(known, y)
  <2> HIDE DEF s, x
  <2>1. s \in Seq(STRING) /\ x \in STRING /\ known = Distinct(s)
    BY <1>3 DEF s, x
  <2>2. /\ Distinct(s) \in Seq(STRING)
        /\ \A k, l \in 1 .. Len(Distinct(s)) : Distinct(s)[k] = Distinct(s)[l] => k = l
        /\ Distinct(Append(s, x)) = Learn(Distinct(s), x)
        /\ x \in ToSet(Distinct(Append(s, x)))
        /\ \A y \in ToSet(Distinct(s)) :
             /\ y \in ToSet(Distinct(Append(s, x)))
             /\ MatchTemplateId(Distinct(Append(s, x)), y) = MatchTemplateId(Distinct(s), y)
    BY <2>1, LearnsOneMore
  <2>3. learnt = Distinct(Append(s, x))
    BY <2>1, <2>2 DEF learnt, known, x
  <2>4. Append(s, x) \in Seq(STRING)
    BY <2>1
  <2> HIDE DEF known, T, learnt, id
  <2>5. QED
    BY <2>1, <2>2, <2>3, <2>4
<1>5. CASE T = {}
  <2> DEFINE u == [training EXCEPT !.read = @ + 1]
  <2>1. training' = u
    BY <1>2, <1>5
  <2>2. /\ IsTraining(u) /\ u.at = "parse" /\ u.split = training.split
        /\ u.log = training.log /\ u.limit = training.limit /\ u.read = training.read + 1
        /\ u.selected = training.selected /\ u.mined = s /\ u.miner = known
        /\ u.sequences = training.sequences
    BY <1>1 DEF IsTraining
  <2> HIDE DEF u
  <2>3. training.sequences = Extend(training.sequences, T, MatchTemplateId(known, x))
    BY <1>3, <1>5 DEF Extend
  <2>4. u.selected = training.selected \cup T
    BY <1>5, <2>2
  <2>5. \A y \in ToSet(known) :
          y \in ToSet(u.miner) /\ MatchTemplateId(u.miner, y) = MatchTemplateId(known, y)
    BY <2>2
  <2>6. u.mined \in Seq(STRING) /\ u.miner = Distinct(u.mined)
    BY <1>3, <2>2
  <2>7. u.sequences = Extend(training.sequences, T, MatchTemplateId(u.miner, x))
    BY <2>2, <2>3
  <2> HIDE DEF s, learnt, id
  <2>8. ParseInv(u)
    BY <1>1, <1>5, <2>2, <2>4, <2>5, <2>6, <2>7, ReadOn
  <2>9. Trains(u, netFile', stateFile')
    BY <1>1, <2>2, <2>8 DEF Trains
  <2>10. QED
    BY <2>1, <2>9 DEF TrainInv
<1>6. CASE T # {}
  <2> DEFINE u == [training EXCEPT
                !.read = @ + 1,
                !.selected = @ \cup T,
                !.mined = Append(@, x),
                !.miner = learnt,
                !.sequences = Extend(@, T, id)]
  <2>1. training' = u
    BY <1>2, <1>6
  <2>2. /\ IsTraining(u) /\ u.at = "parse" /\ u.split = training.split
        /\ u.log = training.log /\ u.limit = training.limit /\ u.read = training.read + 1
        /\ u.selected = training.selected \cup T /\ u.mined = Append(s, x) /\ u.miner = learnt
        /\ u.sequences = Extend(training.sequences, T, id)
    <3> HIDE DEF T, learnt, id, x
    <3>1. u = [training EXCEPT
                  !.read = training.read + 1,
                  !.selected = training.selected \cup T,
                  !.mined = Append(s, x),
                  !.miner = learnt,
                  !.sequences = Extend(training.sequences, T, id)]
      OBVIOUS
    <3> HIDE DEF u, s
    <3>2. IsTraining(training) /\ training.at = "parse"
      BY <1>1
    <3>3. QED
      BY <3>1, <3>2 DEF IsTraining, known
  <2> HIDE DEF u, learnt, s, known
  <2>3. \A y \in ToSet(training.miner) :
          /\ y \in ToSet(u.miner)
          /\ MatchTemplateId(u.miner, y) = MatchTemplateId(training.miner, y)
    BY <1>4, <2>2 DEF known
  <2>4. u.mined \in Seq(STRING) /\ u.miner = Distinct(u.mined)
    BY <1>4, <2>2
  <2>5. x \in ToSet(u.miner) /\ id = MatchTemplateId(u.miner, x)
    BY <1>4, <2>2
  <2>6. ParseInv(u)
    <3> HIDE DEF id
    <3>1. QED
      BY <1>1, <2>2, <2>3, <2>4, <2>5, ReadOn
  <2>7. Trains(u, netFile', stateFile')
    BY <1>1, <2>2, <2>6 DEF Trains
  <2>8. QED
    BY <2>1, <2>7 DEF TrainInv
<1> QED
  BY <1>5, <1>6

LEMMA ParsedInv ==
    ASSUME TrainInv, Parsed
    PROVE  TrainInv'
<1> DEFINE u == [training EXCEPT !.at = "split"]
<1>1. /\ IsTraining(training) /\ ParseInv(training) /\ training.at = "parse"
      /\ training.split \in Splits
      /\ training' = u /\ stateFile' = training.miner /\ training.read = Len(training.log)
  BY DEF TrainInv, Trains, Parsed, At
<1>2. IsTraining(u) /\ u.at = "split" /\ u.split = training.split /\ Reading(training, u)
  BY <1>1 DEF IsTraining, Stages, Reading
<1> HIDE DEF u
<1>3. ParseInv(u) /\ u.read = Len(u.log) /\ stateFile' = u.miner
  BY <1>1, <1>2, ReadAsBefore DEF Reading
<1>4. Trains(u, netFile', stateFile')
  BY <1>1, <1>2, <1>3 DEF Trains
<1> QED
  BY <1>1, <1>4 DEF TrainInv

(* Two cuts of a shuffled list.                                             *)
LEMMA CutsFit ==
    ASSUME NEW split \in Splits, NEW n \in Nat
    PROVE  LET nTrain == (split.train * n) \div split.of
               nVal == (split.val * n) \div split.of
           IN  nTrain \in Nat /\ nVal \in Nat /\ nTrain + nVal <= n
<1>1. /\ split.train \in Nat /\ split.val \in Nat /\ split.of \in Nat \ {0}
      /\ split.train + split.val <= split.of
  BY TrainingAssumption
<1> DEFINE a == split.train
           b == split.val
           c == split.of
           p == (a * n) \div c
           q == (b * n) \div c
<1>2. a \in Nat /\ b \in Nat /\ c \in Nat /\ c > 0 /\ a + b <= c
  BY <1>1
<1> HIDE DEF a, b, c
<1>3. a * n \in Nat /\ b * n \in Nat
  BY <1>2
<1>4. p \in Nat /\ q \in Nat /\ p * c <= a * n /\ q * c <= b * n
  BY <1>2, <1>3
<1> HIDE DEF p, q
<1>5. a * n + b * n <= c * n
  <2>1. a * n + b * n = (a + b) * n
    BY <1>2
  <2>2. PICK d \in Nat : c = a + b + d
    <3>1. c - (a + b) \in Nat /\ c = a + b + (c - (a + b))
      BY <1>2
    <3>2. QED
      BY <3>1
  <2>3. c * n = (a + b) * n + d * n /\ d * n \in Nat
    BY <1>2, <2>2
  <2>4. (a + b) * n \in Nat
    BY <1>2
  <2>5. QED
    BY <2>1, <2>3, <2>4
<1>6. (p + q) * c <= n * c
  <2>1. (p + q) * c = p * c + q * c /\ n * c = c * n
    BY <1>2, <1>4
  <2>2. p * c \in Nat /\ q * c \in Nat /\ c * n \in Nat
    BY <1>2, <1>4
  <2>3. QED
    BY <1>3, <1>4, <1>5, <2>1, <2>2
<1>7. p + q <= n
  <2> SUFFICES ASSUME p + q > n PROVE FALSE
    BY <1>4
  <2>1. PICK d \in Nat : p + q = n + 1 + d
    <3>1. p + q - n - 1 \in Nat /\ p + q = n + 1 + (p + q - n - 1)
      BY <1>4
    <3>2. QED
      BY <3>1
  <2>2. (p + q) * c = n * c + c + d * c
    BY <1>2, <2>1
  <2>3. d * c \in Nat /\ n * c \in Nat
    BY <1>2
  <2>4. QED
    BY <1>2, <1>6, <2>2, <2>3
<1> QED
  BY <1>4, <1>7 DEF p, q, a, b, c

LEMMA BlocksAreCut ==
    ASSUME NEW split \in Splits, NEW S, NEW s \in Seq(S), IsInjective(s)
    PROVE  CutInv(S, SplitBlocks(s, split))
<1> DEFINE n == Len(s)
           p == (split.train * n) \div split.of
           q == (split.val * n) \div split.of
           train == SubSeq(s, 1, p)
           val == SubSeq(s, p + 1, p + q)
<1>1. n \in Nat /\ DOMAIN s = 1 .. n /\ \A i \in 1 .. n : s[i] \in S
  BY LenProperties, ElementOfSeq
<1>2. p \in Nat /\ q \in Nat /\ p + q <= n
  BY <1>1, CutsFit
<1>3. SplitBlocks(s, split) = [train |-> train, val |-> val]
  BY DEF SplitBlocks
<1> HIDE DEF p, q, n
<1>4. /\ train \in Seq(S) /\ DOMAIN train = 1 .. p
      /\ \A i \in 1 .. p : train[i] = s[i]
  <2>1. \A i \in 1 .. p : s[i] \in S
    BY <1>1, <1>2
  <2>2. /\ train \in Seq(S) /\ Len(train) = IF 1 <= p THEN p - 1 + 1 ELSE 0
        /\ \A i \in 1 .. p - 1 + 1 : train[i] = s[1 + i - 1]
    <3>1. 1 \in Int /\ p \in Int
      BY <1>2
    <3>2. QED
      BY <2>1, <3>1, SubSeqProperties
  <2> HIDE DEF train
  <2>3. Len(train) = p /\ p - 1 + 1 = p /\ \A i \in 1 .. p : 1 + i - 1 = i
    BY <1>2, <2>2
  <2>4. QED
    BY <2>2, <2>3, LenProperties
<1>5. /\ val \in Seq(S) /\ DOMAIN val = 1 .. q
      /\ \A i \in 1 .. q : val[i] = s[p + i]
  <2>1. \A i \in p + 1 .. p + q : s[i] \in S
    BY <1>1, <1>2
  <2> DEFINE m == p + 1
             l == p + q
  <2>2. m \in Int /\ l \in Int
    BY <1>2
  <2>3. /\ val \in Seq(S) /\ Len(val) = IF m <= l THEN l - m + 1 ELSE 0
        /\ \A i \in 1 .. l - m + 1 : val[i] = s[m + i - 1]
    <3>1. \A i \in m .. l : s[i] \in S
      BY <2>1
    <3>2. val = SubSeq(s, m, l)
      OBVIOUS
    <3> HIDE DEF m, l, val
    <3>3. QED
      BY <2>2, <3>1, <3>2, SubSeqProperties
  <2> HIDE DEF val
  <2>4. Len(val) = q /\ l - m + 1 = q /\ \A i \in 1 .. q : m + i - 1 = p + i
    BY <1>2, <2>3
  <2> HIDE DEF m, l
  <2>5. QED
    BY <2>3, <2>4, LenProperties
<1> HIDE DEF train, val
<1>6. \A i, j \in 1 .. n : s[i] = s[j] => i = j
  BY <1>1 DEF IsInjective
<1>7. IsInjective(train)
  <2>1. \A i \in 1 .. p : i \in 1 .. n
    BY <1>1, <1>2
  <2>2. QED
    BY <1>4, <1>6, <2>1 DEF IsInjective
<1>8. ToSet(train) \cap ToSet(val) = {}
  <2> SUFFICES ASSUME NEW i \in 1 .. p, NEW j \in 1 .. q, s[i] = s[p + j] PROVE FALSE
    BY <1>4, <1>5 DEF ToSet
  <2>1. i \in 1 .. n /\ p + j \in 1 .. n /\ i # p + j
    BY <1>1, <1>2
  <2>2. QED
    BY <1>6, <2>1
<1> QED
  BY <1>3, <1>4, <1>5, <1>7, <1>8 DEF CutInv

LEMMA SplitInv ==
    ASSUME TrainInv, Split
    PROVE  TrainInv'
<1> DEFINE cut == SplitBlocks(Shuffled(Labelled(DOMAIN training.sequences, FALSE)), training.split)
           u == [training EXCEPT !.at = "fit", !.split = cut]
<1>1. /\ IsTraining(training) /\ ParseInv(training) /\ training.at = "split"
      /\ training.split \in Splits
      /\ training.read = Len(training.log) /\ stateFile = training.miner
      /\ stateFile' = stateFile
      /\ training' = Nothing \/ training' = u
  BY DEF TrainInv, Trains, Split, At
<1>2. CutInv(training.selected, cut)
  <2> DEFINE S == Labelled(DOMAIN training.sequences, FALSE)
             s == Shuffled(S)
             B == training.selected
  <2>1. DOMAIN training.sequences = training.selected
    BY <1>1 DEF ParseInv
  <2>2. S \in SUBSET DOMAIN Labels /\ S \subseteq B
    BY <2>1 DEF Labelled
  <2>3. \A X \in SUBSET DOMAIN Labels : Shuffled(X) \in Seq(X) /\ IsInjective(Shuffled(X))
    BY TrainingAssumption
  <2> HIDE DEF S, B
  <2>4. s \in Seq(S) /\ IsInjective(s)
    BY <2>2, <2>3
  <2> HIDE DEF s
  <2>5. s \in Seq(B)
    BY <2>2, <2>4, SeqMonotonic
  <2>6. CutInv(B, SplitBlocks(s, training.split))
    BY <1>1, <2>4, <2>5, BlocksAreCut
  <2>7. QED
    BY <2>6 DEF s, S, B
<1> HIDE DEF cut
<1>6. u = [training EXCEPT !.at = "fit", !.split = cut]
  OBVIOUS
<1> HIDE DEF u
<1>7. IsTraining(training)
  BY <1>1
<1>3. IsTraining(u) /\ u.at = "fit" /\ u.split = cut /\ Reading(training, u)
  BY <1>6, <1>7 DEF IsTraining, Stages, Reading
<1>4. ParseInv(u) /\ u.read = Len(u.log) /\ stateFile' = u.miner /\ u.selected = training.selected
  BY <1>1, <1>3, ReadAsBefore DEF Reading
<1>5. Trains(u, netFile', stateFile')
  BY <1>2, <1>3, <1>4 DEF Trains
<1> QED
  BY <1>1, <1>5 DEF TrainInv

LEMMA FitDetectorInv ==
    ASSUME TrainInv, FitDetector
    PROVE  TrainInv'
<1> DEFINE detector == Detector(training.sequences, training.split)
           u == [training EXCEPT !.at = "save", !.detector = detector]
<1>1. /\ IsTraining(training) /\ ParseInv(training) /\ training.at = "fit"
      /\ CutInv(training.selected, training.split)
      /\ training.read = Len(training.log) /\ stateFile = training.miner
      /\ stateFile' = stateFile
  BY DEF TrainInv, Trains, FitDetector, At
<1>2. training' = u
  BY DEF FitDetector, Detector, TrainedOn
<1> HIDE DEF detector
<1>6. u = [training EXCEPT !.at = "save", !.detector = detector]
  OBVIOUS
<1> HIDE DEF u
<1>7. IsTraining(training)
  BY <1>1
<1>3. /\ IsTraining(u) /\ u.at = "save" /\ u.split = training.split /\ u.detector = detector
      /\ Reading(training, u)
  BY <1>6, <1>7 DEF IsTraining, Stages, Reading
<1>4. /\ ParseInv(u) /\ u.read = Len(u.log) /\ stateFile' = u.miner
      /\ CutInv(u.selected, u.split) /\ u.detector = Detector(u.sequences, u.split)
  BY <1>1, <1>3, ReadAsBefore DEF Reading, detector
<1>5. Trains(u, netFile', stateFile')
  BY <1>3, <1>4 DEF Trains
<1> QED
  BY <1>2, <1>5 DEF TrainInv

LEMMA SaveDetectorInv ==
    ASSUME TrainInv, SaveDetector
    PROVE  TrainInv'
<1> DEFINE u == [training EXCEPT !.at = "parity"]
<1>1. /\ IsTraining(training) /\ ParseInv(training) /\ training.at = "save"
      /\ CutInv(training.selected, training.split)
      /\ training.read = Len(training.log) /\ stateFile = training.miner
      /\ training.detector = Detector(training.sequences, training.split)
      /\ training' = u /\ netFile' = training.detector /\ stateFile' = stateFile
  BY DEF TrainInv, Trains, SaveDetector, At
<1>2. /\ IsTraining(u) /\ u.at = "parity" /\ u.split = training.split
      /\ u.detector = training.detector /\ Reading(training, u)
  BY <1>1 DEF IsTraining, Stages, Reading
<1> HIDE DEF u
<1>3. /\ ParseInv(u) /\ u.read = Len(u.log) /\ stateFile' = u.miner
      /\ CutInv(u.selected, u.split) /\ u.detector = Detector(u.sequences, u.split)
      /\ netFile' = u.detector
  BY <1>1, <1>2, ReadAsBefore DEF Reading
<1>4. Trains(u, netFile', stateFile')
  BY <1>2, <1>3 DEF Trains
<1> QED
  BY <1>1, <1>4 DEF TrainInv

LEMMA WriteMetaInv ==
    ASSUME TrainInv, WriteMeta
    PROVE  TrainInv'
<1> DEFINE meta == Parity(training.mined, Loaded(stateFile))
           u == [training EXCEPT !.at = "print", !.meta = meta]
<1>1. /\ IsTraining(training) /\ ParseInv(training) /\ training.at = "parity"
      /\ CutInv(training.selected, training.split)
      /\ training.read = Len(training.log) /\ stateFile = training.miner
      /\ training.detector = Detector(training.sequences, training.split)
      /\ netFile = training.detector
      /\ training' = u /\ netFile' = netFile /\ stateFile' = stateFile
  BY DEF TrainInv, Trains, WriteMeta, At
<1>2. meta = Parity(training.mined, training.miner)
  <2>1. training.miner \in Seq(STRING)
    BY <1>1, DifferentOnes DEF ParseInv
  <2>2. Loaded(stateFile) = training.miner
    BY <1>1, <2>1, TrainingAssumption DEF Loaded
  <2>3. QED
    BY <2>2
<1> HIDE DEF meta
<1>6. u = [training EXCEPT !.at = "print", !.meta = meta]
  OBVIOUS
<1> HIDE DEF u
<1>7. IsTraining(training)
  BY <1>1
<1>3. /\ IsTraining(u) /\ u.at = "print" /\ u.split = training.split /\ u.meta = meta
      /\ u.detector = training.detector /\ Reading(training, u)
  BY <1>6, <1>7 DEF IsTraining, Stages, Reading
<1>4. /\ ParseInv(u) /\ u.read = Len(u.log) /\ stateFile' = u.miner
      /\ CutInv(u.selected, u.split) /\ u.detector = Detector(u.sequences, u.split)
      /\ netFile' = u.detector /\ u.meta = Parity(u.mined, u.miner)
  BY <1>1, <1>2, <1>3, ReadAsBefore DEF Reading
<1>5. Trains(u, netFile', stateFile')
  BY <1>3, <1>4 DEF Trains
<1> QED
  BY <1>1, <1>5 DEF TrainInv

LEMMA TrainKeeps ==
    ASSUME TrainInv, TrainNext \/ UNCHANGED trainVars
    PROVE  TrainInv'
<1>1. CASE \E log \in TrainingLogs, limit \in BlockLimits, split \in Splits :
             Train(log, limit, split)
  BY <1>1, TrainStartsInv
<1>2. CASE TrainStep
  <2>1. CASE PrintFiles
    BY <2>1 DEF PrintFiles, TrainInv
  <2>2. QED
    BY <1>2, <2>1, AddLogMessageInv, ParsedInv, SplitInv, FitDetectorInv, SaveDetectorInv,
       WriteMetaInv DEF TrainStep
<1>3. CASE TrainStops
  BY <1>3 DEF TrainStops, TrainInv
<1>4. CASE UNCHANGED trainVars
  BY <1>4 DEF trainVars, TrainInv
<1> QED
  BY <1>1, <1>2, <1>3, <1>4 DEF TrainNext

(* The block of a line is served as it was trained.                         *)
LEMMA ServedAsTrained ==
    ASSUME NEW t, ParseInv(t), t.read = Len(t.log), NEW b \in t.selected
    PROVE  LET P == {i \in DOMAIN t.log : t.log[i].parsed}
           IN  ServedSessions(Pick(t.log, P), t.miner)[b] = t.sequences[b]
<1> DEFINE log == t.log
           n == Len(log)
           P == {i \in DOMAIN log : log[i].parsed}
           c == Cardinality(P)
           lines == Pick(log, P)
           M == LinesRead(log, n, b)
           W == Mentioning(lines, b)
           m == Cardinality(W)
           row == LineNumbers(lines, b)
           blocks == BlockOrder(lines)
<1>1. /\ log \in TrainingLogs /\ M # {}
      /\ t.sequences[b] = Session(log, n, b, t.miner)
  BY DEF ParseInv
<1>2. /\ log \in Seq(LogLines) /\ n \in Nat /\ DOMAIN log = 1 .. n
      /\ \A r \in LogLines : r.blocks \in Seq(STRING)
  BY <1>1, LogIsOfLines
<1>3. \A i : i \in M <=> i \in P /\ b \in ToSet(log[i].blocks)
  BY <1>2 DEF LinesRead
<1>4. P \subseteq DOMAIN log
  OBVIOUS
<1>5. M \subseteq Int
  BY <1>2, FiniteLinesRead
<1> HIDE DEF log, n, P, M
<1>6. /\ c \in Nat /\ lines \in Seq(LogLines) /\ Len(lines) = c
      /\ \A k \in 1 .. c : Nth(P, k) \in P /\ lines[k] = log[Nth(P, k)]
      /\ \A i \in P : \E k \in 1 .. c : Nth(P, k) = i
      /\ \A k, l \in 1 .. c : k < l => Nth(P, k) < Nth(P, l)
  BY <1>2, <1>4, Picked
<1> HIDE DEF lines, c
<1>7. \A k : k \in W <=> k \in 1 .. c /\ b \in ToSet(log[Nth(P, k)].blocks)
  <2>1. DOMAIN lines = 1 .. c
    BY <1>6, LenProperties
  <2>2. QED
    BY <1>6, <2>1 DEF Mentioning
<1>8. /\ W \subseteq 1 .. c /\ IsFiniteSet(W)
      /\ row = [k \in 1 .. m |-> Nth(W, k)]
  BY <1>2, <1>6, LinesInARow
<1> HIDE DEF W, row
<1>9. /\ m \in Nat
      /\ \A k \in 1 .. m : Nth(W, k) \in W
      /\ \A i \in W : \E k \in 1 .. m : Nth(W, k) = i
      /\ \A k, l \in 1 .. m : k < l => Nth(W, k) < Nth(W, l)
  <2>1. W \subseteq Int
    BY <1>6, <1>8
  <2>2. QED
    BY <1>8, <2>1, Row, FS_CardinalityType
<1> HIDE DEF m
<1>10. GroupByBlock(lines)[b] = row /\ b \in ToSet(blocks)
  <2>1. /\ blocks \in Seq(STRING)
        /\ \A k, l \in 1 .. Len(blocks) : blocks[k] = blocks[l] => k = l
        /\ \A k \in 1 .. Len(blocks) : Mentioning(lines, blocks[k]) # {}
        /\ \A i \in 1 .. Len(lines) : \A d \in ToSet(lines[i].blocks) :
             \E k \in 1 .. Len(blocks) : blocks[k] = d
        /\ \A k \in 1 .. Len(blocks) : GroupByBlock(lines)[blocks[k]] = LineNumbers(lines, blocks[k])
    BY <1>2, <1>6, GroupsAreTheirLines
  <2>2. PICK i \in P : b \in ToSet(log[i].blocks)
    BY <1>1, <1>3
  <2>3. PICK k \in 1 .. c : Nth(P, k) = i
    BY <1>6
  <2>4. k \in 1 .. Len(lines) /\ b \in ToSet(lines[k].blocks)
    BY <1>6, <2>2, <2>3
  <2> HIDE DEF blocks
  <2>5. PICK l \in 1 .. Len(blocks) : blocks[l] = b
    BY <2>1, <2>4
  <2>6. DOMAIN blocks = 1 .. Len(blocks)
    BY <2>1, LenProperties
  <2>7. b \in ToSet(blocks)
    BY <2>5, <2>6 DEF ToSet
  <2>8. GroupByBlock(lines)[b] = LineNumbers(lines, b)
    BY <2>1, <2>5
  <2>9. QED
    BY <2>7, <2>8 DEF row
<1> DEFINE f == [k \in 1 .. m |-> Nth(P, Nth(W, k))]
<1>11. f \in [1 .. m -> M]
  <2>1. \A k \in 1 .. m : Nth(P, Nth(W, k)) \in M
    BY <1>3, <1>6, <1>7, <1>9
  <2>2. QED
    BY <2>1
<1>12. \A k, l \in 1 .. m : k < l => f[k] < f[l]
  BY <1>6, <1>8, <1>9
<1>13. \A i \in M : \E k \in 1 .. m : f[k] = i
  <2> SUFFICES ASSUME NEW i \in M PROVE \E k \in 1 .. m : f[k] = i
    OBVIOUS
  <2>1. i \in P /\ b \in ToSet(log[i].blocks)
    BY <1>3
  <2>2. PICK k \in 1 .. c : Nth(P, k) = i
    BY <1>6, <2>1
  <2>3. k \in W
    BY <1>7, <2>1, <2>2
  <2>4. PICK l \in 1 .. m : Nth(W, l) = k
    BY <1>9, <2>3
  <2>5. QED
    BY <2>2, <2>4
<1>14. Cardinality(M) = m /\ \A k \in 1 .. m : f[k] = Nth(M, k)
  <2> HIDE DEF f
  <2>1. QED
    BY <1>5, <1>9, <1>11, <1>12, <1>13, OneRow
<1>15. ServedSessions(lines, t.miner)[b]
         = [k \in DOMAIN row |-> MatchTemplateId(t.miner, lines[row[k]].template)]
  <2>1. DOMAIN GroupByBlock(lines) = ToSet(blocks)
    BY DEF GroupByBlock
  <2> HIDE DEF blocks
  <2>2. QED
    BY <1>10, <2>1 DEF ServedSessions
<1>16. ServedSessions(lines, t.miner)[b]
         = [k \in 1 .. m |-> MatchTemplateId(t.miner, lines[Nth(W, k)].template)]
  BY <1>8, <1>15
<1>17. \A k \in 1 .. m : lines[Nth(W, k)] = log[Nth(M, k)]
  BY <1>6, <1>8, <1>9, <1>14
<1>18. ServedSessions(lines, t.miner)[b]
         = [k \in 1 .. m |-> MatchTemplateId(t.miner, log[Nth(M, k)].template)]
  BY <1>16, <1>17
<1>19. Session(log, n, b, t.miner)
         = [k \in 1 .. Cardinality(M) |-> MatchTemplateId(t.miner, log[Nth(M, k)].template)]
  BY DEF Session, M
<1>20. ServedSessions(lines, t.miner)[b] = t.sequences[b]
  BY <1>1, <1>14, <1>18, <1>19
<1> QED
  BY <1>20 DEF lines, P, log

(* So has a miner that had only the first of the lines.                     *)
LEMMA MoreLinesKeepIds ==
    ASSUME NEW V, NEW mined \in Seq(V), NEW m \in 0 .. Len(mined)
    PROVE  \A y \in ToSet(Distinct(SubSeq(mined, 1, m))) :
              /\ y \in ToSet(Distinct(mined))
              /\ MatchTemplateId(Distinct(mined), y)
                   = MatchTemplateId(Distinct(SubSeq(mined, 1, m)), y)
<1> DEFINE n == Len(mined)
           known(k) == Distinct(SubSeq(mined, 1, k))
           Keeps(k) == \A y \in ToSet(known(m)) :
                          /\ y \in ToSet(known(k))
                          /\ MatchTemplateId(known(k), y) = MatchTemplateId(known(m), y)
           T == {k \in 0 .. n : m <= k => Keeps(k)}
<1>1. n \in Nat /\ m \in Nat
  BY LenProperties
<1>2. 0 \in T
  <2>1. m <= 0 => m = 0
    BY <1>1
  <2> HIDE DEF known
  <2>2. QED
    BY <1>1, <2>1
<1>3. ASSUME NEW k \in 0 .. n, k < n, k \in T
      PROVE  k + 1 \in T
  <2>1. k + 1 \in 0 .. n /\ k + 1 \in 1 .. n
    BY <1>1, <1>3
  <2>2. CASE m <= k
    <3>1. /\ SubSeq(mined, 1, k) \in Seq(V) /\ mined[k + 1] \in V
          /\ SubSeq(mined, 1, k + 1) = Append(SubSeq(mined, 1, k), mined[k + 1])
      <4>1. mined[k + 1] \in V
        BY <2>1, ElementOfSeq
      <4>2. SubSeq(mined, 1, k) \in Seq(V)
        BY <2>1
      <4>3. SubSeq(mined, 1, k + 1) = Append(SubSeq(mined, 1, k), mined[k + 1])
        BY <2>1
      <4>4. QED
        BY <4>1, <4>2, <4>3
    <3>2. \A y \in ToSet(known(k)) :
            /\ y \in ToSet(known(k + 1))
            /\ MatchTemplateId(known(k + 1), y) = MatchTemplateId(known(k), y)
      <4> DEFINE r == SubSeq(mined, 1, k)
                 x == mined[k + 1]
      <4>1. r \in Seq(V) /\ x \in V /\ known(k) = Distinct(r) /\ known(k + 1) = Distinct(Append(r, x))
        BY <3>1
      <4> HIDE DEF known, r, x
      <4>2. \A y \in ToSet(Distinct(r)) :
              /\ y \in ToSet(Distinct(Append(r, x)))
              /\ MatchTemplateId(Distinct(Append(r, x)), y) = MatchTemplateId(Distinct(r), y)
        BY <4>1, LearnsOneMore
      <4>3. QED
        BY <4>1, <4>2
    <3>3. Keeps(k)
      BY <1>3, <2>2
    <3> HIDE DEF known
    <3>4. QED
      BY <2>1, <3>2, <3>3
  <2>3. CASE ~ (m <= k)
    <3>1. m <= k + 1 => m = k + 1
      BY <1>1, <1>3, <2>3
    <3> HIDE DEF known
    <3>2. QED
      BY <2>1, <3>1
  <2>4. QED
    BY <2>2, <2>3
<1>4. n \in T
  <2> HIDE DEF T
  <2>1. \A k \in 0 .. n : k \in T
    BY <1>1, <1>2, <1>3, UpTo
  <2>2. QED
    BY <1>1, <2>1
<1>5. SubSeq(mined, 1, n) = mined
  BY <1>1
<1>6. Keeps(n)
  BY <1>1, <1>4
<1> QED
  BY <1>5, <1>6

(* All ids agree: the saved miner, which has learnt from all lines, gives   *)
(* the first of them the ids that a fresh one gives them.                   *)
LEMMA ParityHolds ==
    ASSUME NEW mined \in Seq(STRING)
    PROVE  LET meta == Parity(mined, Distinct(mined))
           IN  meta.same = meta.checked /\ meta.unmatched = 0
<1> DEFINE lines == FirstLines(mined)
           known == Distinct(lines)
           n == Len(lines)
           served(i) == MatchTemplateId(Distinct(mined), lines[i])
           trained(i) == MatchTemplateId(known, lines[i])
           meta == Parity(mined, Distinct(mined))
<1>1. PICK m \in 0 .. Len(mined) : lines = SubSeq(mined, 1, m)
  <2>1. Len(mined) \in Nat /\ ParityLines \in Nat
    BY LenProperties, TrainingAssumption
  <2>2. CASE Len(mined) <= ParityLines
    <3>1. lines = SubSeq(mined, 1, Len(mined))
      BY <2>1, <2>2 DEF FirstLines
    <3>2. QED
      BY <2>1, <3>1
  <2>3. CASE ~ (Len(mined) <= ParityLines)
    BY <2>1, <2>3 DEF FirstLines
  <2>4. QED
    BY <2>2, <2>3
<1>2. lines \in Seq(STRING)
  BY <1>1
<1>3. meta = [checked |-> n,
              same |-> Cardinality({i \in DOMAIN lines : served(i) = trained(i)}),
              unmatched |-> Cardinality({i \in DOMAIN lines : served(i) = UNKNOWN_TEMPLATE_ID})]
  BY DEF Parity
<1>4. /\ n \in Nat /\ DOMAIN lines = 1 .. n
      /\ known \in Seq(STRING) /\ DOMAIN known = 1 .. Len(known) /\ Len(known) \in Nat
      /\ \A i \in 1 .. n : \E k \in 1 .. Len(known) : known[k] = lines[i]
  <2> HIDE DEF lines
  <2>1. known \in Seq(STRING) /\ \A i \in 1 .. n : \E k \in 1 .. Len(known) : known[k] = lines[i]
    BY <1>2, DifferentOnes
  <2>2. QED
    BY <1>2, <2>1, LenProperties
<1>5. ASSUME NEW i \in 1 .. n
      PROVE  served(i) = trained(i) /\ trained(i) # UNKNOWN_TEMPLATE_ID
  <2> DEFINE x == lines[i]
  <2>1. PICK k \in 1 .. Len(known) : known[k] = x
    BY <1>4
  <2> HIDE DEF lines
  <2>2. x \in ToSet(known)
    BY <1>4, <2>1 DEF ToSet
  <2>3. served(i) = trained(i)
    BY <1>1, <2>2, MoreLinesKeepIds
  <2> HIDE DEF known, x
  <2>4. trained(i) = CHOOSE l \in DOMAIN known : known[l] = x
    BY <2>2 DEF MatchTemplateId, x
  <2>5. (CHOOSE l \in DOMAIN known : known[l] = x) \in DOMAIN known
    BY <1>4, <2>1
  <2>6. trained(i) \in Nat
    BY <1>4, <2>4, <2>5
  <2>7. QED
    BY <2>3, <2>6 DEF UNKNOWN_TEMPLATE_ID
<1> HIDE DEF lines, known, served, trained, n, meta
<1>6. /\ {i \in DOMAIN lines : served(i) = trained(i)} = 1 .. n
      /\ {i \in DOMAIN lines : served(i) = UNKNOWN_TEMPLATE_ID} = {}
  BY <1>4, <1>5
<1>7. Cardinality(1 .. n) = n /\ Cardinality({}) = 0
  BY <1>4, FS_Interval, FS_EmptySet
<1>8. meta.same = meta.checked /\ meta.unmatched = 0
  BY <1>3, <1>6, <1>7
<1> QED
  BY <1>8 DEF meta

LEMMA OneMoreKind ==
    ASSUME NEW old, IsFiniteSet(old), NEW D, IsFiniteSet(D), NEW E, IsFiniteSet(E),
           old \cap (D \X E) = {}
    PROVE  /\ IsFiniteSet(old \cup (D \X E))
           /\ Cardinality(old \cup (D \X E)) = Cardinality(old) + Cardinality(D) * Cardinality(E)
<1> DEFINE new == D \X E
<1>1. IsFiniteSet(new) /\ Cardinality(new) = Cardinality(D) * Cardinality(E)
  BY FS_Product
<1>2. old \cap new = {}
  OBVIOUS
<1> HIDE DEF new
<1>3. IsFiniteSet(old \cup new) /\ Cardinality(old \cup new) = Cardinality(old) + Cardinality(new)
  BY <1>1, <1>2, DisjointUnion
<1> QED
  BY <1>1, <1>3 DEF new

(* A sum over kinds counts pairs of which the first is of a kind.           *)
PairsOf(B, of) == UNION {{b} \X of[b] : b \in B}

OfKinds(B, kind, kinds, of, A, number) ==
    LET n == Len(number)
    IN  /\ number \in Seq(Nat)
        /\ \A k, l \in 1 .. n : kinds[k] = kinds[l] => k = l
        /\ \A b \in B : \E k \in 1 .. n : kind[b] = kinds[k]
        /\ \A k \in 1 .. n : IsFiniteSet(A[k])
        /\ \A b \in B : \A k \in 1 .. n : kind[b] = kinds[k] => of[b] = A[k]
        /\ \A k \in 1 .. n :
             number[k] = Cardinality({b \in B : kind[b] = kinds[k]}) * Cardinality(A[k])

LEMMA CountedByKind ==
    ASSUME NEW B, IsFiniteSet(B), NEW kind, NEW kinds, NEW of, NEW A, NEW number,
           OfKinds(B, kind, kinds, of, A, number)
    PROVE  Sums(number)[Len(number)] = Cardinality(PairsOf(B, of))
<1> DEFINE n == Len(number)
<1>0. /\ number \in Seq(Nat) /\ n = Len(number) /\ n \in Nat
      /\ \A k, l \in 1 .. n : kinds[k] = kinds[l] => k = l
      /\ \A b \in B : \E k \in 1 .. n : kind[b] = kinds[k]
      /\ \A k \in 1 .. n : IsFiniteSet(A[k])
      /\ \A b \in B : \A k \in 1 .. n : kind[b] = kinds[k] => of[b] = A[k]
      /\ \A k \in 1 .. n :
           number[k] = Cardinality({b \in B : kind[b] = kinds[k]}) * Cardinality(A[k])
  BY LenProperties DEF OfKinds
<1> HIDE DEF n
<1> DEFINE sum == Sums(number)
           upto(k) == {b \in B : \E j \in 1 .. k : kind[b] = kinds[j]}
           pairs(C) == PairsOf(C, of)
           T == {k \in 0 .. n : /\ IsFiniteSet(pairs(upto(k)))
                                /\ Cardinality(pairs(upto(k))) = sum[k]}
<1>1. /\ sum \in [0 .. n -> Nat] /\ sum[0] = 0
      /\ \A k \in 1 .. n : sum[k] = sum[k - 1] + number[k]
  BY <1>0, SumsGrow
<1> HIDE DEF sum
<1>2. 0 \in T
  <2>1. upto(0) = {}
    OBVIOUS
  <2>2. pairs(upto(0)) = {}
    BY <2>1 DEF PairsOf
  <2> HIDE DEF pairs, upto
  <2>3. IsFiniteSet(pairs(upto(0))) /\ Cardinality(pairs(upto(0))) = 0
    BY <2>2, FS_EmptySet
  <2>4. QED
    BY <1>0, <1>1, <2>3
<1>3. ASSUME NEW k \in 0 .. n, k < n, k \in T PROVE k + 1 \in T
  <2> DEFINE D == {b \in B : kind[b] = kinds[k + 1]}
             E == A[k + 1]
             old == pairs(upto(k))
             new == D \X E
  <2>1. k + 1 \in 1 .. n /\ k \in Nat /\ (k + 1) - 1 = k
    BY <1>0, <1>3
  <2>2. IsFiniteSet(old) /\ Cardinality(old) = sum[k]
    BY <1>3
  <2>3. upto(k + 1) = upto(k) \cup D
    <3>1. \A j : j \in 1 .. k + 1 <=> (j \in 1 .. k \/ j = k + 1)
      BY <2>1
    <3>2. QED
      BY <3>1
  <2>4. new = pairs(D)
    <3>1. \A b \in D : of[b] = E
      BY <1>0, <2>1
    <3>2. pairs(D) = UNION {{b} \X E : b \in D}
      BY <3>1 DEF PairsOf
    <3> HIDE DEF E, D
    <3>3. UNION {{b} \X E : b \in D} = D \X E
      OBVIOUS
    <3>4. QED
      BY <3>2, <3>3
  <2>5. pairs(upto(k + 1)) = old \cup new
    <3> HIDE DEF upto, D
    <3>1. pairs(upto(k) \cup D) = pairs(upto(k)) \cup pairs(D)
      BY DEF PairsOf
    <3>2. QED
      BY <2>3, <2>4, <3>1
  <2>6. old \cap new = {}
    <3> SUFFICES ASSUME NEW b \in upto(k), NEW p \in {b} \X of[b], p \in new PROVE FALSE
      BY DEF PairsOf
    <3>1. p[1] = b /\ b \in D
      OBVIOUS
    <3>2. PICK j \in 1 .. k : kind[b] = kinds[j]
      OBVIOUS
    <3>3. j \in 1 .. n /\ kinds[j] = kinds[k + 1] /\ j # k + 1
      BY <1>0, <2>1, <3>1, <3>2
    <3>4. QED
      BY <1>0, <2>1, <3>3
  <2>7. IsFiniteSet(D) /\ IsFiniteSet(E) /\ number[k + 1] = Cardinality(D) * Cardinality(E)
    BY <1>0, <2>1, FS_Subset
  <2> HIDE DEF old, D, E
  <2>8. /\ IsFiniteSet(old \cup new)
        /\ Cardinality(old \cup new) = sum[k] + number[k + 1]
    <3>1. IsFiniteSet(old)
      BY <2>2
    <3>2. old \cap new = {}
      BY <2>6
    <3>5. old \cap (D \X E) = {}
      BY <3>2
    <3>6. IsFiniteSet(D) /\ IsFiniteSet(E)
      BY <2>7
    <3> HIDE DEF T, pairs, upto
    <3>3. /\ IsFiniteSet(old \cup (D \X E))
          /\ Cardinality(old \cup (D \X E)) = Cardinality(old) + Cardinality(D) * Cardinality(E)
      BY <3>1, <3>5, <3>6, OneMoreKind
    <3>4. QED
      BY <2>2, <2>7, <3>3
  <2>9. sum[k + 1] = sum[k] + number[k + 1]
    BY <1>1, <2>1
  <2> HIDE DEF pairs, upto
  <2>10. k + 1 \in 0 .. n
    BY <2>1
  <2>11. QED
    BY <2>5, <2>8, <2>9, <2>10
<1>4. \A k \in 0 .. n : k \in T
  <2> HIDE DEF T
  <2>1. QED
    BY <1>0, <1>2, <1>3, UpTo
<1>5. n \in T
  <2> HIDE DEF T
  <2>1. n \in 0 .. n
    BY <1>0
  <2>2. QED
    BY <1>4, <2>1
<1>6. upto(n) = B
  BY <1>0
<1>7. Cardinality(pairs(B)) = sum[n]
  BY <1>5, <1>6
<1> QED
  BY <1>7 DEF sum, n

LEMMA FiniteWindows ==
    ASSUME NEW vocabulary, NEW X, NEW s \in Seq(X)
    PROVE  IsFiniteSet(DOMAIN Windows(vocabulary, s))
<1> DEFINE tokens == [i \in DOMAIN s |-> Token(vocabulary, s[i])]
           Y == {Token(vocabulary, s[i]) : i \in DOMAIN s} \cup {END}
           all == Append(tokens, END)
<1>1. Len(s) \in Nat /\ DOMAIN s = 1 .. Len(s)
  BY LenProperties
<1>2. tokens \in Seq(Y)
  <2>1. tokens = [i \in 1 .. Len(s) |-> tokens[i]] /\ \A i \in 1 .. Len(s) : tokens[i] \in Y
    BY <1>1
  <2> HIDE DEF tokens, Y
  <2>2. QED
    BY <1>1, <2>1
<1>3. END \in Y
  OBVIOUS
<1> HIDE DEF tokens, Y
<1>4. all \in Seq(Y)
  BY <1>2, <1>3
<1>5. DOMAIN all = 1 .. Len(all) /\ Len(all) \in Nat
  BY <1>4, LenProperties
<1>6. DOMAIN Windows(vocabulary, s) = DOMAIN all
  BY DEF Windows, Encode, all, tokens
<1>7. IsFiniteSet(1 .. Len(all))
  BY <1>5, FS_Interval
<1> QED
  BY <1>5, <1>6, <1>7

(* The network sees each window of a training block as often as it occurs:  *)
(* counting alike sessions together loses nothing, as no block is trained   *)
(* on twice.                                                                *)
WindowsCount(train, sequences, sessions) ==
    LET vocabulary == Vocabulary(sessions)
        windows == [b \in ToSet(train) |-> Windows(vocabulary, sequences[b])]
        at(b, row) == {i \in DOMAIN windows[b] : windows[b][i] = row}
    IN  /\ vocabulary = UNION {ToSet(sequences[b]) : b \in ToSet(train)}
        /\ DOMAIN Fit(sessions) = UNION {ToSet(windows[b]) : b \in ToSet(train)}
        /\ \A row \in DOMAIN Fit(sessions) :
             Fit(sessions)[row] = Cardinality(UNION {{b} \X at(b, row) : b \in ToSet(train)})

LEMMA FitCounts ==
    ASSUME NEW S, NEW train \in Seq(S), IsInjective(train), NEW sequences,
           NEW X, \A b \in S : sequences[b] \in Seq(X)
    PROVE  WindowsCount(train, sequences, [k \in DOMAIN train |-> sequences[train[k]]])
<1> DEFINE sessions == [k \in DOMAIN train |-> sequences[train[k]]]
           vocabulary == Vocabulary(sessions)
           B == ToSet(train)
           windows == [b \in B |-> Windows(vocabulary, sequences[b])]
           at(b, row) == {i \in DOMAIN windows[b] : windows[b][i] = row}
           kinds == Distinct(sessions)
           n == Len(kinds)
           views == [k \in DOMAIN kinds |-> Windows(vocabulary, kinds[k])]
           times(k, row) == Occurrences(sessions, kinds[k]) * Occurrences(views[k], row)
<1>1. /\ Len(train) \in Nat /\ DOMAIN train = 1 .. Len(train)
      /\ \A k \in DOMAIN train : train[k] \in S
      /\ \A k, l \in DOMAIN train : train[k] = train[l] => k = l
      /\ B \subseteq S
      /\ \A b : b \in B <=> \E k \in DOMAIN train : train[k] = b
  <2>1. Len(train) \in Nat /\ DOMAIN train = 1 .. Len(train)
        /\ \A k \in DOMAIN train : train[k] \in S
    BY LenProperties, ElementOfSeq
  <2>2. QED
    BY <2>1 DEF ToSet, IsInjective
<1> HIDE DEF B
<1>2. /\ DOMAIN sessions = DOMAIN train
      /\ \A k \in DOMAIN train : sessions[k] = sequences[train[k]]
      /\ sessions \in Seq(Seq(X)) /\ Len(sessions) = Len(train)
  <2>1. \A k \in 1 .. Len(train) : sequences[train[k]] \in Seq(X)
    BY <1>1
  <2>2. sessions = [k \in 1 .. Len(train) |-> sequences[train[k]]]
    BY <1>1
  <2> DEFINE Y == Seq(X)
  <2> HIDE DEF sessions
  <2>3. \A k \in 1 .. Len(train) : sessions[k] \in Y
    BY <2>1, <2>2
  <2> HIDE DEF Y
  <2>4. sessions \in Seq(Y) /\ Len(sessions) = Len(train)
    BY <1>1, <2>2, <2>3
  <2>5. QED
    BY <1>1, <2>2, <2>4 DEF Y
<1> HIDE DEF sessions
<1>3. vocabulary = UNION {ToSet(sequences[b]) : b \in B}
  <2>1. vocabulary = UNION {ToSet(sessions[k]) : k \in DOMAIN train}
    BY <1>2 DEF Vocabulary
  <2>2. \A k \in DOMAIN train : train[k] \in B /\ sessions[k] = sequences[train[k]]
    BY <1>1, <1>2
  <2>3. \A b \in B : \E k \in DOMAIN train : sessions[k] = sequences[b]
    BY <1>1, <1>2
  <2> HIDE DEF vocabulary
  <2>4. QED
    BY <2>1, <2>2, <2>3
<1>4. /\ n \in Nat /\ DOMAIN kinds = 1 .. n
      /\ kinds \in Seq(Seq(X))
      /\ \A k \in 1 .. n : \E i \in DOMAIN train : kinds[k] = sessions[i]
      /\ \A i \in DOMAIN train : \E k \in 1 .. n : kinds[k] = sessions[i]
      /\ \A k, l \in 1 .. n : kinds[k] = kinds[l] => k = l
  <2> DEFINE Y == Seq(X)
  <2>1. sessions \in Seq(Y) /\ Len(sessions) = Len(train)
    BY <1>2
  <2> HIDE DEF Y
  <2>2. /\ Distinct(sessions) \in Seq(Y)
        /\ \A k \in 1 .. Len(Distinct(sessions)) :
             \E i \in 1 .. Len(sessions) : Distinct(sessions)[k] = sessions[i]
        /\ \A i \in 1 .. Len(sessions) :
             \E k \in 1 .. Len(Distinct(sessions)) : Distinct(sessions)[k] = sessions[i]
        /\ \A k, l \in 1 .. Len(Distinct(sessions)) :
             Distinct(sessions)[k] = Distinct(sessions)[l] => k = l
    BY <2>1, DifferentOnes
  <2> HIDE DEF kinds
  <2>3. n \in Nat /\ DOMAIN kinds = 1 .. n
    BY <2>2, LenProperties DEF kinds
  <2>4. QED
    BY <1>1, <2>1, <2>2, <2>3 DEF kinds, Y
<1>5. Fit(sessions) =
        [row \in UNION {ToSet(views[k]) : k \in DOMAIN kinds} |->
            Sums([k \in DOMAIN kinds |-> times(k, row)])[n]]
  BY DEF Fit
<1> HIDE DEF kinds, n, vocabulary
<1>6. /\ \A k \in 1 .. n : views[k] = Windows(vocabulary, kinds[k])
      /\ \A b \in B : windows[b] = Windows(vocabulary, sequences[b])
      /\ \A b \in B : \A k \in 1 .. n : sequences[b] = kinds[k] => windows[b] = views[k]
      /\ \A b \in B : \E k \in 1 .. n : sequences[b] = kinds[k]
      /\ \A k \in 1 .. n : \E b \in B : sequences[b] = kinds[k]
  <2>1. \A k \in 1 .. n : views[k] = Windows(vocabulary, kinds[k])
    BY <1>4
  <2>2. \A b \in B : windows[b] = Windows(vocabulary, sequences[b])
    OBVIOUS
  <2> HIDE DEF views, windows
  <2>3. \A b \in B : \E k \in 1 .. n : sequences[b] = kinds[k]
    <3> SUFFICES ASSUME NEW b \in B PROVE \E k \in 1 .. n : sequences[b] = kinds[k]
      OBVIOUS
    <3>1. PICK i \in DOMAIN train : train[i] = b
      BY <1>1
    <3>2. sequences[b] = sessions[i]
      BY <1>2, <3>1
    <3>3. QED
      BY <1>4, <3>2
  <2>4. \A k \in 1 .. n : \E b \in B : sequences[b] = kinds[k]
    <3> SUFFICES ASSUME NEW k \in 1 .. n PROVE \E b \in B : sequences[b] = kinds[k]
      OBVIOUS
    <3>1. PICK i \in DOMAIN train : kinds[k] = sessions[i]
      BY <1>4
    <3>2. train[i] \in B /\ sequences[train[i]] = sessions[i]
      BY <1>1, <1>2
    <3>3. QED
      BY <3>1, <3>2
  <2>5. QED
    BY <2>1, <2>2, <2>3, <2>4
<1> HIDE DEF views, windows
<1>7. UNION {ToSet(views[k]) : k \in DOMAIN kinds} = UNION {ToSet(windows[b]) : b \in B}
  <2>1. \A k \in 1 .. n : \E b \in B : windows[b] = views[k]
    BY <1>6
  <2>2. \A b \in B : \E k \in 1 .. n : windows[b] = views[k]
    BY <1>6
  <2>3. QED
    BY <1>4, <2>1, <2>2
<1>8. IsFiniteSet(B)
  <2> DEFINE f == [k \in 1 .. Len(train) |-> train[k]]
  <2>1. IsFiniteSet(1 .. Len(train))
    BY <1>1, FS_Interval
  <2>2. f = [k \in 1 .. Len(train) |-> f[k]] /\ B = {f[k] : k \in 1 .. Len(train)}
    BY <1>1
  <2> HIDE DEF f
  <2>3. IsFiniteSet({f[k] : k \in 1 .. Len(train)})
    BY <2>1, <2>2, FiniteValues
  <2>4. QED
    BY <2>2, <2>3
<1>9. \A k \in 1 .. n :
        /\ Occurrences(sessions, kinds[k]) = Cardinality({b \in B : sequences[b] = kinds[k]})
        /\ Occurrences(sessions, kinds[k]) \in Nat
  <2> SUFFICES ASSUME NEW k \in 1 .. n
               PROVE  /\ Occurrences(sessions, kinds[k])
                           = Cardinality({b \in B : sequences[b] = kinds[k]})
                      /\ Occurrences(sessions, kinds[k]) \in Nat
    OBVIOUS
  <2> DEFINE I == {i \in DOMAIN sessions : sessions[i] = kinds[k]}
             C == {b \in B : sequences[b] = kinds[k]}
             f == [i \in I |-> train[i]]
  <2>1. IsFiniteSet(I)
    <3>1. I \subseteq 1 .. Len(train) /\ IsFiniteSet(1 .. Len(train))
      BY <1>1, <1>2, FS_Interval
    <3>2. QED
      BY <3>1, FS_Subset
  <2>2. /\ f \in [I -> C]
        /\ \A a, b \in I : f[a] = f[b] => a = b
        /\ \A c \in C : \E a \in I : f[a] = c
    BY <1>1, <1>2
  <2>3. Occurrences(sessions, kinds[k]) = Cardinality(I)
    BY DEF Occurrences
  <2> HIDE DEF I, C, f
  <2>4. Cardinality(C) = Cardinality(I) /\ Cardinality(I) \in Nat
    BY <2>1, <2>2, SameSize, FS_CardinalityType
  <2>5. QED
    BY <2>3, <2>4 DEF C
<1>10. ASSUME NEW row
       PROVE  /\ \A k \in 1 .. n : /\ IsFiniteSet({i \in DOMAIN views[k] : views[k][i] = row})
                                   /\ Occurrences(views[k], row) \in Nat
  <2> SUFFICES ASSUME NEW k \in 1 .. n
               PROVE  /\ IsFiniteSet({i \in DOMAIN views[k] : views[k][i] = row})
                      /\ Occurrences(views[k], row) \in Nat
    OBVIOUS
  <2>1. kinds[k] \in Seq(X)
    <3> DEFINE Y == Seq(X)
    <3>1. kinds \in Seq(Y) /\ k \in 1 .. Len(kinds)
      BY <1>4 DEF n
    <3> HIDE DEF Y
    <3>2. kinds[k] \in Y
      BY <3>1, ElementOfSeq
    <3>3. QED
      BY <3>2 DEF Y
  <2>2. IsFiniteSet(DOMAIN views[k])
    BY <1>6, <2>1, FiniteWindows
  <2>3. IsFiniteSet({i \in DOMAIN views[k] : views[k][i] = row})
    BY <2>2, FS_Subset
  <2>4. QED
    BY <2>3, FS_CardinalityType DEF Occurrences
<1>11. ASSUME NEW row
       PROVE  Sums([k \in DOMAIN kinds |-> times(k, row)])[n]
                = Cardinality(UNION {{b} \X at(b, row) : b \in B})
  <2> DEFINE A == [k \in 1 .. n |-> {i \in DOMAIN views[k] : views[k][i] = row}]
             of == [b \in B |-> at(b, row)]
             number == [k \in DOMAIN kinds |-> times(k, row)]
  <2>1. number \in Seq(Nat) /\ Len(number) = n
        /\ \A k \in 1 .. n : number[k] = times(k, row)
    <3>1. \A k \in 1 .. n : times(k, row) \in Nat
      <4> SUFFICES ASSUME NEW k \in 1 .. n PROVE times(k, row) \in Nat
        OBVIOUS
      <4>1. Occurrences(sessions, kinds[k]) \in Nat /\ Occurrences(views[k], row) \in Nat
        BY <1>9, <1>10
      <4>2. QED
        BY <4>1
    <3> HIDE DEF times
    <3>2. number = [k \in 1 .. n |-> times(k, row)]
      BY <1>4
    <3> HIDE DEF number, A, of
    <3>3. \A k \in 1 .. n : number[k] = times(k, row)
      BY <3>2
    <3>4. number \in [1 .. n -> Nat]
      BY <3>1, <3>2
    <3>5. number \in Seq(Nat) /\ Len(number) = n
      BY <1>4, <3>4
    <3>6. QED
      BY <3>3, <3>5
  <2>2. \A k \in 1 .. n : A[k] = {i \in DOMAIN views[k] : views[k][i] = row}
    OBVIOUS
  <2>3. \A k \in 1 .. n : IsFiniteSet(A[k])
    BY <1>10
  <2>4. \A b \in B : \A k \in 1 .. n : sequences[b] = kinds[k] => of[b] = A[k]
    BY <1>6
  <2>5. \A k \in 1 .. n :
          number[k] = Cardinality({b \in B : sequences[b] = kinds[k]}) * Cardinality(A[k])
    <3> SUFFICES ASSUME NEW k \in 1 .. n
                 PROVE  times(k, row)
                          = Cardinality({b \in B : sequences[b] = kinds[k]}) * Cardinality(A[k])
      BY <2>1
    <3>1. Occurrences(views[k], row) = Cardinality(A[k])
      BY DEF Occurrences
    <3> HIDE DEF A
    <3>2. QED
      BY <1>9, <3>1
  <2>6. UNION {{b} \X at(b, row) : b \in B} = PairsOf(B, of)
    <3> HIDE DEF at
    <3>1. QED
      BY DEF PairsOf
  <2> HIDE DEF A, of, number
  <2>7. \A k, l \in 1 .. n : kinds[k] = kinds[l] => k = l
    BY <1>4
  <2>8. \A b \in B : \E k \in 1 .. n : sequences[b] = kinds[k]
    BY <1>6
  <2>9. n \in Nat
    BY <1>4
  <2>12. OfKinds(B, sequences, kinds, of, A, number)
    BY <2>1, <2>3, <2>4, <2>5, <2>7, <2>8 DEF OfKinds
  <2>10. Sums(number)[n] = Cardinality(PairsOf(B, of))
    BY <1>8, <2>1, <2>12, CountedByKind
  <2>11. QED
    BY <2>6, <2>10 DEF number
<1>12. QED
  <2> HIDE DEF times, at
  <2>1. DOMAIN Fit(sessions) = UNION {ToSet(windows[b]) : b \in B}
    BY <1>5, <1>7
  <2>2. \A row \in DOMAIN Fit(sessions) :
          Fit(sessions)[row] = Cardinality(UNION {{b} \X at(b, row) : b \in B})
    BY <1>5, <1>11
  <2>3. QED
    BY <1>3, <2>1, <2>2 DEF WindowsCount, sessions, vocabulary, B, windows, at

LEMMA TrainingFits == TrainInv => TrainedForServing
<1> SUFFICES ASSUME TrainInv, At("print")
             PROVE  TrainedForServing
  BY DEF TrainedForServing
<1> DEFINE t == training
           cut == t.split
           train == cut.train
           val == cut.val
           log == Pick(t.log, {i \in DOMAIN t.log : t.log[i].parsed})
           served == ServedSessions(log, Loaded(stateFile))
           sessions == TrainedOn(t.sequences, cut)
           windows == [b \in ToSet(train) |-> Windows(Vocabulary(sessions), served[b])]
           at(b, row) == {i \in DOMAIN windows[b] : windows[b][i] = row}
<1>1. /\ ParseInv(t) /\ t.read = Len(t.log) /\ stateFile = t.miner
      /\ CutInv(t.selected, cut)
      /\ netFile = Detector(t.sequences, cut)
      /\ t.meta = Parity(t.mined, t.miner)
  BY DEF TrainInv, Trains, At
<1>2. /\ train \in Seq(t.selected) /\ val \in Seq(t.selected) /\ IsInjective(train)
      /\ ToSet(train) \cap ToSet(val) = {}
      /\ ToSet(train) \subseteq t.selected /\ ToSet(val) \subseteq t.selected
  <2>1. /\ train \in Seq(t.selected) /\ val \in Seq(t.selected) /\ IsInjective(train)
        /\ ToSet(train) \cap ToSet(val) = {}
    BY <1>1 DEF CutInv
  <2> HIDE DEF train, val, t
  <2>2. \A s \in Seq(t.selected) : ToSet(s) \subseteq t.selected
    <3> SUFFICES ASSUME NEW s \in Seq(t.selected) PROVE ToSet(s) \subseteq t.selected
      OBVIOUS
    <3>1. DOMAIN s = 1 .. Len(s) /\ \A i \in 1 .. Len(s) : s[i] \in t.selected
      BY LenProperties, ElementOfSeq
    <3>2. QED
      BY <3>1 DEF ToSet
  <2>3. QED
    BY <2>1, <2>2
<1>3. /\ netFile.train = ToSet(train) /\ netFile.vocabulary = Vocabulary(sessions)
      /\ netFile.validation = [b \in ToSet(val) |-> t.sequences[b]]
      /\ netFile.weights = Fit(sessions)
  BY <1>1 DEF Detector
<1>4. Loaded(stateFile) = t.miner
  <2>1. t.miner \in Seq(STRING)
    BY <1>1, DifferentOnes DEF ParseInv
  <2>2. QED
    BY <1>1, <2>1, TrainingAssumption DEF Loaded
<1>5. \A b \in t.selected : served[b] = t.sequences[b]
  BY <1>1, <1>4, ServedAsTrained
<1>6. \E X : \A b \in t.selected : t.sequences[b] \in Seq(X)
  <2> DEFINE s(b) == Session(t.log, t.read, b, t.miner)
             values(b) == {s(b)[k] : k \in DOMAIN s(b)}
             X == UNION {values(b) : b \in t.selected}
  <2>1. t.sequences = [b \in t.selected |-> s(b)] /\ t.read \in Nat
    <3>1. t.log \in TrainingLogs /\ t.read \in 0 .. Len(t.log)
      BY <1>1 DEF ParseInv
    <3>2. Len(t.log) \in Nat
      BY <3>1, LogIsOfLines
    <3>3. QED
      BY <1>1, <3>1, <3>2 DEF ParseInv
  <2>2. \A b \in t.selected : s(b) \in Seq(X)
    <3> SUFFICES ASSUME NEW b \in t.selected PROVE s(b) \in Seq(X)
      OBVIOUS
    <3> DEFINE c == Cardinality(LinesRead(t.log, t.read, b))
    <3>1. c \in Nat
      BY <2>1, FiniteLinesRead
    <3>2. DOMAIN s(b) = 1 .. c /\ s(b) = [k \in 1 .. c |-> s(b)[k]]
      BY DEF Session
    <3>3. \A k \in 1 .. c : s(b)[k] \in X
      <4>1. \A k \in 1 .. c : s(b)[k] \in values(b)
        BY <3>2
      <4> HIDE DEF values
      <4>2. QED
        BY <4>1
    <3> HIDE DEF s, X, c
    <3>4. QED
      BY <3>1, <3>2, <3>3
  <2> HIDE DEF s, X
  <2>3. \A b \in t.selected : t.sequences[b] \in Seq(X)
    BY <2>1, <2>2
  <2>4. QED
    BY <2>3
<1> HIDE DEF t, train, val, log, served
<1>7. PICK X : \A b \in t.selected : t.sequences[b] \in Seq(X)
  BY <1>6
<1> DEFINE learnt == [k \in DOMAIN train |-> t.sequences[train[k]]]
           seen == [b \in ToSet(train) |-> Windows(Vocabulary(learnt), t.sequences[b])]
<1>8. sessions = learnt
  BY DEF TrainedOn, train
<1>9. windows = seen
  BY <1>2, <1>5, <1>8
<1>10. /\ Vocabulary(learnt) = UNION {ToSet(t.sequences[b]) : b \in ToSet(train)}
       /\ DOMAIN Fit(learnt) = UNION {ToSet(seen[b]) : b \in ToSet(train)}
       /\ \A row \in DOMAIN Fit(learnt) :
            Fit(learnt)[row]
              = Cardinality(UNION {{b} \X {i \in DOMAIN seen[b] : seen[b][i] = row} :
                                   b \in ToSet(train)})
  <2>1. WindowsCount(train, t.sequences, learnt)
    BY <1>2, <1>7, FitCounts
  <2> HIDE DEF learnt
  <2>2. QED
    BY <2>1 DEF WindowsCount
<1> HIDE DEF sessions, learnt, windows, seen
<1>11. UNION {ToSet(t.sequences[b]) : b \in ToSet(train)}
         = UNION {ToSet(served[b]) : b \in ToSet(train)}
  BY <1>2, <1>5
<1>12. netFile.train \cap DOMAIN netFile.validation = {}
  BY <1>2, <1>3
<1>13. \A b \in DOMAIN netFile.validation : netFile.validation[b] = served[b]
  BY <1>2, <1>3, <1>5
<1>14. t.meta.same = t.meta.checked /\ t.meta.unmatched = 0
  <2>1. t.mined \in Seq(STRING) /\ t.miner = Distinct(t.mined)
    BY <1>1 DEF ParseInv
  <2>2. QED
    BY <1>1, <2>1, ParityHolds
<1>15. /\ netFile.vocabulary = UNION {ToSet(served[b]) : b \in netFile.train}
       /\ DOMAIN netFile.weights = UNION {ToSet(windows[b]) : b \in netFile.train}
       /\ \A row \in DOMAIN netFile.weights :
            netFile.weights[row] = Cardinality(UNION {{b} \X at(b, row) : b \in netFile.train})
  BY <1>3, <1>8, <1>9, <1>10, <1>11
<1>16. windows = [b \in netFile.train |-> Windows(netFile.vocabulary, served[b])]
  BY <1>3 DEF windows
<1> DEFINE shown == [b \in netFile.train |-> Windows(netFile.vocabulary, served[b])]
<1>17. /\ netFile.vocabulary = UNION {ToSet(served[b]) : b \in netFile.train}
       /\ DOMAIN netFile.weights = UNION {ToSet(shown[b]) : b \in netFile.train}
       /\ \A row \in DOMAIN netFile.weights :
            netFile.weights[row]
              = Cardinality(UNION {{b} \X {i \in DOMAIN shown[b] : shown[b][i] = row} :
                                   b \in netFile.train})
  <2> HIDE DEF shown
  <2>1. windows = shown
    BY <1>16 DEF shown
  <2>2. DOMAIN netFile.weights = UNION {ToSet(shown[b]) : b \in netFile.train}
    BY <1>15, <2>1
  <2>3. ASSUME NEW row \in DOMAIN netFile.weights
        PROVE  netFile.weights[row]
                 = Cardinality(UNION {{b} \X {i \in DOMAIN shown[b] : shown[b][i] = row} :
                                      b \in netFile.train})
    <3> DEFINE told(b) == {i \in DOMAIN shown[b] : shown[b][i] = row}
    <3>1. \A b : told(b) = at(b, row)
      BY <2>1
    <3>2. netFile.weights[row] = Cardinality(UNION {{b} \X at(b, row) : b \in netFile.train})
      BY <1>15
    <3> HIDE DEF told, at
    <3>3. UNION {{b} \X told(b) : b \in netFile.train}
            = UNION {{b} \X at(b, row) : b \in netFile.train}
      BY <3>1
    <3>4. netFile.weights[row] = Cardinality(UNION {{b} \X told(b) : b \in netFile.train})
      BY <3>2, <3>3
    <3>5. QED
      BY <3>4 DEF told
  <2>4. QED
    BY <1>15, <2>2, <2>3
<1>18. QED
  BY <1>12, <1>13, <1>14, <1>17 DEF TrainedForServing, served, log, t

-----------------------------------------------------------------------------
(* All programs together.                                                   *)

ExpInv == EvalInv /\ GoldenInv /\ ReviewInv /\ TrainInv

(* Of the programs, one at most takes a step.                               *)
LEMMA StepOfOne ==
    ASSUME [ExpNext]_expVars
    PROVE  /\ EvalNext \/ UNCHANGED evalVars
           /\ GoldenNext \/ UNCHANGED golden
           /\ ReviewNext \/ UNCHANGED reviewVars
           /\ TrainNext \/ UNCHANGED trainVars
<1>1. CASE Start
  BY <1>1 DEF Start, EvalNext, GoldenNext, ReviewNext, TrainNext
<1>2. CASE Step
  BY <1>2 DEF Step, EvalNext, GoldenNext, ReviewNext, TrainNext
<1>3. CASE Stop
  BY <1>3 DEF Stop, EvalNext, GoldenNext, ReviewNext, TrainNext
<1>4. CASE UNCHANGED expVars
  BY <1>4 DEF expVars
<1> QED
  BY <1>1, <1>2, <1>3, <1>4 DEF ExpNext

LEMMA ExpInvariant == ExpSpec => []ExpInv
<1>1. ExpInit => ExpInv
  BY EvalInitInv, TrainInitInv DEF ExpInit, ExpInv, GoldenInit, GoldenInv, ReviewInit, ReviewInv
<1>2. ASSUME ExpInv, [ExpNext]_expVars
      PROVE  ExpInv'
  BY <1>2, StepOfOne, EvalKeeps, GoldenKeeps, ReviewKeeps, TrainKeeps DEF ExpInv, EvalInv
<1> QED
  BY <1>1, <1>2, PTL DEF ExpSpec

(* The evaluation's account closes, whatever the log, the sample and the    *)
(* calls that fail: when the results are written, each selected block is    *)
(* missing, a hit, a miss or normal, and each hit a case or an error, once. *)
THEOREM AccountsClose == ExpSpec => []BlocksAreAccountedFor
<1>1. ASSUME ExpInv PROVE BlocksAreAccountedFor
  <2>1. SUFFICES ASSUME evalAt = "diagnose", todo = {} PROVE BlocksAreAccountedFor
    BY DEF BlocksAreAccountedFor
  <2> DEFINE found == {b \in selected : \E i \in DOMAIN EvalLog :
                         EvalLog[i].parsed /\ b \in ToSet(EvalLog[i].blocks)}
             misses == Labelled(scored \ flagged, TRUE)
             normal == Labelled(scored, FALSE)
             missing == selected \ scored
  <2>2. /\ seed \in Seeds /\ selected = Sampled(seed) /\ scored = Scored /\ flagged \subseteq scored
        /\ IsFiniteSet(Hits) /\ Judgements(cases) /\ errors \in Seq(DOMAIN Labels)
        /\ Blocks(cases) \cup ToSet(errors) = Hits
        /\ Len(cases) + Len(errors) + Cardinality({}) = Cardinality(Hits)
    BY <1>1, <2>1 DEF ExpInv, EvalInv, SelectionInv, AccountInv
  <2>3. selected \subseteq DOMAIN Labels /\ IsFiniteSet(selected)
    BY <2>2, EvalAssumption
  <2>4. scored = found
    BY <2>2 DEF Scored, CollectLines
  <2>5. /\ IsFiniteSet(missing) /\ IsFiniteSet(misses) /\ IsFiniteSet(normal)
        /\ Cardinality(missing) \in Nat /\ Cardinality(Hits) \in Nat
        /\ Cardinality(misses) \in Nat /\ Cardinality(normal) \in Nat
    <3>1. /\ missing \subseteq selected /\ misses \subseteq selected /\ normal \subseteq selected
      BY <2>4 DEF Labelled
    <3>2. QED
      BY <2>2, <2>3, <3>1, FS_Subset, FS_CardinalityType
  <2>6. /\ selected = missing \cup (Hits \cup (misses \cup normal))
        /\ missing \cap (Hits \cup (misses \cup normal)) = {}
        /\ Hits \cap (misses \cup normal) = {} /\ misses \cap normal = {}
    <3>1. \A b \in selected : Labels[b] \in BOOLEAN
      BY <2>3, LabelsAssumption
    <3>2. scored \subseteq selected /\ flagged \subseteq scored
      BY <2>2 DEF Scored
    <3>3. QED
      BY <2>3, <3>1, <3>2 DEF Labelled, Hits
  <2>7. Cardinality(missing) + Cardinality(Hits) + Cardinality(misses) + Cardinality(normal)
          = Cardinality(selected)
    <3> HIDE DEF missing, misses, normal
    <3>1. /\ IsFiniteSet(misses \cup normal)
          /\ Cardinality(misses \cup normal) = Cardinality(misses) + Cardinality(normal)
      BY <2>5, <2>6, DisjointUnion
    <3>2. /\ IsFiniteSet(Hits \cup (misses \cup normal))
          /\ Cardinality(Hits \cup (misses \cup normal))
               = Cardinality(Hits) + Cardinality(misses \cup normal)
      BY <2>2, <2>6, <3>1, DisjointUnion
    <3>3. Cardinality(selected) = Cardinality(missing) + Cardinality(Hits \cup (misses \cup normal))
      BY <2>5, <2>6, <3>2, DisjointUnion
    <3>4. QED
      BY <2>5, <3>1, <3>2, <3>3
  <2>8. ToSet(BlocksOf(cases)) = Blocks(cases)
    BY DEF ToSet, BlocksOf, Blocks
  <2>9. Labelled(found \cap flagged, TRUE) = Hits
    <3>1. found \cap flagged = flagged
      BY <2>2, <2>4
    <3>2. QED
      BY <3>1 DEF Hits
  <2>10. /\ Summary.missing = Cardinality(missing) /\ Summary.tp = Cardinality(Hits)
         /\ Summary.fn = Cardinality(misses) /\ Summary.normal = Cardinality(normal)
    BY DEF Summary, Hits
  <2>11. Len(cases) + Len(errors) = Summary.tp
    <3>1. Len(cases) \in Nat /\ Len(errors) \in Nat
      BY <2>2 DEF Judgements
    <3>2. QED
      BY <2>2, <2>10, <3>1, FS_EmptySet
  <2>12. selected \ found = missing
    BY <2>4
  <2> HIDE DEF found, misses, normal, missing
  <2>13. Summary.missing + Summary.tp + Summary.fn + Summary.normal = Cardinality(selected)
    BY <2>7, <2>10
  <2>14. ToSet(BlocksOf(cases)) \cup ToSet(errors) = Labelled(found \cap flagged, TRUE)
    BY <2>2, <2>8, <2>9
  <2>15. Summary.missing = Cardinality(selected \ found)
    BY <2>10, <2>12
  <2>16. QED
    BY <2>11, <2>13, <2>14, <2>15 DEF BlocksAreAccountedFor, found
<1> QED
  BY <1>1, ExpInvariant, PTL

(* The judge is given up only after as many rate limits of one block as it  *)
(* has attempts, however the calls with and without reasoning_effort mix.   *)
THEOREM JudgeIsPatient == ExpSpec => []JudgeGivesUpLast
<1>1. ExpInv => JudgeGivesUpLast
  BY DEF ExpInv, EvalInv, AttemptInv, JudgeGivesUpLast
<1> QED
  BY <1>1, ExpInvariant, PTL

(* The rates of run_eval are of all golden cases, for every data set and    *)
(* every order of the two kinds in it.                                      *)
THEOREM GoldenRatesAreOfAll == ExpSpec => []GoldenCasesAreCounted
<1>1. ExpInv => GoldenCasesAreCounted
  BY GoldenCounts DEF ExpInv
<1> QED
  BY <1>1, ExpInvariant, PTL

(* A finished review can be graded, for every size, every stratification    *)
(* and every set of results files that evaluations have left.               *)
THEOREM ReviewCanBeGraded == ExpSpec => []ReviewIsAnswerable
<1>1. ASSUME ExpInv PROVE ReviewIsAnswerable
  <2>1. ReviewAt("print") =>
          /\ blindFile = review.sample
          /\ EnoughOfBoth(review.n, review.all, review.sample)
          /\ \A c \in review.sample : keyFile[CaseKey(c)] = c.pass
    BY <1>1 DEF ExpInv, ReviewInv, ReviewAt
  <2>2. QED
    BY <2>1 DEF ReviewIsAnswerable, EnoughOfBoth
<1> QED
  BY <1>1, ExpInvariant, PTL

(* A finished training fits the service: for every log, limit on blocks,    *)
(* split and shuffle, the network has seen each window of its training      *)
(* blocks as often as the service would, its threshold comes from other     *)
(* blocks, and the report is right that all ids agree.                      *)
THEOREM ModelFitsServing == ExpSpec => []TrainedForServing
<1>1. ExpInv => TrainedForServing
  BY TrainingFits DEF ExpInv
<1> QED
  BY <1>1, ExpInvariant, PTL
=============================================================================
