------------------------ MODULE SequenceScorerProofs ------------------------
(***************************************************************************)
(* For any number of threads, files and sessions: the lock around the two  *)
(* loads does what it is there for, and grouping, batching, calibrating    *)
(* and shortening are what they are meant to be.                           *)
(*                                                                         *)
(* Scores are traced through the batch: the windows of the k-th session    *)
(* are where the sums of the lengths before it put them, so each maximum   *)
(* is over one session's windows.  Groups are traced through the list of   *)
(* all mentions, in which the lines of a block keep their order.           *)
(***************************************************************************)
EXTENDS SequenceScorer, FiniteOrders

(* A miner comes with a detector.  Who is about to load the miner has the   *)
(* detector; who scores has both, or knows the model to be half loaded.     *)
LoadInv ==
    /\ miner => detector
    /\ \A t \in Threads :
         /\ place[t] = "miner" => detector /\ ~ miner
         /\ place[t] = "score" => miner \/ HalfLoaded

IInv == TypeOK /\ LoadInv /\ FailsOnlyAfterAFailedLoad

LEMMA InitIInv == Init => IInv
<1> SUFFICES ASSUME Init PROVE IInv
  OBVIOUS
<1> USE DEF Init
<1>1. TypeOK
  BY NobodyIsNoThread DEF TypeOK
<1>2. LoadInv /\ FailsOnlyAfterAFailedLoad
  BY DEF LoadInv, FailsOnlyAfterAFailedLoad
<1>3. QED
  BY <1>1, <1>2 DEF IInv

LEMMA NextIInv == IInv /\ [Next]_vars => IInv'
<1> SUFFICES ASSUME IInv, [Next]_vars PROVE IInv'
  OBVIOUS
<1> USE NobodyIsNoThread DEF IInv
<1>1. ASSUME NEW t \in Threads, NEW lines \in Files, Upload(t, lines)
      PROVE  IInv'
  <2> USE <1>1 DEF Upload, At, Reply, model, scorer
  <2>1. TypeOK'
    BY DEF TypeOK
  <2>2. LoadInv'
    BY DEF LoadInv, HalfLoaded, TypeOK
  <2>3. FailsOnlyAfterAFailedLoad'
    BY DEF FailsOnlyAfterAFailedLoad, HalfLoaded, TypeOK
  <2>4. QED
    BY <2>1, <2>2, <2>3
<1>2. ASSUME NEW t \in Threads, Acquire(t)
      PROVE  IInv'
  <2> USE <1>2 DEF Acquire, At, model
  <2>1. TypeOK'
    BY DEF TypeOK
  <2>2. LoadInv'
    BY DEF LoadInv, HalfLoaded, TypeOK
  <2>3. FailsOnlyAfterAFailedLoad'
    BY DEF FailsOnlyAfterAFailedLoad, HalfLoaded, TypeOK
  <2>4. QED
    BY <2>1, <2>2, <2>3
<1>3. ASSUME NEW t \in Threads, AlreadyLoaded(t)
      PROVE  IInv'
  <2> USE <1>3 DEF AlreadyLoaded, At, model
  <2>1. TypeOK'
    BY DEF TypeOK
  <2>2. \A u \in Threads : place[u] # "miner"
    BY DEF TypeOK
  <2>3. LoadInv'
    BY <2>2 DEF LoadInv, HalfLoaded, TypeOK
  <2>4. FailsOnlyAfterAFailedLoad'
    BY DEF FailsOnlyAfterAFailedLoad, HalfLoaded, TypeOK
  <2>5. QED
    BY <2>1, <2>3, <2>4
<1>4. ASSUME NEW t \in Threads, LoadDetector(t)
      PROVE  IInv'
  <2> USE <1>4 DEF LoadDetector, At, model
  <2>1. TypeOK'
    BY DEF TypeOK
  <2>2. ~ miner /\ \A u \in Threads : place[u] # "score"
    BY DEF LoadInv, HalfLoaded
  <2>3. LoadInv'
    BY <2>2 DEF LoadInv, HalfLoaded, TypeOK
  <2>4. FailsOnlyAfterAFailedLoad'
    BY DEF FailsOnlyAfterAFailedLoad, HalfLoaded, TypeOK
  <2>5. QED
    BY <2>1, <2>3, <2>4
<1>5. ASSUME NEW t \in Threads, LoadMiner(t)
      PROVE  IInv'
  <2> USE <1>5 DEF LoadMiner, At, model
  <2>1. TypeOK'
    BY DEF TypeOK
  <2>2. \A u \in Threads \ {t} : place[u] # "miner"
    BY DEF TypeOK
  <2>3. LoadInv'
    BY <2>2 DEF LoadInv, HalfLoaded, TypeOK
  <2>4. FailsOnlyAfterAFailedLoad'
    BY DEF FailsOnlyAfterAFailedLoad, HalfLoaded, TypeOK
  <2>5. QED
    BY <2>1, <2>3, <2>4
<1>6. ASSUME NEW t \in Threads, LoadRaises(t)
      PROVE  IInv'
  <2> USE <1>6 DEF LoadRaises, At, Reply, model
  <2>1. TypeOK'
    BY DEF TypeOK
  <2>2. LoadInv'
    BY DEF LoadInv, HalfLoaded, TypeOK
  <2>3. FailsOnlyAfterAFailedLoad'
    BY DEF FailsOnlyAfterAFailedLoad, HalfLoaded, TypeOK
  <2>4. QED
    BY <2>1, <2>2, <2>3
<1>7. ASSUME NEW t \in Threads, ScoreLogs(t) \/ Publish(t)
      PROVE  IInv'
  <2> USE <1>7 DEF ScoreLogs, Publish, At, Reply, model, scorer
  <2>1. TypeOK'
    BY DEF TypeOK
  <2>2. LoadInv'
    BY DEF LoadInv, HalfLoaded, TypeOK
  <2>3. FailsOnlyAfterAFailedLoad'
    BY DEF FailsOnlyAfterAFailedLoad, HalfLoaded, TypeOK
  <2>4. QED
    BY <2>1, <2>2, <2>3
<1>8. ASSUME NEW t \in Threads, ScoreRaises(t)
      PROVE  IInv'
  <2> USE <1>8 DEF ScoreRaises, At, Reply, model, scorer
  <2>1. TypeOK'
    BY DEF TypeOK
  <2>2. LoadInv'
    BY DEF LoadInv, HalfLoaded, TypeOK
  <2>3. HalfLoaded
    BY DEF LoadInv
  <2>4. FailsOnlyAfterAFailedLoad'
    BY <2>3 DEF FailsOnlyAfterAFailedLoad, HalfLoaded, TypeOK
  <2>5. QED
    BY <2>1, <2>2, <2>4
<1>9. CASE Restart
  <2> USE <1>9 DEF Restart, model
  <2>1. TypeOK'
    BY DEF TypeOK
  <2>2. LoadInv' /\ FailsOnlyAfterAFailedLoad'
    BY DEF LoadInv, FailsOnlyAfterAFailedLoad
  <2>3. QED
    BY <2>1, <2>2
<1>10. CASE UNCHANGED vars
  <2> USE <1>10 DEF vars, model, scorer, upload
  <2>1. TypeOK'
    BY DEF TypeOK
  <2>2. LoadInv' /\ FailsOnlyAfterAFailedLoad'
    BY DEF LoadInv, FailsOnlyAfterAFailedLoad, HalfLoaded
  <2>3. QED
    BY <2>1, <2>2
<1>11. QED
  BY <1>1, <1>2, <1>3, <1>4, <1>5, <1>6, <1>7, <1>8, <1>9, <1>10 DEF Next, Step

LEMMA Invariance == Spec => []IInv
<1>1. Init => IInv
  BY InitIInv
<1>2. IInv /\ [Next]_vars => IInv'
  BY NextIInv
<1>3. QED
  BY <1>1, <1>2, PTL DEF Spec

-----------------------------------------------------------------------------
(* Windows.                                                                 *)

Templates == Tokens(Vocabulary)
Rows == [context : [1 .. Window -> Templates], target : Templates]

LEMMA TokensFit ==
    ASSUME NEW session \in Seq(Int)
    PROVE  LET tokens == Encode(Vocabulary, session)
           IN  /\ Len(session) \in Nat
               /\ tokens \in Seq(Templates)
               /\ DOMAIN tokens = 1 .. Len(session) + 1
<1>1. /\ Len(session) \in Nat /\ DOMAIN session = 1 .. Len(session)
      /\ \A i \in DOMAIN session : session[i] \in Int
  BY LenProperties, ElementOfSeq
<1>2. Cardinality(Vocabulary) \in Nat
  BY DetectorAssumption, FS_CardinalityType
<1>3. {PAD, END, UNK} \subseteq Templates
  BY <1>2 DEF Templates, Tokens, PAD, END, UNK, OFFSET
<1>4. ASSUME NEW x \in Int PROVE Token(Vocabulary, x) \in Templates
  <2> DEFINE Less == {v \in Vocabulary : v < x}
  <2>1. CASE x \in Vocabulary
    <3>1. IsFiniteSet(Less) /\ Cardinality(Less) <= Cardinality(Vocabulary)
          /\ (Cardinality(Less) = Cardinality(Vocabulary) => Less = Vocabulary)
      <4>1. Less \in SUBSET Vocabulary
        OBVIOUS
      <4> HIDE DEF Less
      <4>2. QED
        BY <4>1, DetectorAssumption, FS_Subset
    <3>2. x \notin Less
      BY <1>4
    <3>3. Cardinality(Less) \in Nat
      BY <3>1, FS_CardinalityType
    <3>4. Token(Vocabulary, x) = OFFSET + Cardinality(Less)
      BY <2>1 DEF Token
    <3> HIDE DEF Less
    <3>5. Cardinality(Less) < Cardinality(Vocabulary)
      BY <1>2, <2>1, <3>1, <3>2, <3>3
    <3>6. QED
      BY <1>2, <3>3, <3>4, <3>5 DEF Templates, Tokens, OFFSET
  <2>2. CASE x \notin Vocabulary
    BY <1>3, <2>2 DEF Token
  <2>3. QED
    BY <2>1, <2>2
<1> DEFINE known == [i \in DOMAIN session |-> Token(Vocabulary, session[i])]
<1>5. known \in Seq(Templates) /\ Len(known) = Len(session)
  BY <1>1, <1>4
<1> HIDE DEF known
<1>6. Append(known, END) \in Seq(Templates) /\ Len(Append(known, END)) = Len(session) + 1
  BY <1>3, <1>5, AppendProperties
<1>7. QED
  BY <1>1, <1>6, LenProperties DEF Encode, known

LEMMA WindowsLookBack ==
    ASSUME NEW session \in Seq(Int)
    PROVE  LET tokens == Encode(Vocabulary, session)
           IN  /\ Windows(Vocabulary, session) \in Seq(Rows)
               /\ Len(Windows(Vocabulary, session)) = Len(session) + 1
               /\ \A i \in 1 .. Len(session) + 1 :
                    /\ Windows(Vocabulary, session)[i].context = LookBack(tokens, i)
                    /\ Windows(Vocabulary, session)[i].target = tokens[i]
<1> DEFINE tokens == Encode(Vocabulary, session)
           pads == [i \in 1 .. Window |-> PAD]
           padded == pads \o tokens
           n == Len(session) + 1
<1>1. n \in Nat \ {0} /\ tokens \in Seq(Templates) /\ Len(tokens) = n /\ DOMAIN tokens = 1 .. n
  BY TokensFit, LenProperties
<1>2. \A i \in 1 .. n : tokens[i] \in Templates
  BY <1>1, ElementOfSeq
<1>3. PAD \in Templates
  <2>1. Cardinality(Vocabulary) \in Nat
    BY DetectorAssumption, FS_CardinalityType
  <2>2. QED
    BY <2>1 DEF Templates, Tokens, PAD, OFFSET
<1>4. Window \in Nat \ {0} /\ pads \in Seq(Templates) /\ Len(pads) = Window
  BY <1>3, WindowAssumption
<1>5. Windows(Vocabulary, session)
        = [i \in 1 .. n |-> [context |-> SubSeq(padded, i, i + Window - 1), target |-> tokens[i]]]
  BY <1>1 DEF Windows
<1> HIDE DEF pads, tokens, n
<1>6. padded \in Seq(Templates) /\ Len(padded) = Window + n
      /\ \A i \in 1 .. Window + n :
           padded[i] = IF i <= Window THEN pads[i] ELSE tokens[i - Window]
  BY <1>1, <1>4, ConcatProperties
<1>7. \A i \in 1 .. Window : pads[i] = PAD
  BY DEF pads
<1> HIDE DEF padded
<1>8. ASSUME NEW i \in 1 .. n
      PROVE  /\ SubSeq(padded, i, i + Window - 1) = LookBack(tokens, i)
             /\ LookBack(tokens, i) \in [1 .. Window -> Templates]
  <2> DEFINE part == SubSeq(padded, i, i + Window - 1)
  <2> DEFINE j == i + Window - 1
  <2>1. i \in Int /\ j \in Int /\ i <= j /\ j - i + 1 = Window
    BY <1>1, <1>4
  <2>2. \A k \in i .. j : padded[k] \in Templates
    <3>1. \A k \in i .. j : k \in 1 .. Window + n
      BY <1>1, <1>4
    <3>2. QED
      BY <1>6, <3>1, ElementOfSeq
  <2>3. part = SubSeq(padded, i, j)
    OBVIOUS
  <2> HIDE DEF part, j
  <2>4. /\ part \in Seq(Templates) /\ Len(part) = Window
        /\ \A k \in 1 .. Window : part[k] = padded[i + k - 1]
    <3>1. /\ SubSeq(padded, i, j) \in Seq(Templates)
          /\ Len(SubSeq(padded, i, j)) = IF i <= j THEN j - i + 1 ELSE 0
          /\ \A k \in 1 .. j - i + 1 : SubSeq(padded, i, j)[k] = padded[i + k - 1]
      BY <2>1, <2>2, SubSeqProperties
    <3>2. QED
      BY <2>1, <2>3, <3>1
  <2>5. part \in [1 .. Window -> Templates]
    BY <2>4, LenProperties
  <2>6. ASSUME NEW k \in 1 .. Window
        PROVE  part[k] = IF i + k - 1 <= Window THEN PAD ELSE tokens[i + k - 1 - Window]
    <3>1. i + k - 1 \in 1 .. Window + n
      BY <1>1, <1>4
    <3>2. part[k] = IF i + k - 1 <= Window THEN pads[i + k - 1] ELSE tokens[i + k - 1 - Window]
      BY <1>6, <2>4, <3>1
    <3>3. i + k - 1 <= Window => i + k - 1 \in 1 .. Window
      BY <1>4, <3>1
    <3>4. QED
      BY <1>7, <3>2, <3>3
  <2>7. part = LookBack(tokens, i)
    BY <2>5, <2>6 DEF LookBack
  <2>8. QED
    BY <2>5, <2>7 DEF part
<1>9. \A i \in 1 .. n :
        /\ Windows(Vocabulary, session)[i].context = LookBack(tokens, i)
        /\ Windows(Vocabulary, session)[i].target = tokens[i]
        /\ Windows(Vocabulary, session)[i] \in Rows
  <2> SUFFICES ASSUME NEW i \in 1 .. n
               PROVE  /\ Windows(Vocabulary, session)[i].context = LookBack(tokens, i)
                      /\ Windows(Vocabulary, session)[i].target = tokens[i]
                      /\ Windows(Vocabulary, session)[i] \in Rows
    OBVIOUS
  <2>1. Windows(Vocabulary, session)[i]
          = [context |-> SubSeq(padded, i, i + Window - 1), target |-> tokens[i]]
    BY <1>5
  <2>2. Windows(Vocabulary, session)[i] = [context |-> LookBack(tokens, i), target |-> tokens[i]]
    BY <1>8, <2>1
  <2>3. LookBack(tokens, i) \in [1 .. Window -> Templates] /\ tokens[i] \in Templates
    BY <1>2, <1>8
  <2>4. QED
    BY <2>2, <2>3 DEF Rows
<1>10. Windows(Vocabulary, session) \in Seq(Rows) /\ Len(Windows(Vocabulary, session)) = n
  <2> DEFINE w == Windows(Vocabulary, session)
  <2>1. w = [i \in 1 .. n |-> w[i]] /\ \A i \in 1 .. n : w[i] \in Rows
    BY <1>5, <1>9
  <2> HIDE DEF w
  <2>2. w \in Seq(Rows) /\ Len(w) = n
    BY <1>1, <2>1
  <2>3. QED
    BY <2>2 DEF w
<1>11. QED
  BY <1>9, <1>10 DEF tokens, n

-----------------------------------------------------------------------------
(* Scores.                                                                  *)

LEMMA SurprisesAreNumbers ==
    ASSUME NEW session \in Seq(Int)
    PROVE  LET tokens == Encode(Vocabulary, session)
               S == {Surprise(LookBack(tokens, i), tokens[i]) : i \in DOMAIN tokens}
           IN  /\ \A i \in 1 .. Len(session) + 1 : Surprise(LookBack(tokens, i), tokens[i]) \in Nat
               /\ S = {Surprise(LookBack(tokens, i), tokens[i]) : i \in 1 .. Len(session) + 1}
               /\ SessionScore(session) = Max(S) /\ SessionScore(session) \in Nat
<1> DEFINE tokens == Encode(Vocabulary, session)
           n == Len(session) + 1
           f == [i \in 1 .. n |-> Surprise(LookBack(tokens, i), tokens[i])]
<1>1. n \in Nat \ {0} /\ DOMAIN tokens = 1 .. n
  BY TokensFit
<1>2. \A i \in 1 .. n : Surprise(LookBack(tokens, i), tokens[i]) \in Nat
  <2> DEFINE w == Windows(Vocabulary, session)
  <2>1. \A i \in 1 .. n : w[i].context = LookBack(tokens, i) /\ w[i].target = tokens[i]
    BY WindowsLookBack
  <2>2. w \in Seq(Rows) /\ Len(w) = n
    BY WindowsLookBack
  <2> HIDE DEF w, tokens, n, f
  <2>3. \A i \in 1 .. n : w[i] \in Rows
    BY <2>2, ElementOfSeq
  <2>4. \A i \in 1 .. n :
          LookBack(tokens, i) \in [1 .. Window -> Templates] /\ tokens[i] \in Templates
    <3>1. \A i \in 1 .. n :
            w[i].context \in [1 .. Window -> Templates] /\ w[i].target \in Templates
      BY <2>3 DEF Rows
    <3>2. QED
      BY <2>1, <3>1
  <2>5. QED
    BY <2>4, DetectorAssumption DEF Templates
<1> HIDE DEF tokens, n
<1>3. IsFiniteSet({f[i] : i \in 1 .. n}) /\ {f[i] : i \in 1 .. n} \subseteq Nat
      /\ {f[i] : i \in 1 .. n} # {}
  <2>1. IsFiniteSet(1 .. n) /\ 1 \in 1 .. n
    BY <1>1, FS_Interval
  <2>2. f = [i \in 1 .. n |-> f[i]] /\ \A i \in 1 .. n : f[i] \in Nat
    BY <1>2
  <2> HIDE DEF f
  <2>3. IsFiniteSet({f[i] : i \in 1 .. n})
    BY <2>1, <2>2, FiniteValues
  <2>4. QED
    BY <2>1, <2>2, <2>3
<1>4. {f[i] : i \in 1 .. n} = {Surprise(LookBack(tokens, i), tokens[i]) : i \in 1 .. n}
  OBVIOUS
<1> DEFINE S == {f[i] : i \in 1 .. n}
<1> HIDE DEF f
<1>5. SessionScore(session) = Max(S)
  BY <1>1, <1>4 DEF SessionScore, tokens
<1>6. Max(S) \in Nat
  <2>1. S \subseteq Int /\ IsFiniteSet(S) /\ S # {} /\ S \subseteq Nat
    <3>1. S \subseteq Nat
      BY <1>3
    <3>2. \A y \in S : y \in Int
      BY <3>1
    <3>3. QED
      BY <1>3, <3>1, <3>2
  <2> HIDE DEF S
  <2>2. QED
    BY <2>1, MaxIsGreatest
<1>7. QED
  BY <1>1, <1>2, <1>4, <1>5, <1>6 DEF tokens, n

(* Neither the batch nor the removal of duplicates shows in a score.        *)
LEMMA ScoresAreTheirs ==
    ASSUME NEW sessions \in Seq(Seq(Int))
    PROVE  /\ Scores(sessions) \in Seq(Nat)
           /\ Len(Scores(sessions)) = Len(sessions)
           /\ \A j \in 1 .. Len(sessions) : Scores(sessions)[j] = SessionScore(sessions[j])
<1> DEFINE unique == Distinct(sessions)
           n == Len(unique)
           windows == [k \in DOMAIN unique |-> Windows(Vocabulary, unique[k])]
           batch == FlattenSeq(windows)
           steps == [i \in DOMAIN batch |-> Surprise(batch[i].context, batch[i].target)]
           lens == [k \in DOMAIN unique |-> Len(windows[k])]
           worst == Maxima(steps, lens)
<1>1. Len(sessions) \in Nat /\ DOMAIN sessions = 1 .. Len(sessions)
      /\ \A j \in 1 .. Len(sessions) : sessions[j] \in Seq(Int)
  BY LenProperties, ElementOfSeq
<1>2. /\ unique \in Seq(Seq(Int))
      /\ \A j \in 1 .. Len(sessions) : \E k \in 1 .. n : unique[k] = sessions[j]
  BY DifferentOnes
<1>3. n \in Nat /\ DOMAIN unique = 1 .. n /\ \A k \in 1 .. n : unique[k] \in Seq(Int)
  <2> HIDE DEF unique
  <2>1. QED
    BY <1>2, LenProperties, ElementOfSeq
<1>4. Scores(sessions)
        = [j \in DOMAIN sessions |-> worst[CHOOSE k \in DOMAIN unique : unique[k] = sessions[j]]]
  BY DEF Scores
<1> HIDE DEF unique, n
<1>5. ASSUME NEW k \in 1 .. n
      PROVE  worst[k] = SessionScore(unique[k])
  <2>1. /\ windows \in Seq(Seq(Rows)) /\ windows # <<>> /\ Len(windows) = n
        /\ \A l \in 1 .. n : windows[l] = Windows(Vocabulary, unique[l])
    <3>1. \A l \in 1 .. n : Windows(Vocabulary, unique[l]) \in Seq(Rows)
      BY <1>3, WindowsLookBack
    <3>2. windows \in Seq(Seq(Rows)) /\ Len(windows) = n
      BY <1>3, <3>1
    <3>3. \A l \in 1 .. n : windows[l] = Windows(Vocabulary, unique[l])
      BY <1>3
    <3> HIDE DEF windows
    <3>4. windows # <<>>
      BY <1>3, <3>2, EmptySeq
    <3>5. QED
      BY <3>2, <3>3, <3>4
  <2>2. lens = Lengths(windows) /\ \A l \in 1 .. n : lens[l] = Len(windows[l])
    BY <1>3, <2>1 DEF Lengths
  <2> HIDE DEF windows, lens
  <2>3. /\ lens \in Seq(Nat) /\ batch \in Seq(Rows)
        /\ Len(batch) = Sums(lens)[Len(windows)]
        /\ \A l \in 1 .. Len(windows) : \A i \in 1 .. lens[l] :
             Sums(lens)[l - 1] + i \in 1 .. Len(batch)
        /\ \A l \in 1 .. Len(windows) : \A i \in 1 .. lens[l], p \in 1 .. Len(batch) :
             p = Sums(lens)[l - 1] + i => batch[p] = windows[l][i]
    <3>1. windows \in Seq(Seq(Rows)) /\ windows # <<>>
      BY <2>1
    <3>2. batch = FlattenSeq(windows)
      OBVIOUS
    <3> HIDE DEF steps, worst, batch
    <3>3. lens = Lengths(windows)
      BY <2>2
    <3>4. /\ lens \in Seq(Nat) /\ FlattenSeq(windows) \in Seq(Rows)
          /\ Len(FlattenSeq(windows)) = Sums(lens)[Len(windows)]
          /\ \A l \in 1 .. Len(windows) : \A i \in 1 .. lens[l] :
               Sums(lens)[l - 1] + i \in 1 .. Len(FlattenSeq(windows))
          /\ FlatAt(FlattenSeq(windows), windows, lens)
      BY <3>1, <3>3, Flattened
    <3>5. \A l \in 1 .. Len(windows) : \A i \in 1 .. lens[l], p \in 1 .. Len(FlattenSeq(windows)) :
            p = Sums(lens)[l - 1] + i => FlattenSeq(windows)[p] = windows[l][i]
      BY <3>4 DEF FlatAt
    <3>6. QED
      BY <3>2, <3>4, <3>5
  <2> HIDE DEF batch
  <2>4. Len(lens) = n /\ DOMAIN lens = 1 .. n /\ DOMAIN batch = 1 .. Len(batch)
    <3> HIDE DEF steps, worst
    <3>1. DOMAIN lens = 1 .. n
      BY <2>1, <2>2 DEF Lengths
    <3>2. lens \in Seq(Nat) /\ batch \in Seq(Rows)
      BY <2>3
    <3>3. DOMAIN lens = 1 .. Len(lens) /\ Len(lens) \in Nat /\ DOMAIN batch = 1 .. Len(batch)
      BY <3>2, LenProperties
    <3>4. QED
      BY <1>3, <3>1, <3>3
  <2> DEFINE m == Len(unique[k]) + 1
             before == Sums(lens)[k - 1]
             tokens == Encode(Vocabulary, unique[k])
  <2>5. /\ m \in Nat \ {0} /\ lens[k] = m
        /\ \A i \in 1 .. m :
             windows[k][i].context = LookBack(tokens, i) /\ windows[k][i].target = tokens[i]
    <3>1. unique[k] \in Seq(Int)
      BY <1>3
    <3>2. m \in Nat \ {0}
      BY <3>1, LenProperties
    <3>3. windows[k] = Windows(Vocabulary, unique[k]) /\ lens[k] = Len(windows[k])
      BY <2>1, <2>2
    <3> DEFINE w == Windows(Vocabulary, unique[k])
    <3>4. Len(w) = m
      BY <3>1, WindowsLookBack
    <3>5. \A i \in 1 .. m : w[i].context = LookBack(tokens, i) /\ w[i].target = tokens[i]
      BY <3>1, WindowsLookBack
    <3> HIDE DEF w, m, tokens
    <3>6. windows[k] = w
      BY <3>3 DEF w
    <3>7. QED
      BY <3>2, <3>3, <3>4, <3>5, <3>6
  <2>6. before \in Nat /\ Sums(lens)[k] = before + m
    <3>1. k - 1 \in 0 .. n /\ k \in 1 .. n
      BY <1>3
    <3>2. /\ Sums(lens) \in [0 .. Len(lens) -> Nat]
          /\ \A l \in 1 .. Len(lens) : Sums(lens)[l] = Sums(lens)[l - 1] + lens[l]
      BY <2>3, SumsGrow
    <3>3. QED
      BY <2>4, <2>5, <3>1, <3>2
  <2> HIDE DEF m, before, tokens
  <2>7. \A i \in 1 .. m :
          before + i \in DOMAIN batch /\ steps[before + i] = Surprise(LookBack(tokens, i), tokens[i])
    <3> SUFFICES ASSUME NEW i \in 1 .. m
                 PROVE  /\ before + i \in DOMAIN batch
                        /\ steps[before + i] = Surprise(LookBack(tokens, i), tokens[i])
      OBVIOUS
    <3>1. before + i \in 1 .. Len(batch) /\ batch[before + i] = windows[k][i]
      BY <2>1, <2>3, <2>5 DEF before
    <3>2. /\ batch[before + i].context = LookBack(tokens, i)
          /\ batch[before + i].target = tokens[i]
      BY <2>5, <3>1
    <3>3. QED
      BY <2>4, <3>1, <3>2
  <2> DEFINE S == {Surprise(LookBack(tokens, i), tokens[i]) : i \in 1 .. m}
  <2> HIDE DEF steps
  <2>8. {steps[i] : i \in before + 1 .. before + m} = S
    <3>1. ASSUME NEW i \in before + 1 .. before + m PROVE steps[i] \in S
      <4>1. i - before \in 1 .. m /\ before + (i - before) = i
        BY <2>5, <2>6
      <4>2. QED
        BY <2>7, <4>1
    <3>2. ASSUME NEW i \in 1 .. m
          PROVE  \E j \in before + 1 .. before + m :
                   steps[j] = Surprise(LookBack(tokens, i), tokens[i])
      <4>1. before + i \in before + 1 .. before + m
        BY <2>5, <2>6
      <4>2. QED
        BY <2>7, <4>1
    <3>3. QED
      BY <3>1, <3>2
  <2>9. worst[k] = Max({steps[i] : i \in before + 1 .. before + m})
    BY <2>4, <2>6 DEF Maxima, before
  <2>10. SessionScore(unique[k]) = Max(S)
    BY <1>3, SurprisesAreNumbers DEF tokens, m
  <2>11. QED
    BY <2>8, <2>9, <2>10
<1> HIDE DEF worst
<1>6. \A j \in 1 .. Len(sessions) :
        Scores(sessions)[j] = SessionScore(sessions[j]) /\ Scores(sessions)[j] \in Nat
  <2> SUFFICES ASSUME NEW j \in 1 .. Len(sessions)
               PROVE  /\ Scores(sessions)[j] = SessionScore(sessions[j])
                      /\ SessionScore(sessions[j]) \in Nat
    OBVIOUS
  <2> DEFINE k == CHOOSE k \in DOMAIN unique : unique[k] = sessions[j]
  <2>1. k \in 1 .. n /\ unique[k] = sessions[j]
    BY <1>2, <1>3
  <2>2. Scores(sessions)[j] = worst[k]
    BY <1>1, <1>4
  <2> HIDE DEF k
  <2>3. SessionScore(sessions[j]) \in Nat
    BY <1>1, SurprisesAreNumbers
  <2>4. QED
    BY <1>5, <2>1, <2>2, <2>3
<1>7. Scores(sessions) \in Seq(Nat) /\ Len(Scores(sessions)) = Len(sessions)
  <2> DEFINE scores == Scores(sessions)
  <2>1. scores = [j \in 1 .. Len(sessions) |-> scores[j]]
    BY <1>1, <1>4
  <2> HIDE DEF scores
  <2>2. QED
    BY <1>1, <1>6, <2>1 DEF scores
<1>8. QED
  BY <1>6, <1>7

-----------------------------------------------------------------------------
(* The threshold.                                                           *)

LEMMA ValidationScores ==
    ASSUME NEW sessions \in Validations
    PROVE  /\ Scores(sessions) \in Seq(Nat)
           /\ Len(Scores(sessions)) \in Nat \ {0}
           /\ Len(Scores(sessions)) = Len(sessions)
<1>1. sessions \in Seq(Seq(Int)) /\ sessions # <<>>
  BY FilesAssumption
<1>2. Len(sessions) \in Nat \ {0}
  BY <1>1, EmptySeq
<1>3. QED
  BY <1>1, <1>2, ScoresAreTheirs

LEMMA RankRate ==
    ASSUME NEW scores \in Seq(Nat), Len(scores) \in Nat \ {0}
    PROVE  Cardinality(Flagged(scores, RankThreshold(scores))) * RateDen <= RateNum * Len(scores)
<1> DEFINE n == Len(scores)
           most == Max(ToSet(scores))
           Beyond(g) == {k \in DOMAIN scores : scores[k] >= g}
           few(g) == Cardinality(Beyond(g)) * RateDen <= RateNum * Len(scores)
           Few == {h \in 1 .. most + 1 : few(h)}
           g == CHOOSE h \in 1 .. most + 1 : few(h) /\ \A i \in 1 .. h - 1 : ~ few(i)
<1>1. n \in Nat \ {0} /\ DOMAIN scores = 1 .. n /\ \A k \in 1 .. n : scores[k] \in Nat
  BY LenProperties, ElementOfSeq
<1>2. RateDen \in Nat \ {0} /\ RateNum \in Nat
  BY DetectorAssumption
<1>3. most \in Nat /\ \A k \in 1 .. n : scores[k] <= most
  <2> DEFINE S == {scores[k] : k \in 1 .. n}
  <2>1. 1 \in 1 .. n
    BY <1>1
  <2>2. IsFiniteSet(S)
    <3>1. IsFiniteSet(1 .. n)
      BY <1>1, FS_Interval
    <3>2. scores = [k \in 1 .. n |-> scores[k]]
      BY LenProperties
    <3>3. QED
      BY <3>1, <3>2, FiniteValues
  <2>3. S \subseteq Nat /\ S # {}
    BY <1>1, <2>1
  <2>4. \A y \in S : y \in Int
    BY <2>3
  <2>5. ToSet(scores) = S
    BY <1>1 DEF ToSet
  <2>6. \A k \in 1 .. n : scores[k] \in S
    OBVIOUS
  <2> HIDE DEF S
  <2>7. Max(S) \in S /\ \A y \in S : y <= Max(S)
    <3>1. S \subseteq Int /\ IsFiniteSet(S) /\ S # {}
      BY <2>2, <2>3, <2>4
    <3>2. QED
      BY <3>1, MaxIsGreatest
  <2>8. QED
    BY <2>3, <2>5, <2>6, <2>7
<1>4. RankThreshold(scores) = (g - 1) * RateDen
  BY DEF RankThreshold
<1> HIDE DEF most
<1>5. most + 1 \in Few
  <2>1. Beyond(most + 1) = {}
    BY <1>1, <1>3
  <2> HIDE DEF Beyond
  <2>2. Cardinality(Beyond(most + 1)) * RateDen = 0
    BY <1>2, <2>1, FS_EmptySet
  <2>3. 0 <= RateNum * n
    BY <1>1, <1>2
  <2>4. QED
    BY <1>3, <2>2, <2>3
<1>6. \E h \in 1 .. most + 1 : few(h) /\ \A i \in 1 .. h - 1 : ~ few(i)
  <2> HIDE DEF few
  <2>1. /\ Few \subseteq Nat /\ Few # {} /\ Few \subseteq 1 .. most + 1
        /\ \A i \in 1 .. most + 1 : i \in Few <=> few(i)
    BY <1>3, <1>5
  <2> HIDE DEF Few
  <2>2. PICK h \in Few : \A y \in Few : h <= y
    BY <2>1, MinIsLeast
  <2>3. h \in 1 .. most + 1
    BY <2>1
  <2>4. \A i \in 1 .. h - 1 : i \in 1 .. most + 1 /\ ~ (h <= i)
    BY <1>3, <2>3
  <2>5. QED
    BY <2>1, <2>2, <2>3, <2>4
<1>7. g \in 1 .. most + 1 /\ few(g)
  <2> HIDE DEF few
  <2>1. QED
    BY <1>6
<1> HIDE DEF g
<1>8. Flagged(scores, (g - 1) * RateDen) = Beyond(g)
  <2>1. ASSUME NEW k \in DOMAIN scores
        PROVE  scores[k] * RateDen > (g - 1) * RateDen <=> scores[k] >= g
    <3> DEFINE x == scores[k]
               y == g - 1
    <3>1. x \in Nat /\ y \in Nat /\ (x > y <=> x >= g)
      BY <1>1, <1>3, <1>7
    <3> HIDE DEF x, y
    <3>2. x * RateDen > y * RateDen <=> x > y
      BY <1>2, <3>1
    <3>3. QED
      BY <3>1, <3>2 DEF x, y
  <2>2. QED
    BY <2>1 DEF Flagged
<1>9. QED
  BY <1>4, <1>7, <1>8

LEMMA QuantileRate ==
    ASSUME NEW scores \in Seq(Nat), Len(scores) \in Nat \ {0}
    PROVE  Cardinality(Flagged(scores, QuantileThreshold(scores))) * RateDen
             < RateNum * (Len(scores) - 1) + RateDen
<1> DEFINE n == Len(scores)
           sorted == Sorted(scores)
           position == (n - 1) * (RateDen - RateNum)
           p == position \div RateDen
           r == position % RateDen
           below == sorted[p + 1]
           above == IF r = 0 THEN below ELSE sorted[p + 2]
           T == QuantileThreshold(scores)
           F == Flagged(scores, T)
           Over == {i \in DOMAIN scores : scores[i] > below}
<1>1. n \in Nat \ {0} /\ DOMAIN scores = 1 .. n /\ \A k \in 1 .. n : scores[k] \in Nat
  BY LenProperties, ElementOfSeq
<1>2. RateDen \in Nat \ {0} /\ RateNum \in Nat /\ RateNum <= RateDen
  BY DetectorAssumption
<1>3. T = below * RateDen + (above - below) * r
  BY DEF QuantileThreshold
<1>4. position \in Nat /\ position <= (n - 1) * RateDen
  BY <1>1, <1>2
<1> HIDE DEF T
<1>5. p \in Nat /\ r \in 0 .. RateDen - 1 /\ position = p * RateDen + r
  <2> HIDE DEF position
  <2> DEFINE d == RateDen
  <2>1. p = position \div d /\ r = position % d /\ position \in Nat /\ d \in Nat \ {0}
    BY <1>2, <1>4
  <2> HIDE DEF p, r, d
  <2>2. p \in Int /\ r \in 0 .. d - 1 /\ position = d * p + r
    BY <2>1
  <2>3. p >= 0
    BY <2>1
  <2>4. d * p = p * d
    BY <2>1, <2>2
  <2>5. QED
    BY <2>2, <2>3, <2>4 DEF d
<1> HIDE DEF p, r, sorted, n
<1>6. p * RateDen <= (n - 1) * RateDen /\ (r # 0 => p * RateDen < (n - 1) * RateDen)
  <2> HIDE DEF position
  <2> DEFINE a == p * RateDen
             b == (n - 1) * RateDen
  <2>1. a \in Int /\ b \in Int /\ a + r <= b /\ r \in Nat
    BY <1>1, <1>2, <1>4, <1>5
  <2> HIDE DEF a, b
  <2>2. a <= b /\ (r # 0 => a < b)
    BY <2>1
  <2>3. QED
    BY <2>2 DEF a, b
<1>7. p + 1 \in 1 .. n /\ (r # 0 => p + 2 \in 1 .. n)
  <2>1. \A x, y \in Int :
          /\ x * RateDen <= y * RateDen => x <= y
          /\ x * RateDen < y * RateDen => x < y
    BY <1>2
  <2>2. p <= n - 1 /\ (r # 0 => p < n - 1)
    BY <1>1, <1>5, <1>6, <2>1
  <2>3. QED
    BY <1>1, <1>5, <2>2
<1>8. /\ \A k \in 1 .. n :
           /\ sorted[k] \in Nat
           /\ Cardinality({i \in DOMAIN scores : scores[i] > sorted[k]}) <= n - k
      /\ \A k, l \in 1 .. n : k < l => sorted[k] <= sorted[l]
  BY SortedList DEF sorted, n
<1>9. below \in Nat /\ above \in Nat /\ below <= above /\ Cardinality(Over) <= n - (p + 1)
  <2>1. below \in Nat /\ Cardinality(Over) <= n - (p + 1)
    BY <1>7, <1>8
  <2>2. r # 0 => above \in Nat /\ below <= above
    <3>1. p + 1 < p + 2
      BY <1>5
    <3>2. QED
      BY <1>7, <1>8, <3>1
  <2>3. QED
    BY <2>1, <2>2
<1>10. F \in SUBSET Over /\ IsFiniteSet(Over)
  <2> HIDE DEF below, above
  <2>1. T \in Int /\ T >= below * RateDen
    <3> DEFINE c == above - below
               a == below * RateDen
    <3>1. c \in Nat /\ r \in Nat /\ a \in Nat
      BY <1>2, <1>5, <1>9
    <3>2. T = a + c * r
      BY <1>3
    <3> HIDE DEF a, c
    <3>3. c * r \in Nat
      BY <3>1
    <3>4. QED
      BY <3>1, <3>2, <3>3 DEF a
  <2>2. ASSUME NEW k \in DOMAIN scores, scores[k] * RateDen > T PROVE scores[k] > below
    <3> DEFINE x == scores[k]
    <3>1. x \in Nat
      BY <1>1
    <3> HIDE DEF x
    <3>2. x * RateDen > below * RateDen
      BY <1>2, <1>9, <2>1, <2>2, <3>1 DEF x
    <3>3. x > below
      BY <1>2, <1>9, <3>1, <3>2
    <3>4. QED
      BY <3>3 DEF x
  <2>3. IsFiniteSet(1 .. n) /\ Over \in SUBSET (1 .. n)
    BY <1>1, FS_Interval
  <2> HIDE DEF Over
  <2>4. IsFiniteSet(Over)
    BY <2>3, FS_Subset
  <2>5. QED
    BY <2>2, <2>4 DEF Flagged, Over
<1> HIDE DEF F, Over, below, above
<1>11. Cardinality(F) \in Nat /\ Cardinality(F) <= n - (p + 1)
  <2>1. Cardinality(F) <= Cardinality(Over) /\ IsFiniteSet(F) /\ IsFiniteSet(Over)
    BY <1>10, FS_Subset
  <2>2. Cardinality(F) \in Nat /\ Cardinality(Over) \in Nat
    BY <2>1, FS_CardinalityType
  <2>3. QED
    BY <1>1, <1>5, <1>9, <2>1, <2>2
<1>12. Cardinality(F) * RateDen < RateNum * (n - 1) + RateDen
  <2> DEFINE c == Cardinality(F)
             m == n - 1
             M == m * RateDen
             P == p * RateDen
             N == RateNum * m
  <2>1. c \in Nat /\ m \in Nat /\ c <= m - p
    BY <1>1, <1>5, <1>11
  <2>2. position = M - N
    <3>1. position = m * (RateDen - RateNum)
      OBVIOUS
    <3> HIDE DEF m, position
    <3>2. m * (RateDen - RateNum) = m * RateDen - RateNum * m
      BY <1>2, <2>1
    <3>3. QED
      BY <3>1, <3>2
  <2> HIDE DEF c, m, position
  <2>3. c * RateDen <= M - P
    <3>1. c * RateDen <= (m - p) * RateDen
      BY <1>2, <1>5, <2>1
    <3>2. (m - p) * RateDen = m * RateDen - p * RateDen
      BY <1>2, <1>5, <2>1
    <3>3. QED
      BY <3>1, <3>2
  <2>4. M \in Int /\ P \in Int /\ N \in Int /\ c * RateDen \in Int
    BY <1>2, <1>5, <2>1
  <2>5. P > M - N - RateDen
    <3>1. M - N = P + r
      BY <1>5, <2>2
    <3> HIDE DEF M, N, P
    <3>2. QED
      BY <1>2, <1>5, <2>4, <3>1
  <2> HIDE DEF M, N, P
  <2>6. c * RateDen < N + RateDen
    BY <1>2, <2>3, <2>4, <2>5
  <2>7. QED
    BY <2>6 DEF N, c, m
<1>13. QED
  BY <1>12 DEF F, T, n

-----------------------------------------------------------------------------
(* Which lines mention which block.                                         *)

Lines == [blocks : Seq(STRING), template : Int]

-----------------------------------------------------------------------------
(* Verdicts.                                                                *)

(* The reference definition lists the lines that FiniteOrders knows of.      *)
LEMMA LinesAreNumbered ==
    ASSUME NEW lines \in Seq(Lines), NEW b
    PROVE  LinesOf(lines, b) = LineNumbers(lines, b)
<1> DEFINE M == Mentioning(lines, b)
<1>1. \A r \in Lines : r.blocks \in Seq(STRING)
  BY DEF Lines
<1>2. /\ M \subseteq DOMAIN lines
      /\ M = {i \in DOMAIN lines : b \in ToSet(lines[i].blocks)}
  BY DEF Mentioning
<1>3. LinesOf(lines, b) = [k \in 1 .. Cardinality(M) |-> [i \in DOMAIN lines |-> i][Nth(M, k)]]
  BY <1>2 DEF LinesOf, Pick
<1>4. \A k \in 1 .. Cardinality(M) : Nth(M, k) \in M
  <2>1. IsFiniteSet(M) /\ M \subseteq Int
    <3>1. M \subseteq 1 .. Len(lines) /\ IsFiniteSet(M)
      BY <1>1, LinesInARow
    <3>2. QED
      BY <3>1, LenProperties
  <2> HIDE DEF M
  <2>2. QED
    BY <2>1, Row
<1> HIDE DEF M
<1>5. QED
  BY <1>2, <1>3, <1>4 DEF LineNumbers, M

LEMMA LinesOfInARow ==
    ASSUME NEW lines \in Seq(Lines), NEW b
    PROVE  LET M == Mentioning(lines, b)
               row == LinesOf(lines, b)
           IN  /\ M \subseteq 1 .. Len(lines) /\ IsFiniteSet(M)
               /\ row = [k \in 1 .. Cardinality(M) |-> Nth(M, k)]
               /\ row \in Seq(1 .. Len(lines)) /\ Len(row) = Cardinality(M) /\ Len(row) \in Nat
               /\ \A k \in 1 .. Len(row) : row[k] \in M
               /\ \A k, l \in 1 .. Len(row) : k < l => row[k] < row[l]
               /\ M # {} => Len(row) # 0
<1>1. \A r \in Lines : r.blocks \in Seq(STRING)
  BY DEF Lines
<1>2. LinesOf(lines, b) = LineNumbers(lines, b)
  BY LinesAreNumbered
<1> QED
  BY <1>1, <1>2, LinesInARow

LEMMA BlocksAreTheirLines ==
    ASSUME NEW lines \in Seq(Lines)
    PROVE  LET blocks == BlockOrder(lines)
           IN  /\ blocks \in Seq(STRING)
               /\ \A k, l \in 1 .. Len(blocks) : blocks[k] = blocks[l] => k = l
               /\ \A k \in 1 .. Len(blocks) : Mentioning(lines, blocks[k]) # {}
               /\ \A i \in 1 .. Len(lines) : \A b \in ToSet(lines[i].blocks) :
                    \E k \in 1 .. Len(blocks) : blocks[k] = b
               /\ \A k \in 1 .. Len(blocks) :
                    GroupByBlock(lines)[blocks[k]] = LinesOf(lines, blocks[k])
<1>1. \A r \in Lines : r.blocks \in Seq(STRING)
  BY DEF Lines
<1> DEFINE blocks == BlockOrder(lines)
<1>2. \A b : LinesOf(lines, b) = LineNumbers(lines, b)
  BY LinesAreNumbered
<1>3. /\ blocks \in Seq(STRING)
      /\ \A k, l \in 1 .. Len(blocks) : blocks[k] = blocks[l] => k = l
      /\ \A k \in 1 .. Len(blocks) : Mentioning(lines, blocks[k]) # {}
      /\ \A i \in 1 .. Len(lines) : \A b \in ToSet(lines[i].blocks) :
           \E k \in 1 .. Len(blocks) : blocks[k] = b
      /\ \A k \in 1 .. Len(blocks) :
           GroupByBlock(lines)[blocks[k]] = LineNumbers(lines, blocks[k])
  BY <1>1, GroupsAreTheirLines
<1> HIDE DEF blocks
<1>4. \A k \in 1 .. Len(blocks) : GroupByBlock(lines)[blocks[k]] = LinesOf(lines, blocks[k])
  BY <1>2, <1>3
<1> QED
  BY <1>3, <1>4 DEF blocks

(* What a verdict says, of which block, from which lines.                   *)
LEMMA ResultsAreTheirBlocks ==
    ASSUME NEW lines \in Seq(Lines)
    PROVE  LET rs == BlockResults(lines)
               blocks == BlockOrder(lines)
           IN  /\ DOMAIN rs = 1 .. Len(blocks)
               /\ \A k \in 1 .. Len(blocks) :
                    /\ rs[k].block_id = blocks[k]
                    /\ rs[k].line_indices = LinesOf(lines, blocks[k])
                    /\ rs[k].score =
                         SessionScore([i \in DOMAIN LinesOf(lines, blocks[k]) |->
                                         lines[LinesOf(lines, blocks[k])[i]].template])
<1> DEFINE blocks == BlockOrder(lines)
           groups == GroupByBlock(lines)
           of(k) == LinesOf(lines, blocks[k])
           session(k) == [i \in DOMAIN of(k) |-> lines[of(k)[i]].template]
           sessions == [k \in DOMAIN blocks |->
                           [i \in DOMAIN groups[blocks[k]] |->
                               lines[groups[blocks[k]][i]].template]]
           scores == Scores(sessions)
           rs == BlockResults(lines)
<1>1. blocks \in Seq(STRING) /\ \A k \in 1 .. Len(blocks) : groups[blocks[k]] = of(k)
  BY BlocksAreTheirLines
<1>2. DOMAIN blocks = 1 .. Len(blocks) /\ Len(blocks) \in Nat
  BY <1>1, LenProperties
<1>3. /\ DOMAIN rs = DOMAIN blocks
      /\ \A k \in DOMAIN blocks :
           /\ rs[k].block_id = blocks[k]
           /\ rs[k].score = scores[k]
           /\ rs[k].line_indices = groups[blocks[k]]
  BY DEF BlockResults
<1> HIDE DEF blocks, groups, rs, scores
<1>4. \A k \in 1 .. Len(blocks) : sessions[k] = session(k)
  BY <1>1, <1>2
<1>5. \A k \in 1 .. Len(blocks) : session(k) \in Seq(Int)
  <2> SUFFICES ASSUME NEW k \in 1 .. Len(blocks) PROVE session(k) \in Seq(Int)
    OBVIOUS
  <2> DEFINE row == of(k)
  <2>1. row \in Seq(1 .. Len(lines))
    BY LinesOfInARow
  <2> HIDE DEF row
  <2>2. /\ Len(row) \in Nat /\ DOMAIN row = 1 .. Len(row)
        /\ \A i \in 1 .. Len(row) : row[i] \in 1 .. Len(lines)
    BY <2>1, LenProperties, ElementOfSeq
  <2>3. \A i \in 1 .. Len(lines) : lines[i].template \in Int
    <3>1. \A i \in 1 .. Len(lines) : lines[i] \in Lines
      BY ElementOfSeq
    <3>2. QED
      BY <3>1 DEF Lines
  <2>4. [i \in DOMAIN row |-> lines[row[i]].template] \in Seq(Int)
    BY <2>2, <2>3
  <2>5. QED
    BY <2>4 DEF row
<1> HIDE DEF session
<1>6. sessions \in Seq(Seq(Int)) /\ Len(sessions) = Len(blocks)
  <2> DEFINE plain == [k \in 1 .. Len(blocks) |-> session(k)]
  <2>1. sessions = plain
    BY <1>1, <1>2, <1>4
  <2>2. plain \in Seq(Seq(Int)) /\ Len(plain) = Len(blocks)
    BY <1>2, <1>5
  <2> HIDE DEF sessions, plain
  <2>3. QED
    BY <2>1, <2>2
<1> HIDE DEF sessions
<1>7. \A k \in 1 .. Len(blocks) : scores[k] = SessionScore(sessions[k])
  BY <1>6, ScoresAreTheirs DEF scores
<1>8. \A k \in 1 .. Len(blocks) : rs[k].score = SessionScore(session(k))
  BY <1>2, <1>3, <1>4, <1>7
<1>9. QED
  BY <1>1, <1>2, <1>3, <1>8 DEF session, rs, blocks

-----------------------------------------------------------------------------
(* Entries.                                                                 *)

Parts == [kind : {"line", "omitted"}, number : Int]

LEMMA LinesAreShown ==
    ASSUME NEW indices \in Seq(Int)
    PROVE  /\ Shown(indices) \in Seq(Parts)
           /\ Len(Shown(indices)) = Len(indices)
           /\ \A i \in 1 .. Len(indices) : Shown(indices)[i] = Line(indices[i])
<1>1. Len(indices) \in Nat /\ DOMAIN indices = 1 .. Len(indices)
  BY LenProperties
<1>2. \A i \in 1 .. Len(indices) : Line(indices[i]) \in Parts
  <2>1. \A i \in 1 .. Len(indices) : indices[i] \in Int
    BY ElementOfSeq
  <2>2. \A x \in Int : Line(x) \in Parts
    BY DEF Line, Parts
  <2>3. QED
    BY <2>1, <2>2
<1>3. Shown(indices) = [i \in 1 .. Len(indices) |-> Line(indices[i])]
  BY <1>1 DEF Shown
<1>4. QED
  BY <1>1, <1>2, <1>3

(* Where the lines of a shortened context come from.                        *)
LEMMA LongContext ==
    ASSUME NEW indices \in Seq(Int), Len(indices) > MAX_CONTEXT_LINES
    PROVE  LET half == MAX_CONTEXT_LINES \div 2
               n == Len(indices)
               c == Context(indices)
           IN  /\ half \in Nat \ {0} /\ n \in Nat /\ 2 * half <= MAX_CONTEXT_LINES
               /\ DOMAIN c = 1 .. 2 * half + 1 /\ Len(c) = 2 * half + 1
               /\ \A i \in 1 .. half : c[i] = Line(indices[i])
               /\ c[half + 1] = Omitted(n - 2 * half)
               /\ \A i \in half + 2 .. 2 * half + 1 : c[i] = Line(indices[n - 2 * half - 1 + i])
<1> DEFINE half == MAX_CONTEXT_LINES \div 2
           n == Len(indices)
           first == SubSeq(indices, 1, half)
           last == SubSeq(indices, n - half + 1, n)
           c == Context(indices)
<1>1. n \in Nat /\ \A i \in 1 .. n : indices[i] \in Int
  BY LenProperties, ElementOfSeq
<1>2. half \in Nat \ {0} /\ 2 * half <= MAX_CONTEXT_LINES /\ 2 * half < n
  BY <1>1, ContextAssumption
<1>3. c = Shown(first) \o <<Omitted(n - 2 * half)>> \o Shown(last)
  BY <1>1, ContextAssumption DEF Context
<1> HIDE DEF half, n, c
<1>4. /\ first \in Seq(Int) /\ Len(first) = half
      /\ \A i \in 1 .. half : first[i] = indices[i]
  <2>1. \A i \in 1 .. half : indices[i] \in Int
    BY <1>1, <1>2
  <2>2. /\ first \in Seq(Int) /\ Len(first) = IF 1 <= half THEN half - 1 + 1 ELSE 0
        /\ \A i \in 1 .. half - 1 + 1 : first[i] = indices[1 + i - 1]
    BY <1>2, <2>1, SubSeqProperties
  <2>3. \A i \in 1 .. half : 1 + i - 1 = i
    BY <1>2
  <2>4. half - 1 + 1 = half
    BY <1>2
  <2> HIDE DEF first
  <2>5. QED
    BY <1>2, <2>2, <2>3, <2>4
<1>5. /\ last \in Seq(Int) /\ Len(last) = half
      /\ \A i \in 1 .. half : last[i] = indices[n - half + i]
  <2> DEFINE m == n - half + 1
  <2>1. m \in Int /\ n \in Int /\ m <= n /\ n - m + 1 = half
    BY <1>1, <1>2
  <2>2. \A i \in m .. n : indices[i] \in Int
    BY <1>1, <1>2
  <2>3. \A i \in 1 .. half : m + i - 1 = n - half + i
    BY <1>1, <1>2
  <2>4. last = SubSeq(indices, m, n)
    OBVIOUS
  <2> HIDE DEF m, last
  <2>5. /\ SubSeq(indices, m, n) \in Seq(Int)
        /\ Len(SubSeq(indices, m, n)) = IF m <= n THEN n - m + 1 ELSE 0
        /\ \A i \in 1 .. n - m + 1 : SubSeq(indices, m, n)[i] = indices[m + i - 1]
    BY <2>1, <2>2, SubSeqProperties
  <2>6. QED
    BY <2>1, <2>3, <2>4, <2>5
<1> HIDE DEF first, last
<1> DEFINE a == Shown(first)
           o == <<Omitted(n - 2 * half)>>
           d == Shown(last)
<1>6. /\ a \in Seq(Parts) /\ Len(a) = half
      /\ \A i \in 1 .. half : a[i] = Line(first[i])
  BY <1>4, LinesAreShown
<1>7. /\ d \in Seq(Parts) /\ Len(d) = half
      /\ \A i \in 1 .. half : d[i] = Line(last[i])
  BY <1>5, LinesAreShown
<1>8. o \in Seq(Parts) /\ Len(o) = 1 /\ o[1] = Omitted(n - 2 * half)
  <2>1. \A x \in Int : Omitted(x) \in Parts
    BY DEF Omitted, Parts
  <2>2. n - 2 * half \in Int
    BY <1>1, <1>2
  <2>3. QED
    BY <2>1, <2>2
<1>9. c = (a \o o) \o d
  BY <1>3
<1> HIDE DEF a, o, d
<1>10. /\ a \o o \in Seq(Parts) /\ Len(a \o o) = half + 1
       /\ \A i \in 1 .. half : (a \o o)[i] = a[i]
       /\ (a \o o)[half + 1] = o[1]
  <2>1. /\ a \o o \in Seq(Parts) /\ Len(a \o o) = Len(a) + Len(o)
        /\ \A i \in 1 .. Len(a) + Len(o) :
             (a \o o)[i] = IF i <= Len(a) THEN a[i] ELSE o[i - Len(a)]
    BY <1>6, <1>8, ConcatProperties
  <2>2. \A i \in 1 .. half : i \in 1 .. half + 1 /\ i <= half
    BY <1>2
  <2>3. half + 1 \in 1 .. half + 1 /\ ~ (half + 1 <= half) /\ half + 1 - half = 1
    BY <1>2
  <2>4. QED
    BY <1>6, <1>8, <2>1, <2>2, <2>3
<1>11. /\ c \in Seq(Parts) /\ Len(c) = 2 * half + 1
       /\ \A i \in 1 .. 2 * half + 1 :
            c[i] = IF i <= half + 1 THEN (a \o o)[i] ELSE d[i - (half + 1)]
  <2> DEFINE ao == a \o o
  <2>1. ao \in Seq(Parts) /\ Len(ao) = half + 1
    BY <1>10
  <2> HIDE DEF ao
  <2>2. /\ ao \o d \in Seq(Parts) /\ Len(ao \o d) = Len(ao) + Len(d)
        /\ \A i \in 1 .. Len(ao) + Len(d) :
             (ao \o d)[i] = IF i <= Len(ao) THEN ao[i] ELSE d[i - Len(ao)]
    BY <1>7, <2>1, ConcatProperties
  <2>3. half + 1 + half = 2 * half + 1
    BY <1>2
  <2>4. QED
    BY <1>7, <1>9, <2>1, <2>2, <2>3 DEF ao
<1>12. \A i \in 1 .. half : c[i] = Line(indices[i])
  <2>1. \A i \in 1 .. half : i \in 1 .. 2 * half + 1 /\ i <= half + 1
    BY <1>2
  <2>2. QED
    BY <1>4, <1>6, <1>10, <1>11, <2>1
<1>13. c[half + 1] = Omitted(n - 2 * half)
  <2>1. half + 1 \in 1 .. 2 * half + 1 /\ half + 1 <= half + 1
    BY <1>2
  <2>2. QED
    BY <1>8, <1>10, <1>11, <2>1
<1>14. ASSUME NEW i \in half + 2 .. 2 * half + 1
       PROVE  c[i] = Line(indices[n - 2 * half - 1 + i])
  <2> DEFINE j == i - (half + 1)
  <2>1. i \in 1 .. 2 * half + 1 /\ ~ (i <= half + 1) /\ j \in 1 .. half
        /\ n - half + j = n - 2 * half - 1 + i
    BY <1>1, <1>2
  <2>2. c[i] = d[j]
    BY <1>11, <2>1
  <2> HIDE DEF j
  <2>3. d[j] = Line(indices[n - half + j])
    BY <1>5, <1>7, <2>1
  <2>4. QED
    BY <2>1, <2>2, <2>3
<1>15. DOMAIN c = 1 .. 2 * half + 1
  BY <1>11, LenProperties
<1>16. QED
  BY <1>1, <1>2, <1>11, <1>12, <1>13, <1>14, <1>15 DEF half, n, c

(* All lines of a block are accounted for, and both ends shown.             *)
LEMMA ContextAccounts ==
    ASSUME NEW indices \in Seq(Int), Len(indices) # 0,
           \A k, l \in 1 .. Len(indices) : k < l => indices[k] < indices[l]
    PROVE  LET c == Context(indices)
               shown == {i \in DOMAIN c : c[i].kind = "line"}
               notes == DOMAIN c \ shown
           IN  /\ c[1] = Line(indices[1])
               /\ Last(c) = Line(Last(indices))
               /\ \A i, j \in shown : i < j => c[i].number < c[j].number
               /\ Cardinality(shown) <= MAX_CONTEXT_LINES
               /\ IF notes = {}
                    THEN Cardinality(shown) = Len(indices)
                    ELSE \E note \in notes :
                           /\ notes = {note}
                           /\ Cardinality(shown) + c[note].number = Len(indices)
<1> DEFINE n == Len(indices)
           c == Context(indices)
           shown == {i \in DOMAIN c : c[i].kind = "line"}
           notes == DOMAIN c \ shown
<1>1. n \in Nat /\ n >= 1 /\ \A i \in 1 .. n : indices[i] \in Int
  BY LenProperties, ElementOfSeq
<1>2. \A x : Line(x).kind = "line" /\ Line(x).number = x
  BY DEF Line
<1>3. \A x : Omitted(x).kind # "line" /\ Omitted(x).number = x
  BY DEF Omitted
<1>4. CASE n <= MAX_CONTEXT_LINES
  <2>1. c = Shown(indices)
    BY <1>4 DEF Context
  <2> HIDE DEF c
  <2>2. /\ Len(c) = n /\ DOMAIN c = 1 .. n
        /\ \A i \in 1 .. n : c[i] = Line(indices[i])
    <3>1. /\ Shown(indices) \in Seq(Parts) /\ Len(Shown(indices)) = n
          /\ \A i \in 1 .. n : Shown(indices)[i] = Line(indices[i])
      BY LinesAreShown
    <3>2. QED
      BY <2>1, <3>1, LenProperties
  <2>3. shown = 1 .. n /\ notes = {}
    BY <1>2, <2>2
  <2>4. Cardinality(1 .. n) = n
    BY <1>1, FS_Interval
  <2>5. c[1] = Line(indices[1]) /\ Last(c) = Line(Last(indices))
    BY <1>1, <2>2 DEF Last
  <2>6. \A i, j \in 1 .. n : i < j => c[i].number < c[j].number
    BY <1>2, <2>2
  <2>7. QED
    BY <1>4, <2>3, <2>4, <2>5, <2>6 DEF c
<1>5. CASE n > MAX_CONTEXT_LINES
  <2> DEFINE half == MAX_CONTEXT_LINES \div 2
  <2>1. /\ half \in Nat \ {0} /\ 2 * half <= MAX_CONTEXT_LINES
        /\ DOMAIN c = 1 .. 2 * half + 1 /\ Len(c) = 2 * half + 1
        /\ \A i \in 1 .. half : c[i] = Line(indices[i])
        /\ c[half + 1] = Omitted(n - 2 * half)
        /\ \A i \in half + 2 .. 2 * half + 1 : c[i] = Line(indices[n - 2 * half - 1 + i])
    BY <1>5, LongContext
  <2>2. 2 * half < n
    BY <1>1, <1>5, <2>1, ContextAssumption
  <2> DEFINE at(i) == IF i <= half THEN i ELSE n - 2 * half - 1 + i
             all == 1 .. 2 * half + 1
             mark == half + 1
  <2> HIDE DEF n, c, half
  <2>3. \A i \in all \ {mark} : at(i) \in 1 .. n
    BY <1>1, <2>1, <2>2
  <2>4. \A i, j \in all \ {mark} : i < j => at(i) < at(j)
    BY <1>1, <2>1, <2>2
  <2>5. \A i \in all \ {mark} : c[i] = Line(indices[at(i)])
    <3> SUFFICES ASSUME NEW i \in all \ {mark} PROVE c[i] = Line(indices[at(i)])
      OBVIOUS
    <3>1. CASE i <= half
      BY <2>1, <3>1
    <3>2. CASE ~ (i <= half)
      <4>1. i \in half + 2 .. 2 * half + 1
        BY <2>1, <3>2
      <4>2. QED
        BY <2>1, <3>2, <4>1
    <3>3. QED
      BY <3>1, <3>2
  <2>6. 1 \in all \ {mark} /\ at(1) = 1
        /\ 2 * half + 1 \in all \ {mark} /\ at(2 * half + 1) = n
    BY <1>1, <2>1, <2>2
  <2>7. c[1] = Line(indices[1]) /\ Last(c) = Line(Last(indices))
    BY <2>1, <2>5, <2>6 DEF Last, n
  <2>8. mark \in all /\ DOMAIN c = all /\ c[mark] = Omitted(n - 2 * half)
    BY <2>1
  <2> HIDE DEF at, all, mark
  <2>9. shown = all \ {mark} /\ notes = {mark}
    BY <1>2, <1>3, <2>5, <2>8
  <2>10. \A i, j \in all \ {mark} : i < j => c[i].number < c[j].number
    <3> SUFFICES ASSUME NEW i \in all \ {mark}, NEW j \in all \ {mark}, i < j
                 PROVE  c[i].number < c[j].number
      OBVIOUS
    <3>1. at(i) \in 1 .. n /\ at(j) \in 1 .. n /\ at(i) < at(j)
      BY <2>3, <2>4
    <3>2. indices[at(i)] < indices[at(j)]
      BY <3>1 DEF n
    <3>3. QED
      BY <1>2, <2>5, <3>2
  <2>11. Cardinality(all \ {mark}) = 2 * half
    <3>1. IsFiniteSet(all) /\ Cardinality(all) = 2 * half + 1
      BY <2>1, FS_Interval DEF all
    <3>2. Cardinality(all \ {mark}) = Cardinality(all) - 1
      BY <2>8, <3>1, FS_RemoveElement
    <3>3. QED
      BY <2>1, <3>1, <3>2
  <2>12. Cardinality(all \ {mark}) + c[mark].number = n
    BY <1>1, <1>3, <2>1, <2>8, <2>11
  <2>13. Cardinality(all \ {mark}) <= MAX_CONTEXT_LINES
    BY <2>1, <2>11
  <2> HIDE DEF shown, notes
  <2>14. \E note \in notes : notes = {note} /\ Cardinality(shown) + c[note].number = n
    BY <2>9, <2>12
  <2>15. notes # {}
    BY <2>9
  <2>16. /\ \A i, j \in shown : i < j => c[i].number < c[j].number
         /\ Cardinality(shown) <= MAX_CONTEXT_LINES
    BY <2>9, <2>10, <2>13
  <2>17. QED
    BY <2>7, <2>14, <2>15, <2>16 DEF shown, notes, c, n
<1>6. QED
  BY <1>1, <1>4, <1>5, ContextAssumption

-----------------------------------------------------------------------------
(* The invariants.                                                          *)

(* The threshold is the one that was calibrated on the validation sessions. *)
CalibrationInv ==
    /\ validation \in Validations
    /\ mode \in {"rank", "surprisal"}
    /\ threshold = Calibrate(mode, validation)

LEMMA CalibrationInvariance == Spec => []CalibrationInv
<1>1. Init => CalibrationInv
  BY DEF Init, CalibrationInv
<1>2. CalibrationInv /\ [Next]_vars => CalibrationInv'
  <2> SUFFICES ASSUME CalibrationInv, [Next]_vars PROVE CalibrationInv'
    OBVIOUS
  <2>1. UNCHANGED model
    BY DEF Next, Step, Acquire, AlreadyLoaded, LoadDetector, LoadMiner, LoadRaises, ScoreLogs,
           ScoreRaises, Publish, Upload, Restart, vars
  <2>2. QED
    BY <2>1 DEF CalibrationInv, model
<1>3. QED
  BY <1>1, <1>2, PTL DEF Spec

LEMMA RankRateByInv == CalibrationInv => RankFlagsAtMostTarget
<1> SUFFICES ASSUME CalibrationInv, mode = "rank" PROVE FlagsAtMostTarget
  BY DEF RankFlagsAtMostTarget
<1> DEFINE scores == Scores(validation)
<1>1. scores \in Seq(Nat) /\ Len(scores) \in Nat \ {0} /\ Len(scores) = Len(validation)
  BY ValidationScores DEF CalibrationInv
<1>2. threshold = RankThreshold(scores)
  BY DEF CalibrationInv, Calibrate
<1> HIDE DEF scores
<1>3. Cardinality(Flagged(scores, RankThreshold(scores))) * RateDen <= RateNum * Len(scores)
  BY <1>1, RankRate
<1>4. QED
  BY <1>1, <1>2, <1>3 DEF FlagsAtMostTarget, scores

(* What is left of the promise for a quantile, which is interpolated        *)
(* between two scores: of n sessions, fewer than (n - 1) target_fpr + 1 are *)
(* flagged.                                                                 *)
QuantileFlagsFewMore ==
    mode = "surprisal" =>
        Cardinality(Flagged(Scores(validation), threshold)) * RateDen
          < RateNum * (Len(validation) - 1) + RateDen

LEMMA QuantileRateByInv == CalibrationInv => QuantileFlagsFewMore
<1> SUFFICES ASSUME CalibrationInv, mode = "surprisal" PROVE QuantileFlagsFewMore
  BY DEF QuantileFlagsFewMore
<1> DEFINE scores == Scores(validation)
<1>1. scores \in Seq(Nat) /\ Len(scores) \in Nat \ {0} /\ Len(scores) = Len(validation)
  BY ValidationScores DEF CalibrationInv
<1>2. threshold = QuantileThreshold(scores)
  BY DEF CalibrationInv, Calibrate
<1> HIDE DEF scores
<1>3. Cardinality(Flagged(scores, QuantileThreshold(scores))) * RateDen
        < RateNum * (Len(scores) - 1) + RateDen
  BY <1>1, QuantileRate
<1>4. QED
  BY <1>1, <1>2, <1>3 DEF QuantileFlagsFewMore, scores

LEMMA FilesAreLines ==
    ASSUME TypeOK, NEW t \in Threads
    PROVE  file[t] \in Seq(Lines)
<1>1. file[t] \in Files \cup {<<>>}
  BY DEF TypeOK
<1>2. \A lines \in Files : lines \in Seq(Lines)
  BY FilesAssumption DEF Lines
<1>3. <<>> \in Seq(Lines)
  BY EmptySeq
<1>4. QED
  BY <1>1, <1>2, <1>3

LEMMA VerdictsByType == TypeOK => VerdictsAreTheirBlocks
<1> SUFFICES ASSUME TypeOK, NEW t \in Threads
             PROVE  \A rs \in {BlockResults(file[t])} :
                      /\ {rs[k].block_id : k \in DOMAIN rs}
                           = UNION {ToSet(file[t][i].blocks) : i \in DOMAIN file[t]}
                      /\ IsInjective([k \in DOMAIN rs |-> rs[k].block_id])
                      /\ \A k \in DOMAIN rs :
                           /\ rs[k].line_indices = LinesOf(file[t], rs[k].block_id)
                           /\ rs[k].score =
                                SessionScore([i \in DOMAIN rs[k].line_indices |->
                                                file[t][rs[k].line_indices[i]].template])
  BY DEF VerdictsAreTheirBlocks
<1> DEFINE lines == file[t]
           rs == BlockResults(lines)
           blocks == BlockOrder(lines)
<1>1. lines \in Seq(Lines)
  BY FilesAreLines
<1> HIDE DEF lines
<1>2. /\ blocks \in Seq(STRING)
      /\ \A k, l \in 1 .. Len(blocks) : blocks[k] = blocks[l] => k = l
      /\ \A k \in 1 .. Len(blocks) : Mentioning(lines, blocks[k]) # {}
      /\ \A i \in 1 .. Len(lines) : \A b \in ToSet(lines[i].blocks) :
           \E k \in 1 .. Len(blocks) : blocks[k] = b
  BY <1>1, BlocksAreTheirLines
<1>3. /\ DOMAIN rs = 1 .. Len(blocks)
      /\ \A k \in 1 .. Len(blocks) :
           /\ rs[k].block_id = blocks[k]
           /\ rs[k].line_indices = LinesOf(lines, blocks[k])
           /\ rs[k].score =
                SessionScore([i \in DOMAIN LinesOf(lines, blocks[k]) |->
                                lines[LinesOf(lines, blocks[k])[i]].template])
  BY <1>1, ResultsAreTheirBlocks
<1> HIDE DEF rs, blocks
<1>4. {rs[k].block_id : k \in DOMAIN rs} = UNION {ToSet(lines[i].blocks) : i \in DOMAIN lines}
  <2>1. DOMAIN lines = 1 .. Len(lines)
    BY <1>1, LenProperties
  <2>2. ASSUME NEW k \in DOMAIN rs
        PROVE  \E i \in DOMAIN lines : rs[k].block_id \in ToSet(lines[i].blocks)
    <3>1. rs[k].block_id = blocks[k] /\ Mentioning(lines, blocks[k]) # {}
      BY <1>2, <1>3
    <3>2. QED
      BY <3>1 DEF Mentioning
  <2>3. ASSUME NEW i \in DOMAIN lines, NEW b \in ToSet(lines[i].blocks)
        PROVE  \E k \in DOMAIN rs : rs[k].block_id = b
    <3>1. \A c \in ToSet(lines[i].blocks) : \E k \in 1 .. Len(blocks) : blocks[k] = c
      BY <1>2, <2>1
    <3>2. PICK k \in 1 .. Len(blocks) : blocks[k] = b
      BY <3>1
    <3>3. QED
      BY <1>3, <3>2
  <2>4. QED
    BY <2>2, <2>3
<1>5. IsInjective([k \in DOMAIN rs |-> rs[k].block_id])
  <2> DEFINE ids == [k \in DOMAIN rs |-> rs[k].block_id]
  <2>1. DOMAIN ids = 1 .. Len(blocks) /\ \A k \in 1 .. Len(blocks) : ids[k] = blocks[k]
    BY <1>3
  <2> HIDE DEF ids
  <2>2. IsInjective(ids)
    BY <1>2, <2>1 DEF IsInjective
  <2>3. QED
    BY <2>2 DEF ids
<1>6. ASSUME NEW k \in DOMAIN rs
      PROVE  /\ rs[k].line_indices = LinesOf(lines, rs[k].block_id)
             /\ rs[k].score =
                  SessionScore([i \in DOMAIN rs[k].line_indices |->
                                  lines[rs[k].line_indices[i]].template])
  <2>1. rs[k].block_id = blocks[k] /\ rs[k].line_indices = LinesOf(lines, blocks[k])
    BY <1>3
  <2>2. rs[k].score =
          SessionScore([i \in DOMAIN LinesOf(lines, blocks[k]) |->
                          lines[LinesOf(lines, blocks[k])[i]].template])
    BY <1>3
  <2>3. QED
    BY <2>1, <2>2
<1>7. QED
  BY <1>4, <1>5, <1>6 DEF lines, rs

LEMMA EntriesByType == TypeOK => EntriesAccountForTheirLines
<1> SUFFICES ASSUME TypeOK, NEW t \in Threads, NEW e \in Entries(file[t])
             PROVE  LET indices == LinesOf(file[t], e.block_id)
                        shown == {i \in DOMAIN e.context : e.context[i].kind = "line"}
                        notes == DOMAIN e.context \ shown
                    IN  /\ e.context[1] = Line(indices[1])
                        /\ Last(e.context) = Line(Last(indices))
                        /\ \A i, j \in shown :
                             i < j => e.context[i].number < e.context[j].number
                        /\ Cardinality(shown) <= MAX_CONTEXT_LINES
                        /\ IF notes = {}
                             THEN Cardinality(shown) = e.n_events
                             ELSE \E note \in notes :
                                    /\ notes = {note}
                                    /\ Cardinality(shown) + e.context[note].number = e.n_events
  BY DEF EntriesAccountForTheirLines
<1> DEFINE lines == file[t]
           rs == BlockResults(lines)
           blocks == BlockOrder(lines)
<1>1. lines \in Seq(Lines)
  BY FilesAreLines
<1>2. PICK r \in ToSet(rs) : e = BlockEntry(r)
  BY DEF Entries
<1> HIDE DEF lines
<1>3. DOMAIN rs = 1 .. Len(blocks)
      /\ \A k \in 1 .. Len(blocks) :
           rs[k].block_id = blocks[k] /\ rs[k].line_indices = LinesOf(lines, blocks[k])
  BY <1>1, ResultsAreTheirBlocks
<1>4. \A k \in 1 .. Len(blocks) : Mentioning(lines, blocks[k]) # {}
  BY <1>1, BlocksAreTheirLines
<1> HIDE DEF rs, blocks
<1>5. PICK k \in 1 .. Len(blocks) : r = rs[k]
  BY <1>3 DEF ToSet
<1> DEFINE indices == LinesOf(lines, blocks[k])
<1>6. /\ e.block_id = blocks[k]
      /\ e.context = Context(indices)
      /\ e.n_events = Len(indices)
  BY <1>2, <1>3, <1>5 DEF BlockEntry
<1>7. /\ indices \in Seq(Int) /\ Len(indices) # 0
      /\ \A i, j \in 1 .. Len(indices) : i < j => indices[i] < indices[j]
  <2>1. /\ indices \in Seq(1 .. Len(lines)) /\ Len(indices) # 0
        /\ \A i, j \in 1 .. Len(indices) : i < j => indices[i] < indices[j]
    BY <1>1, <1>4, LinesOfInARow
  <2> HIDE DEF indices
  <2>2. indices \in Seq(Int)
    <3>1. \A i \in 1 .. Len(indices) : indices[i] \in 1 .. Len(lines)
      BY <2>1, ElementOfSeq
    <3>2. \A i \in 1 .. Len(indices) : indices[i] \in Int
      BY <3>1
    <3>3. Len(indices) \in Nat /\ indices \in [1 .. Len(indices) -> 1 .. Len(lines)]
      BY <2>1, LenProperties
    <3>4. indices \in [1 .. Len(indices) -> Int]
      BY <3>2, <3>3
    <3>5. QED
      BY <3>3, <3>4
  <2>3. QED
    BY <2>1, <2>2
<1> HIDE DEF indices
<1> DEFINE c == Context(indices)
           shown == {i \in DOMAIN c : c[i].kind = "line"}
           notes == DOMAIN c \ shown
<1>8. /\ c[1] = Line(indices[1])
      /\ Last(c) = Line(Last(indices))
      /\ \A i, j \in shown : i < j => c[i].number < c[j].number
      /\ Cardinality(shown) <= MAX_CONTEXT_LINES
      /\ IF notes = {}
           THEN Cardinality(shown) = Len(indices)
           ELSE \E note \in notes :
                  /\ notes = {note}
                  /\ Cardinality(shown) + c[note].number = Len(indices)
  BY <1>7, ContextAccounts
<1>9. indices = LinesOf(file[t], e.block_id)
  BY <1>6 DEF indices, lines
<1>10. QED
  BY <1>6, <1>8, <1>9

-----------------------------------------------------------------------------
(* Every variable keeps its type, and the lock belongs to the one thread    *)
(* that is loading.                                                         *)
THEOREM TypeCorrect == Spec => []TypeOK
<1>1. IInv => TypeOK
  BY DEF IInv
<1>2. QED
  BY <1>1, Invariance, PTL

(* An upload fails because its own load failed or an earlier one left half  *)
(* a model, never because it met another one in the middle of a load.       *)
THEOREM FailuresHaveACause == Spec => []FailsOnlyAfterAFailedLoad
<1>1. IInv => FailsOnlyAfterAFailedLoad
  BY DEF IInv
<1>2. QED
  BY <1>1, Invariance, PTL

(* score and score_logs: what one pass over all lines, one batch over all   *)
(* sessions and the removal of duplicates make of a block is what its own   *)
(* lines, in their order, make of it.                                       *)
THEOREM VerdictsAreByBlock == Spec => []VerdictsAreTheirBlocks
<1>1. TypeOK => VerdictsAreTheirBlocks
  BY VerdictsByType
<1>2. QED
  BY <1>1, TypeCorrect, PTL

(* build_block_entry: however long a block is, its entry shows both ends,   *)
(* keeps the order and accounts for every line.                             *)
THEOREM EntriesAreComplete == Spec => []EntriesAccountForTheirLines
<1>1. TypeOK => EntriesAccountForTheirLines
  BY EntriesByType
<1>2. QED
  BY <1>1, TypeCorrect, PTL

(* calibrate: in mode "rank", no more of the validation sessions are        *)
(* flagged than target_fpr asks for, for every network.                     *)
THEOREM RankRateIsKept == Spec => []RankFlagsAtMostTarget
<1>1. CalibrationInv => RankFlagsAtMostTarget
  BY RankRateByInv
<1>2. QED
  BY <1>1, CalibrationInvariance, PTL

(* calibrate: by a quantile, which may break the promise of its docstring,  *)
(* the number flagged exceeds the target by less than one session.          *)
THEOREM QuantileRateIsNear == Spec => []QuantileFlagsFewMore
<1>1. CalibrationInv => QuantileFlagsFewMore
  BY QuantileRateByInv
<1>2. QED
  BY <1>1, CalibrationInvariance, PTL
=============================================================================
