---------------------------- MODULE FiniteOrders ----------------------------
(***************************************************************************)
(* What the proofs need to know of finite sets of numbers and of lists:    *)
(* least elements, the first so many, induction, and what Lists and        *)
(* SequenceParsing compute.                                                *)
(*                                                                         *)
(* The induction theorems of the library have an operator as a parameter,  *)
(* which no prover can give a value; here they are facts about sets, whose *)
(* minimal counterexample the well-foundedness of strict inclusion gives.  *)
(***************************************************************************)
EXTENDS SequenceParsing, FiniteSetTheorems, SequenceTheorems, TLAPS

(* Least elements.                                                          *)

Minimal(X, T) == X \in T /\ \A Y \in T : Y \subseteq X => Y = X

LEMMA MinimalSubset ==
    ASSUME NEW S, IsFiniteSet(S), NEW T \in SUBSET (SUBSET S), T # {}
    PROVE  \E X : Minimal(X, T)
<1>1. T \subseteq FiniteSubsetsOf(S)
  BY FS_Subset DEF FiniteSubsetsOf
<1>2. \E X \in T : \A Y \in T : ~ (<<Y, X>> \in StrictSubsetOrdering(S))
  BY <1>1, FS_StrictSubsetOrderingWellFounded, WFMin
<1>3. QED
  BY <1>2 DEF StrictSubsetOrdering, Minimal

LEMMA MinIsLeast ==
    ASSUME NEW T, T \subseteq Nat, T # {}
    PROVE  /\ Min(T) \in T
           /\ \A y \in T : Min(T) <= y
<1>1. PICK n \in T : TRUE
  OBVIOUS
<1> DEFINE below == {0 .. m : m \in {k \in T : k <= n}}
<1>2. below \in SUBSET (SUBSET (0 .. n))
  <2>1. ASSUME NEW m \in T, m <= n PROVE 0 .. m \subseteq 0 .. n
    BY <2>1
  <2>2. QED
    BY <2>1
<1>3. 0 .. n \in below
  BY <1>1
<1>4. IsFiniteSet(0 .. n)
  BY FS_Interval
<1>5. \E X : Minimal(X, below)
  <2> HIDE DEF below
  <2>1. below # {}
    BY <1>3
  <2>2. QED
    BY <1>2, <1>4, <2>1, MinimalSubset
<1>6. PICK m \in T : m <= n /\ \A Y \in below : Y \subseteq 0 .. m => Y = 0 .. m
  BY <1>5 DEF Minimal
<1>7. ASSUME NEW y \in T PROVE m <= y
  <2>1. SUFFICES ASSUME y < m PROVE FALSE
    OBVIOUS
  <2>2. 0 .. y \in below /\ 0 .. y \subseteq 0 .. m
    BY <1>6, <2>1
  <2>3. 0 .. y = 0 .. m
    BY <1>6, <2>2
  <2>4. m \in 0 .. y
    BY <2>3
  <2>5. QED
    BY <2>1, <2>4
<1>8. QED
  BY <1>7 DEF Min

(* Of finitely many numbers in a strict order, at most k have fewer than k  *)
(* before them.                                                             *)
LEMMA FirstOnes ==
    ASSUME NEW S, IsFiniteSet(S), S \subseteq Nat, NEW f \in [S -> Nat], NEW k \in Nat
    PROVE  LET before(s, t) == f[s] < f[t] \/ (f[s] = f[t] /\ s < t)
               first == {t \in S : Cardinality({s \in S : before(s, t)}) < k}
           IN  Cardinality(first) <= k
<1> DEFINE before(s, t) == f[s] < f[t] \/ (f[s] = f[t] /\ s < t)
           earlier(t) == {s \in S : before(s, t)}
           first == {t \in S : Cardinality(earlier(t)) < k}
<1>1. /\ IsFiniteSet(first)
      /\ \A t \in S : IsFiniteSet(earlier(t)) /\ Cardinality(earlier(t)) \in Nat
  <2>1. first \subseteq S /\ \A t \in S : earlier(t) \subseteq S
    OBVIOUS
  <2>2. QED
    BY <2>1, FS_Subset, FS_CardinalityType
<1>2. CASE first = {}
  <2>1. Cardinality(first) = 0
    BY <1>2, FS_EmptySet
  <2>2. QED
    BY <2>1
<1>3. CASE first # {}
  <2> DEFINE rest == {S \ earlier(t) : t \in first}
  <2>1. rest \in SUBSET (SUBSET S) /\ rest # {}
    <3> HIDE DEF first, earlier
    <3>1. QED
      BY <1>3
  <2>2. \E X : Minimal(X, rest)
    <3> HIDE DEF rest
    <3>1. QED
      BY <2>1, MinimalSubset
  <2>3. PICK t \in first : \A Y \in rest : Y \subseteq S \ earlier(t) => Y = S \ earlier(t)
    <3> HIDE DEF first, earlier
    <3>1. QED
      BY <2>2 DEF Minimal
  <2>4. ASSUME NEW s \in first \ {t} PROVE s \in earlier(t)
    <3>1. SUFFICES ASSUME before(t, s) PROVE FALSE
      OBVIOUS
    <3>2. ASSUME NEW x \in S, before(x, t) PROVE before(x, s)
      <4>1. f[x] \in Nat /\ f[t] \in Nat /\ f[s] \in Nat /\ x \in Nat /\ t \in Nat /\ s \in Nat
        OBVIOUS
      <4>2. QED
        BY <3>1, <3>2, <4>1
    <3>3. earlier(t) \subseteq earlier(s)
      BY <3>2
    <3>4. t \in earlier(s) /\ t \notin earlier(t)
      BY <3>1
    <3>5. S \ earlier(s) \in rest
      <4> HIDE DEF first, earlier
      <4>1. QED
        OBVIOUS
    <3>6. S \ earlier(s) = S \ earlier(t)
      BY <2>3, <3>3, <3>5
    <3>7. QED
      BY <3>4, <3>6
  <2>5. first \ {t} \subseteq earlier(t)
    BY <2>4
  <2>6. Cardinality(first \ {t}) <= Cardinality(earlier(t))
    BY <1>1, <2>5, FS_Subset
  <2>7. Cardinality(first \ {t}) = Cardinality(first) - 1 /\ Cardinality(first) \in Nat
    BY <1>1, FS_RemoveElement, FS_CardinalityType
  <2>8. Cardinality(earlier(t)) < k /\ Cardinality(earlier(t)) \in Nat
    BY <1>1
  <2>9. QED
    BY <2>6, <2>7, <2>8
<1>4. QED
  BY <1>2, <1>3

-----------------------------------------------------------------------------
(* Counting by functions.                                                   *)

LEMMA FitsInto ==
    ASSUME NEW S, NEW T, IsFiniteSet(T), NEW f \in [S -> T],
           \A a, b \in S : f[a] = f[b] => a = b
    PROVE  IsFiniteSet(S) /\ Cardinality(S) <= Cardinality(T)
<1>1. f \in Injection(S, T)
  BY DEF Injection, IsInjective
<1> QED
  BY <1>1, FS_Injection

LEMMA SameSize ==
    ASSUME NEW S, NEW T, IsFiniteSet(S), NEW f \in [S -> T],
           \A a, b \in S : f[a] = f[b] => a = b,
           \A t \in T : \E a \in S : f[a] = t
    PROVE  IsFiniteSet(T) /\ Cardinality(T) = Cardinality(S)
<1>1. f \in Surjection(S, T) /\ f \in Injection(S, T)
  BY DEF Injection, Surjection, IsInjective
<1> QED
  BY <1>1, FS_Surjection

(* Two sets that have no element in common.                                 *)
LEMMA DisjointUnion ==
    ASSUME NEW S, NEW T, IsFiniteSet(S), IsFiniteSet(T), S \cap T = {}
    PROVE  /\ IsFiniteSet(S \cup T)
           /\ Cardinality(S \cup T) = Cardinality(S) + Cardinality(T)
<1>1. Cardinality(S) \in Nat /\ Cardinality(T) \in Nat /\ Cardinality(S \cap T) = 0
  BY FS_CardinalityType, FS_EmptySet
<1>2. Cardinality(S \cup T) = Cardinality(S) + Cardinality(T) - Cardinality(S \cap T)
  BY FS_Union
<1> QED
  BY <1>1, <1>2, FS_Union

(* The values of a function on a finite set.                                *)
LEMMA FiniteValues ==
    ASSUME NEW S, IsFiniteSet(S), NEW f, f = [a \in S |-> f[a]]
    PROVE  IsFiniteSet({f[a] : a \in S})
<1> DEFINE values == {f[a] : a \in S}
<1>1. f \in Surjection(S, values)
  BY DEF Surjection
<1> HIDE DEF values
<1>2. IsFiniteSet(values)
  BY <1>1, FS_Surjection
<1> QED
  BY <1>2 DEF values

(* The numbers of a finite set stand in one row.                            *)
LEMMA Row ==
    ASSUME NEW S, S \subseteq Int, IsFiniteSet(S)
    PROVE  /\ \A k \in 1 .. Cardinality(S) :
                Nth(S, k) \in S /\ Cardinality({j \in S : j <= Nth(S, k)}) = k
           /\ \A i \in S : \E k \in 1 .. Cardinality(S) : Nth(S, k) = i
           /\ \A k, l \in 1 .. Cardinality(S) : k < l => Nth(S, k) < Nth(S, l)
<1>0. \A i \in S : i \in Int
  OBVIOUS
<1> DEFINE upto(i) == {j \in S : j <= i}
           rank == [i \in S |-> Cardinality(upto(i))]
<1>1. \A i \in S : IsFiniteSet(upto(i)) /\ Cardinality(upto(i)) \in Nat
                     /\ Cardinality(upto(i)) <= Cardinality(S)
  BY FS_Subset, FS_CardinalityType
<1>2. Cardinality(S) \in Nat
  BY FS_CardinalityType
<1>3. ASSUME NEW i \in S, NEW j \in S, i < j
      PROVE  Cardinality(upto(i)) < Cardinality(upto(j))
  <2>1. upto(i) \subseteq upto(j) /\ j \in upto(j) /\ j \notin upto(i)
    <3>1. i \in Int /\ j \in Int
      BY <1>0
    <3>2. \A x \in S : x <= i => x <= j
      BY <1>0, <1>3, <3>1
    <3>3. j <= j /\ ~ (j <= i)
      BY <1>3, <3>1
    <3>4. QED
      BY <3>2, <3>3
  <2> HIDE DEF upto
  <2>2. Cardinality(upto(i)) <= Cardinality(upto(j)) /\ Cardinality(upto(i)) # Cardinality(upto(j))
    BY <1>1, <2>1, FS_Subset
  <2>3. QED
    BY <1>1, <2>2
<1>4. ASSUME NEW i \in S PROVE Cardinality(upto(i)) >= 1
  <2>1. i \in upto(i)
    OBVIOUS
  <2> HIDE DEF upto
  <2>2. Cardinality(upto(i)) # 0
    BY <1>1, <2>1, FS_EmptySet
  <2>3. QED
    BY <1>1, <2>2
<1>5. rank \in [S -> 1 .. Cardinality(S)]
  <2> HIDE DEF upto
  <2>1. QED
    BY <1>1, <1>2, <1>4
<1>6. \A i, j \in S : rank[i] = rank[j] => i = j
  <2> SUFFICES ASSUME NEW i \in S, NEW j \in S, i # j PROVE rank[i] # rank[j]
    OBVIOUS
  <2> HIDE DEF upto
  <2>1. i < j \/ j < i
    OBVIOUS
  <2>2. QED
    BY <1>1, <1>3, <2>1
<1>7. \A k \in 1 .. Cardinality(S) : \E i \in S : rank[i] = k
  <2> HIDE DEF rank
  <2>1. rank \in Injection(S, 1 .. Cardinality(S))
    BY <1>5, <1>6 DEF Injection, IsInjective
  <2>2. IsFiniteSet(1 .. Cardinality(S)) /\ Cardinality(1 .. Cardinality(S)) = Cardinality(S)
    BY <1>2, FS_Interval
  <2>3. rank \in Surjection(S, 1 .. Cardinality(S))
    BY <2>1, <2>2, FS_Injection
  <2>4. QED
    BY <2>3 DEF Surjection
<1>8. ASSUME NEW k \in 1 .. Cardinality(S)
      PROVE  Nth(S, k) \in S /\ Cardinality(upto(Nth(S, k))) = k
  <2>1. \E i \in S : Cardinality({j \in S : j <= i}) = k
    BY <1>7
  <2>2. QED
    BY <2>1 DEF Nth
<1>9. ASSUME NEW i \in S PROVE \E k \in 1 .. Cardinality(S) : Nth(S, k) = i
  <2>1. rank[i] \in 1 .. Cardinality(S)
    BY <1>5
  <2>2. Nth(S, rank[i]) \in S /\ rank[Nth(S, rank[i])] = rank[i]
    BY <1>8, <2>1
  <2> HIDE DEF rank
  <2>3. QED
    BY <1>6, <2>1, <2>2
<1>10. ASSUME NEW k \in 1 .. Cardinality(S), NEW l \in 1 .. Cardinality(S), k < l
       PROVE  Nth(S, k) < Nth(S, l)
  <2> DEFINE a == Nth(S, k)
             b == Nth(S, l)
  <2>1. a \in S /\ b \in S /\ Cardinality(upto(a)) = k /\ Cardinality(upto(b)) = l
    BY <1>8
  <2> HIDE DEF a, b, upto
  <2>2. a < b \/ b < a \/ a = b
    BY <1>0, <2>1
  <2>3. b < a => Cardinality(upto(b)) < Cardinality(upto(a))
    BY <1>3, <2>1
  <2>4. a < b
    BY <1>10, <2>1, <2>2, <2>3
  <2>5. QED
    BY <2>4 DEF a, b
<1> QED
  BY <1>8, <1>9, <1>10

(* A list that runs through such a set in order is the set's row.           *)
LEMMA OneRow ==
    ASSUME NEW S, S \subseteq Int, NEW n \in Nat, NEW f \in [1 .. n -> S],
           \A k, l \in 1 .. n : k < l => f[k] < f[l],
           \A i \in S : \E k \in 1 .. n : f[k] = i
    PROVE  /\ IsFiniteSet(S)
           /\ Cardinality(S) = n
           /\ \A k \in 1 .. n : f[k] = Nth(S, k)
<1>0. \A k \in 1 .. n : f[k] \in S /\ f[k] \in Int
  OBVIOUS
<1>1. IsFiniteSet(1 .. n) /\ Cardinality(1 .. n) = n
  BY FS_Interval
<1>2. \A k, l \in 1 .. n : f[k] = f[l] => k = l
  <2> SUFFICES ASSUME NEW k \in 1 .. n, NEW l \in 1 .. n, k # l PROVE f[k] # f[l]
    OBVIOUS
  <2>1. f[k] \in Int /\ f[l] \in Int
    BY <1>0
  <2>2. k < l \/ l < k
    OBVIOUS
  <2>3. f[k] < f[l] \/ f[l] < f[k]
    BY <2>2
  <2>4. QED
    BY <2>1, <2>3
<1>3. IsFiniteSet(S) /\ Cardinality(S) = n
  BY <1>1, <1>2, SameSize
<1>4. ASSUME NEW k \in 1 .. n PROVE f[k] = Nth(S, k)
  <2> DEFINE T == {j \in S : j <= f[k]}
             g == [l \in 1 .. k |-> f[l]]
  <2>1. IsFiniteSet(1 .. k) /\ Cardinality(1 .. k) = k
    BY FS_Interval
  <2>2. g \in [1 .. k -> T]
    <3>1. ASSUME NEW l \in 1 .. k PROVE f[l] \in S /\ f[l] <= f[k]
      <4>1. l \in 1 .. n /\ (l = k \/ l < k)
        OBVIOUS
      <4>2. f[l] \in S /\ f[l] \in Int /\ f[k] \in Int
        BY <1>0, <4>1
      <4>3. l < k => f[l] < f[k]
        BY <4>1
      <4>4. QED
        BY <4>1, <4>2, <4>3
    <3>2. QED
      BY <3>1
  <2>3. \A a, b \in 1 .. k : g[a] = g[b] => a = b
    BY <1>2
  <2>4. \A t \in T : \E a \in 1 .. k : g[a] = t
    <3> SUFFICES ASSUME NEW t \in T PROVE \E a \in 1 .. k : f[a] = t
      OBVIOUS
    <3>1. PICK a \in 1 .. n : f[a] = t
      OBVIOUS
    <3>2. ~ k < a
      <4>1. f[a] \in Int /\ f[k] \in Int /\ f[a] <= f[k]
        BY <1>0, <3>1
      <4>2. QED
        BY <4>1
    <3>3. QED
      BY <3>1, <3>2
  <2> HIDE DEF T, g
  <2>5. Cardinality(T) = k
    BY <2>1, <2>2, <2>3, <2>4, SameSize
  <2>6. k \in 1 .. Cardinality(S)
    BY <1>3
  <2>7. PICK l \in 1 .. Cardinality(S) : Nth(S, l) = f[k]
    BY <1>3, Row
  <2>8. Cardinality({j \in S : j <= Nth(S, l)}) = l
    BY <1>3, Row
  <2>9. l = k
    BY <2>5, <2>7, <2>8 DEF T
  <2>10. QED
    BY <2>7, <2>9
<1> QED
  BY <1>3, <1>4

(* The list of what stands at some positions of a list.                     *)
LEMMA Picked ==
    ASSUME NEW T, NEW s \in Seq(T), NEW S, S \subseteq DOMAIN s
    PROVE  /\ IsFiniteSet(S)
           /\ Cardinality(S) \in 0 .. Len(s)
           /\ Pick(s, S) \in Seq(T)
           /\ Len(Pick(s, S)) = Cardinality(S)
           /\ \A k \in 1 .. Cardinality(S) : Nth(S, k) \in S /\ Pick(s, S)[k] = s[Nth(S, k)]
           /\ \A i \in S : \E k \in 1 .. Cardinality(S) : Nth(S, k) = i
           /\ \A k, l \in 1 .. Cardinality(S) : k < l => Nth(S, k) < Nth(S, l)
           /\ Cardinality(S) = Len(s) <=> S = DOMAIN s
           /\ S = DOMAIN s => Pick(s, S) = s
<1>1. DOMAIN s = 1 .. Len(s) /\ Len(s) \in Nat
  BY LenProperties
<1>2. IsFiniteSet(1 .. Len(s)) /\ Cardinality(1 .. Len(s)) = Len(s)
  <2>1. \A n \in Nat : IsFiniteSet(1 .. n) /\ Cardinality(1 .. n) = n
    BY FS_Interval
  <2>2. QED
    BY <1>1, <2>1
<1>3. IsFiniteSet(S) /\ Cardinality(S) <= Len(s) /\ (Cardinality(S) = Len(s) => S = DOMAIN s)
  BY <1>1, <1>2, FS_Subset
<1>4. Cardinality(S) \in Nat /\ S \subseteq Int
  BY <1>1, <1>3, FS_CardinalityType
<1>5. /\ \A k \in 1 .. Cardinality(S) : Nth(S, k) \in S
      /\ \A i \in S : \E k \in 1 .. Cardinality(S) : Nth(S, k) = i
      /\ \A k, l \in 1 .. Cardinality(S) : k < l => Nth(S, k) < Nth(S, l)
  BY <1>3, <1>4, Row
<1>6. \A i \in DOMAIN s : s[i] \in T
  BY <1>1, ElementOfSeq
<1>7. Pick(s, S) \in Seq(T) /\ Len(Pick(s, S)) = Cardinality(S)
  BY <1>4, <1>5, <1>6 DEF Pick
<1>8. \A k \in 1 .. Cardinality(S) : Pick(s, S)[k] = s[Nth(S, k)]
  BY DEF Pick
<1>9. ASSUME S = DOMAIN s PROVE Cardinality(S) = Len(s) /\ Pick(s, S) = s
  <2> DEFINE f == [k \in 1 .. Len(s) |-> k]
  <2>1. /\ f \in [1 .. Len(s) -> S]
        /\ \A k, l \in 1 .. Len(s) : k < l => f[k] < f[l]
        /\ \A i \in S : \E k \in 1 .. Len(s) : f[k] = i
    BY <1>1, <1>9
  <2> HIDE DEF f
  <2>2. Cardinality(S) = Len(s) /\ \A k \in 1 .. Len(s) : f[k] = Nth(S, k)
    BY <1>1, <1>4, <2>1, OneRow
  <2>3. \A k \in 1 .. Len(s) : Pick(s, S)[k] = s[k]
    BY <1>8, <2>2 DEF f
  <2>4. QED
    BY <1>7, <2>2, <2>3, SeqEqual
<1> QED
  BY <1>3, <1>4, <1>5, <1>7, <1>8, <1>9

(* Induction up to n.                                                       *)
LEMMA UpTo ==
    ASSUME NEW n \in Nat, NEW T, 0 \in T, \A i \in 0 .. n : i < n /\ i \in T => i + 1 \in T
    PROVE  \A i \in 0 .. n : i \in T
<1> DEFINE missing == (0 .. n) \ T
<1> SUFFICES ASSUME missing # {} PROVE FALSE
  OBVIOUS
<1> DEFINE m == Min(missing)
<1>1. m \in missing /\ \A i \in missing : m <= i
  <2>1. missing \subseteq Nat
    OBVIOUS
  <2> HIDE DEF missing
  <2>2. QED
    BY <2>1, MinIsLeast
<1> HIDE DEF m
<1>2. m - 1 \in 0 .. n /\ m - 1 < n
  BY <1>1
<1>3. m - 1 \in T
  BY <1>1, <1>2
<1>4. (m - 1) + 1 \in T
  BY <1>2, <1>3
<1>5. QED
  BY <1>1, <1>4

(* A function may be defined step by step.                                  *)
Steps(n, V) == [1 .. n -> [V -> V]]

Goes(f, n, V, a, step) ==
    /\ f \in [0 .. n -> V]
    /\ f[0] = a
    /\ \A i \in 1 .. n : f[i] = step[i][f[i - 1]]

LEMMA StepByStep ==
    ASSUME NEW n \in Nat, NEW V, NEW a \in V, NEW step \in Steps(n, V)
    PROVE  \E f : Goes(f, n, V, a, step)
<1> DEFINE T == {m \in 0 .. n : \E f : Goes(f, m, V, a, step)}
<1>1. 0 \in T
  <2>1. Goes([i \in 0 .. 0 |-> a], 0, V, a, step)
    BY DEF Goes
  <2>2. QED
    BY <2>1
<1>2. ASSUME NEW m \in 0 .. n, m < n, m \in T PROVE m + 1 \in T
  <2>1. PICK f : Goes(f, m, V, a, step)
    BY <1>2
  <2> DEFINE g == [i \in 0 .. m + 1 |-> IF i = m + 1 THEN step[m + 1][f[m]] ELSE f[i]]
  <2>2. step[m + 1][f[m]] \in V
    <3>1. m + 1 \in 1 .. n /\ m \in 0 .. m
      BY <1>2
    <3>2. QED
      BY <2>1, <3>1 DEF Goes, Steps
  <2>3. g \in [0 .. m + 1 -> V]
    <3>1. \A i \in 0 .. m + 1 : i # m + 1 => i \in 0 .. m
      OBVIOUS
    <3>2. QED
      BY <2>1, <2>2, <3>1 DEF Goes
  <2>4. g[0] = a
    BY <2>1 DEF Goes
  <2>5. ASSUME NEW i \in 1 .. m + 1 PROVE g[i] = step[i][g[i - 1]]
    <3>1. i - 1 \in 0 .. m + 1 /\ i - 1 # m + 1 /\ g[i - 1] = f[i - 1]
      OBVIOUS
    <3>2. CASE i = m + 1
      <4>1. g[i] = step[m + 1][f[m]] /\ i - 1 = m
        BY <3>2
      <4>2. QED
        BY <3>1, <3>2, <4>1
    <3>3. CASE i # m + 1
      <4>1. i \in 1 .. m /\ g[i] = f[i]
        BY <3>3
      <4>2. QED
        BY <2>1, <3>1, <4>1 DEF Goes
    <3>4. QED
      BY <3>2, <3>3
  <2> HIDE DEF g
  <2>6. Goes(g, m + 1, V, a, step)
    BY <2>3, <2>4, <2>5 DEF Goes
  <2>7. m + 1 \in 0 .. n
    BY <1>2
  <2>8. QED
    BY <2>6, <2>7
<1>3. n \in T
  <2> HIDE DEF T
  <2>1. \A m \in 0 .. n : m < n /\ m \in T => m + 1 \in T
    BY <1>2
  <2>2. \A m \in 0 .. n : m \in T
    BY <1>1, <2>1, UpTo
  <2>3. QED
    BY <2>2
<1>4. QED
  BY <1>3

LEMMA SumsGrow ==
    ASSUME NEW s \in Seq(Nat)
    PROVE  /\ Sums(s) \in [0 .. Len(s) -> Nat]
           /\ Sums(s)[0] = 0
           /\ \A k \in 1 .. Len(s) : Sums(s)[k] = Sums(s)[k - 1] + s[k]
           /\ \A k, l \in 0 .. Len(s) : k <= l => Sums(s)[k] <= Sums(s)[l]
<1>1. Len(s) \in Nat /\ \A k \in 1 .. Len(s) : s[k] \in Nat
  BY LenProperties, ElementOfSeq
<1> DEFINE n == Len(s)
           step == [k \in 1 .. n |-> [v \in Nat |-> v + s[k]]]
           Fits(f) == f = [k \in 0 .. n |-> IF k = 0 THEN 0 ELSE f[k - 1] + s[k]]
<1>2. step \in Steps(n, Nat)
  BY <1>1 DEF Steps
<1>3. PICK f : Goes(f, n, Nat, 0, step)
  <2>1. n \in Nat /\ 0 \in Nat
    BY <1>1
  <2> HIDE DEF n, step
  <2>2. QED
    BY <1>2, <2>1, StepByStep
<1>4. Fits(f)
  <2>1. \A k \in 0 .. n : k # 0 => k \in 1 .. n /\ k - 1 \in 0 .. n
    BY <1>1
  <2>2. \A k \in 1 .. n : f[k] = f[k - 1] + s[k]
    <3>1. ASSUME NEW k \in 1 .. n PROVE f[k - 1] \in Nat
      <4>1. f \in [0 .. n -> Nat]
        BY <1>3 DEF Goes
      <4>2. k - 1 \in 0 .. n
        BY <1>1
      <4>3. QED
        BY <4>1, <4>2
    <3>2. QED
      BY <1>3, <3>1 DEF Goes
  <2>3. QED
    BY <1>3, <2>1, <2>2 DEF Goes
<1>5. Sums(s) = CHOOSE g : Fits(g)
  BY DEF Sums
<1>6. Fits(Sums(s))
  <2> HIDE DEF Fits
  <2>1. QED
    BY <1>4, <1>5
<1> DEFINE g == Sums(s)
<1>7. g = [k \in 0 .. n |-> IF k = 0 THEN 0 ELSE g[k - 1] + s[k]]
  BY <1>6
<1> HIDE DEF g
<1>8. g[0] = 0 /\ \A k \in 1 .. n : g[k] = g[k - 1] + s[k]
  <2>1. 0 \in 0 .. n /\ \A k \in 1 .. n : k \in 0 .. n /\ k # 0
    BY <1>1
  <2>2. QED
    BY <1>7, <2>1
<1>9. \A k \in 0 .. n : g[k] \in Nat
  <2> DEFINE T == {k \in 0 .. n : g[k] \in Nat}
  <2>1. 0 \in T
    BY <1>1, <1>8
  <2>2. ASSUME NEW k \in 0 .. n, k < n, k \in T PROVE k + 1 \in T
    <3>1. k + 1 \in 1 .. n /\ k + 1 \in 0 .. n /\ (k + 1) - 1 = k /\ g[k] \in Nat
      BY <1>1, <2>2
    <3>2. g[k + 1] = g[k] + s[k + 1] /\ s[k + 1] \in Nat
      BY <1>1, <1>8, <3>1
    <3>3. QED
      BY <3>1, <3>2
  <2> HIDE DEF T
  <2>3. \A k \in 0 .. n : k \in T
    BY <1>1, <2>1, <2>2, UpTo
  <2>4. QED
    BY <2>3 DEF T
<1>10. g \in [0 .. n -> Nat]
  BY <1>7, <1>9
<1>11. ASSUME NEW k \in 0 .. n PROVE \A l \in 0 .. n : k <= l => g[k] <= g[l]
  <2> DEFINE T == {l \in 0 .. n : k <= l => g[k] <= g[l]}
  <2>1. 0 \in T
    <3>1. k <= 0 => k = 0
      OBVIOUS
    <3>2. QED
      BY <1>1, <1>9, <3>1
  <2>2. ASSUME NEW l \in 0 .. n, l < n, l \in T PROVE l + 1 \in T
    <3>1. l + 1 \in 1 .. n /\ l + 1 \in 0 .. n /\ (l + 1) - 1 = l
      BY <1>1, <2>2
    <3>2. g[l + 1] = g[l] + s[l + 1] /\ s[l + 1] \in Nat /\ g[l] \in Nat /\ g[k] \in Nat
      BY <1>1, <1>8, <1>9, <3>1
    <3>3. k <= l + 1 => k <= l \/ k = l + 1
      OBVIOUS
    <3>4. k <= l => g[k] <= g[l]
      BY <2>2
    <3>5. k <= l + 1 => g[k] <= g[l + 1]
      BY <3>2, <3>3, <3>4
    <3>6. QED
      BY <3>1, <3>5
  <2> HIDE DEF T
  <2>3. \A l \in 0 .. n : l \in T
    BY <1>1, <2>1, <2>2, UpTo
  <2>4. QED
    BY <2>3 DEF T
<1>12. QED
  BY <1>8, <1>10, <1>11 DEF g

LEMMA Joined ==
    ASSUME NEW T, NEW a \in Seq(T), NEW b \in Seq(T)
    PROVE  /\ a \o b \in Seq(T)
           /\ Len(a \o b) = Len(a) + Len(b)
           /\ \A i \in 1 .. Len(a) : (a \o b)[i] = a[i]
           /\ \A i \in 1 .. Len(b) : (a \o b)[Len(a) + i] = b[i]
  BY LenProperties

(* Lists one after the other: where each of their elements is.              *)
Lengths(seqs) == [k \in 1 .. Len(seqs) |-> Len(seqs[k])]

FlatAt(flat, seqs, lens) ==
    \A k \in 1 .. Len(seqs) : \A i \in 1 .. lens[k], p \in 1 .. Len(flat) :
        p = Sums(lens)[k - 1] + i => flat[p] = seqs[k][i]

FlatFrom(flat, seqs, lens) ==
    \A p \in 1 .. Len(flat) :
        \E k \in 1 .. Len(seqs) : \E i \in 1 .. lens[k] : p = Sums(lens)[k - 1] + i

LEMMA Flattened ==
    ASSUME NEW T, NEW seqs \in Seq(Seq(T)), seqs # <<>>, NEW lens, lens = Lengths(seqs)
    PROVE  /\ lens \in Seq(Nat)
           /\ FlattenSeq(seqs) \in Seq(T)
           /\ Len(FlattenSeq(seqs)) = Sums(lens)[Len(seqs)]
           /\ \A k \in 1 .. Len(seqs) : \A i \in 1 .. lens[k] :
                Sums(lens)[k - 1] + i \in 1 .. Len(FlattenSeq(seqs))
           /\ FlatAt(FlattenSeq(seqs), seqs, lens)
           /\ FlatFrom(FlattenSeq(seqs), seqs, lens)
<1> DEFINE n == Len(seqs)
           at == Sums(lens)
<1>1. n \in Nat \ {0} /\ DOMAIN seqs = 1 .. n /\ \A k \in 1 .. n : seqs[k] \in Seq(T)
  BY LenProperties, ElementOfSeq, EmptySeq
<1>2. lens \in Seq(Nat) /\ Len(lens) = n /\ \A k \in 1 .. n : lens[k] = Len(seqs[k]) /\ lens[k] \in Nat
  <2>1. \A k \in 1 .. n : Len(seqs[k]) \in Nat
    BY <1>1, LenProperties
  <2>2. QED
    BY <1>1, <2>1 DEF Lengths
<1>3. /\ at \in [0 .. n -> Nat]
      /\ at[0] = 0
      /\ \A k \in 1 .. n : at[k] = at[k - 1] + lens[k]
      /\ \A k, l \in 0 .. n : k <= l => at[k] <= at[l]
  BY <1>2, SumsGrow
<1> DEFINE step == [k \in 1 .. n |-> [v \in Seq(T) |-> v \o seqs[k]]]
           Fits(f) == f = [i \in 1 .. n |-> IF i = 1 THEN seqs[i] ELSE f[i - 1] \o seqs[i]]
<1>4. PICK f : Goes(f, n, Seq(T), <<>>, step)
  <2>1. step \in Steps(n, Seq(T))
    <3>1. \A k \in 1 .. n : \A v \in Seq(T) : v \o seqs[k] \in Seq(T)
      BY <1>1, ConcatProperties
    <3>2. QED
      BY <3>1 DEF Steps
  <2>2. n \in Nat /\ <<>> \in Seq(T)
    BY <1>1, EmptySeq
  <2> HIDE DEF n, step
  <2>3. QED
    BY <2>1, <2>2, StepByStep
<1>5. /\ f \in [0 .. n -> Seq(T)]
      /\ f[0] = <<>>
      /\ \A k \in 1 .. n : f[k] = f[k - 1] \o seqs[k]
  <2>1. f \in [0 .. n -> Seq(T)] /\ f[0] = <<>> /\ \A k \in 1 .. n : f[k] = step[k][f[k - 1]]
    BY <1>4 DEF Goes
  <2>2. ASSUME NEW k \in 1 .. n PROVE f[k] = f[k - 1] \o seqs[k]
    <3>1. k - 1 \in 0 .. n
      BY <1>1
    <3>2. f[k - 1] \in Seq(T)
      BY <2>1, <3>1
    <3>3. QED
      BY <2>1, <3>2
  <2>3. QED
    BY <2>1, <2>2
<1>6. Fits([k \in 1 .. n |-> f[k]])
  <2>1. f[1] = seqs[1]
    <3>1. 1 \in 1 .. n /\ 1 - 1 = 0
      BY <1>1
    <3>2. f[1] = <<>> \o seqs[1]
      BY <1>5, <3>1
    <3>3. QED
      BY <1>1, <3>1, <3>2, ConcatEmptySeq
  <2>2. \A k \in 1 .. n : k # 1 => k - 1 \in 1 .. n
    BY <1>1
  <2>3. QED
    BY <1>5, <2>1, <2>2
<1>7. FlattenSeq(seqs) = (CHOOSE g : Fits(g))[n]
  BY <1>1 DEF FlattenSeq
<1> DEFINE g == CHOOSE h : Fits(h)
<1>8. Fits(g)
  <2> HIDE DEF Fits
  <2>1. QED
    BY <1>6
<1>9. g = [i \in 1 .. n |-> IF i = 1 THEN seqs[i] ELSE g[i - 1] \o seqs[i]]
  BY <1>8
<1>10. FlattenSeq(seqs) = g[n]
  BY <1>7
<1> HIDE DEF g, Fits, at, n
<1> DEFINE Holds(m) ==
             /\ g[m] \in Seq(T)
             /\ Len(g[m]) = at[m]
             /\ \A k \in 1 .. m : \A i \in 1 .. lens[k] :
                  /\ at[k - 1] + i \in 1 .. at[m]
                  /\ g[m][at[k - 1] + i] = seqs[k][i]
             /\ \A p \in 1 .. at[m] :
                  \E k \in 1 .. m : \E i \in 1 .. lens[k] : p = at[k - 1] + i
<1>11. Holds(1)
  <2>1. g[1] = seqs[1] /\ at[1] = lens[1] /\ at[0] = 0 /\ 1 - 1 = 0
    <3>1. 1 \in 1 .. n
      BY <1>1
    <3>2. at[1] = at[1 - 1] + lens[1] /\ lens[1] \in Nat
      BY <1>2, <1>3, <3>1
    <3>3. QED
      BY <1>3, <1>9, <3>1, <3>2
  <2>2. g[1] \in Seq(T) /\ Len(g[1]) = at[1] /\ lens[1] \in Nat
    BY <1>1, <1>2, <2>1
  <2>3. \A i \in 1 .. lens[1] : at[1 - 1] + i = i
    BY <2>1, <2>2
  <2>4. \A k \in 1 .. 1 : k = 1
    OBVIOUS
  <2>5. \A p \in 1 .. at[1] : \E i \in 1 .. lens[1] : p = at[1 - 1] + i
    BY <2>1, <2>3
  <2>6. QED
    BY <2>1, <2>2, <2>3, <2>4, <2>5
<1>12. ASSUME NEW m \in 1 .. n, m < n, Holds(m) PROVE Holds(m + 1)
  <2>1. m + 1 \in 1 .. n /\ (m + 1) - 1 = m /\ m + 1 # 1 /\ m \in 0 .. n
    BY <1>1, <1>12
  <2>2. g[m + 1] = g[m] \o seqs[m + 1]
    BY <1>9, <2>1
  <2>3. at[m + 1] = at[m] + lens[m + 1] /\ at[m] \in Nat /\ lens[m + 1] \in Nat
    BY <1>2, <1>3, <2>1
  <2>4. seqs[m + 1] \in Seq(T) /\ Len(seqs[m + 1]) = lens[m + 1]
    BY <1>1, <1>2, <2>1
  <2>0. g[m] \in Seq(T) /\ Len(g[m]) = at[m]
    BY <1>12
  <2>5. /\ g[m + 1] \in Seq(T)
        /\ Len(g[m + 1]) = at[m + 1]
        /\ \A i \in 1 .. at[m] : g[m + 1][i] = g[m][i]
        /\ \A i \in 1 .. lens[m + 1] : g[m + 1][at[m] + i] = seqs[m + 1][i]
    <3> DEFINE a == g[m]
               b == seqs[m + 1]
    <3>1. a \in Seq(T) /\ b \in Seq(T) /\ Len(a) = at[m] /\ Len(b) = lens[m + 1]
      BY <2>0, <2>4
    <3>2. g[m + 1] = a \o b
      BY <2>2
    <3> HIDE DEF a, b, Holds
    <3>3. /\ a \o b \in Seq(T)
          /\ Len(a \o b) = Len(a) + Len(b)
          /\ \A i \in 1 .. Len(a) : (a \o b)[i] = a[i]
          /\ \A i \in 1 .. Len(b) : (a \o b)[Len(a) + i] = b[i]
      <4>1. a \in Seq(T) /\ b \in Seq(T)
        BY <3>1
      <4>2. QED
        BY <4>1, Joined
    <3>4. Len(a) + Len(b) = at[m + 1]
      BY <2>3, <3>1
    <3>5. QED
      BY <3>1, <3>2, <3>3, <3>4 DEF a, b
  <2>6. ASSUME NEW k \in 1 .. m + 1, NEW i \in 1 .. lens[k]
        PROVE  /\ at[k - 1] + i \in 1 .. at[m + 1]
               /\ g[m + 1][at[k - 1] + i] = seqs[k][i]
    <3>1. CASE k = m + 1
      <4>1. k - 1 = m /\ i \in 1 .. lens[m + 1]
        BY <3>1, <2>1
      <4>2. at[m] + i \in 1 .. at[m + 1]
        BY <2>3, <4>1
      <4>3. QED
        BY <2>5, <3>1, <4>1, <4>2
    <3>2. CASE k # m + 1
      <4>1. k \in 1 .. m
        BY <3>2
      <4>2. at[k - 1] + i \in 1 .. at[m] /\ g[m][at[k - 1] + i] = seqs[k][i]
        BY <1>12, <4>1
      <4>3. at[k - 1] + i \in 1 .. at[m + 1]
        <5>1. at[m] \in Nat /\ at[m + 1] \in Nat /\ at[m] <= at[m + 1]
          BY <2>3
        <5>2. \A p \in 1 .. at[m] : p \in 1 .. at[m + 1]
          BY <5>1
        <5>3. QED
          BY <4>2, <5>2
      <4>4. QED
        BY <2>5, <4>2, <4>3
    <3>3. QED
      BY <3>1, <3>2
  <2>7. ASSUME NEW p \in 1 .. at[m + 1]
        PROVE  \E k \in 1 .. m + 1 : \E i \in 1 .. lens[k] : p = at[k - 1] + i
    <3>1. CASE p <= at[m]
      <4>1. p \in 1 .. at[m]
        BY <2>3, <3>1
      <4>2. PICK k \in 1 .. m : \E i \in 1 .. lens[k] : p = at[k - 1] + i
        BY <1>12, <4>1
      <4>3. k \in 1 .. m + 1
        OBVIOUS
      <4>4. QED
        BY <4>2, <4>3
    <3>2. CASE ~ (p <= at[m])
      <4>1. p - at[m] \in 1 .. lens[m + 1] /\ p = at[(m + 1) - 1] + (p - at[m])
        BY <2>1, <2>3, <3>2
      <4>2. m + 1 \in 1 .. m + 1
        OBVIOUS
      <4>3. QED
        BY <4>1, <4>2
    <3>3. QED
      BY <3>1, <3>2
  <2>8. QED
    BY <2>5, <2>6, <2>7
<1>13. Holds(n)
  <2> HIDE DEF Holds
  <2> DEFINE U == {m \in 0 .. n : m = 0 \/ Holds(m)}
  <2>1. 0 \in U
    BY <1>1
  <2>2. ASSUME NEW m \in 0 .. n, m < n, m \in U PROVE m + 1 \in U
    <3>1. m + 1 \in 0 .. n
      BY <1>1, <2>2
    <3>2. CASE m = 0
      BY <1>11, <3>1, <3>2
    <3>3. CASE m # 0
      <4>1. m \in 1 .. n /\ Holds(m)
        BY <2>2, <3>3
      <4>2. QED
        BY <1>12, <2>2, <3>1, <4>1
    <3>4. QED
      BY <3>2, <3>3
  <2> HIDE DEF U
  <2>3. n \in Nat
    BY <1>1
  <2>4. \A m \in 0 .. n : m < n /\ m \in U => m + 1 \in U
    BY <2>2
  <2>5. \A m \in 0 .. n : m \in U
    BY <2>1, <2>3, <2>4, UpTo
  <2>6. QED
    BY <1>1, <2>5 DEF U
<1> DEFINE flat == FlattenSeq(seqs)
<1> HIDE DEF flat
<1>14. flat = g[n]
  BY <1>10 DEF flat
<1>15. /\ flat \in Seq(T)
       /\ Len(flat) = at[n]
       /\ \A k \in 1 .. n : \A i \in 1 .. lens[k] :
            at[k - 1] + i \in 1 .. Len(flat) /\ flat[at[k - 1] + i] = seqs[k][i]
       /\ \A p \in 1 .. Len(flat) :
            \E k \in 1 .. n : \E i \in 1 .. lens[k] : p = at[k - 1] + i
  BY <1>13, <1>14
<1>16. \A k \in 1 .. n : \A i \in 1 .. lens[k], p \in 1 .. Len(flat) :
         p = at[k - 1] + i => flat[p] = seqs[k][i]
  BY <1>15
<1>17. FlatAt(flat, seqs, lens)
  BY <1>16 DEF FlatAt, n, at
<1>18. FlatFrom(flat, seqs, lens)
  BY <1>15 DEF FlatFrom, n, at
<1>19. /\ flat \in Seq(T) /\ Len(flat) = Sums(lens)[Len(seqs)]
       /\ \A k \in 1 .. Len(seqs) : \A i \in 1 .. lens[k] :
            Sums(lens)[k - 1] + i \in 1 .. Len(flat)
  BY <1>15 DEF n, at
<1>20. QED
  BY <1>2, <1>17, <1>18, <1>19 DEF flat

LEMMA MaxIsGreatest ==
    ASSUME NEW S, S \subseteq Int, IsFiniteSet(S), S # {}
    PROVE  /\ Max(S) \in S
           /\ \A y \in S : y <= Max(S)
<1> DEFINE n == Cardinality(S)
           m == Nth(S, n)
           T == {j \in S : j <= m}
<1>1. n \in Nat /\ n # 0
  BY FS_CardinalityType, FS_EmptySet
<1>2. m \in S /\ Cardinality(T) = n
  <2>1. n \in 1 .. n
    BY <1>1
  <2>2. QED
    BY <2>1, Row
<1>3. T = S
  <2>1. T \in SUBSET S
    OBVIOUS
  <2> HIDE DEF T
  <2>2. QED
    BY <1>2, <2>1, FS_Subset
<1>4. \A y \in S : y <= m
  BY <1>3
<1>5. \A y \in S : m >= y
  BY <1>2, <1>4
<1>6. Max(S) \in S /\ \A y \in S : Max(S) >= y
  BY <1>2, <1>5 DEF Max
<1> QED
  BY <1>6

(* The k-th of a sorted list has few beyond it, and none before the k-th    *)
(* exceeds it.                                                              *)
LEMMA SortedList ==
    ASSUME NEW s \in Seq(Nat)
    PROVE  /\ \A k \in 1 .. Len(s) :
                /\ Sorted(s)[k] \in Nat
                /\ Cardinality({i \in DOMAIN s : s[i] > Sorted(s)[k]}) <= Len(s) - k
           /\ \A k, l \in 1 .. Len(s) : k < l => Sorted(s)[k] <= Sorted(s)[l]
<1> DEFINE n == Len(s)
           D == DOMAIN s
           before(i, j) == s[i] < s[j] \/ (s[i] = s[j] /\ i < j)
           earlier(j) == {i \in D : before(i, j)}
           place == [j \in D |-> Cardinality(earlier(j)) + 1]
<1>1. n \in Nat /\ D = 1 .. n /\ \A i \in D : s[i] \in Nat
  BY LenProperties, ElementOfSeq
<1>2. IsFiniteSet(D) /\ Cardinality(D) = n
  <2>1. \A m \in Nat : IsFiniteSet(1 .. m) /\ Cardinality(1 .. m) = m
    BY FS_Interval
  <2> HIDE DEF n, D
  <2>2. QED
    BY <1>1, <2>1
<1>3. ASSUME NEW j \in D
      PROVE  IsFiniteSet(earlier(j)) /\ Cardinality(earlier(j)) \in Nat
               /\ Cardinality(earlier(j)) < n
  <2>1. earlier(j) \in SUBSET D /\ j \notin earlier(j) /\ j \in D
    BY <1>1
  <2> HIDE DEF earlier, D, n
  <2>2. IsFiniteSet(earlier(j)) /\ Cardinality(earlier(j)) <= n /\ Cardinality(earlier(j)) # n
    BY <1>2, <2>1, FS_Subset
  <2>3. Cardinality(earlier(j)) \in Nat
    BY <2>2, FS_CardinalityType
  <2>4. QED
    BY <1>1, <2>2, <2>3
<1>4. ASSUME NEW i \in D, NEW j \in D, before(i, j)
      PROVE  Cardinality(earlier(i)) < Cardinality(earlier(j))
  <2>1. s[i] \in Nat /\ s[j] \in Nat /\ i \in Nat /\ j \in Nat
    BY <1>1
  <2>2. \A h \in D : before(h, i) => before(h, j)
    <3> SUFFICES ASSUME NEW h \in D, before(h, i) PROVE before(h, j)
      OBVIOUS
    <3>1. s[h] \in Nat /\ h \in Nat
      BY <1>1
    <3>2. QED
      BY <1>4, <2>1, <3>1
  <2>3. earlier(i) \in SUBSET earlier(j) /\ i \in earlier(j) /\ i \notin earlier(i)
    BY <1>4, <2>1, <2>2
  <2> HIDE DEF earlier, before
  <2>4. Cardinality(earlier(i)) <= Cardinality(earlier(j))
          /\ Cardinality(earlier(i)) # Cardinality(earlier(j))
    BY <1>3, <2>3, FS_Subset
  <2>5. QED
    BY <1>3, <2>4
<1>5. ASSUME NEW i \in D, NEW j \in D, i # j PROVE before(i, j) \/ before(j, i)
  <2>1. s[i] \in Nat /\ s[j] \in Nat /\ i \in Nat /\ j \in Nat
    BY <1>1
  <2>2. QED
    BY <1>5, <2>1
<1>6. place \in [D -> 1 .. n]
  <2> HIDE DEF earlier
  <2>1. \A j \in D : Cardinality(earlier(j)) + 1 \in 1 .. n
    BY <1>1, <1>3
  <2>2. QED
    BY <2>1
<1>7. \A i, j \in D : place[i] = place[j] => i = j
  <2> SUFFICES ASSUME NEW i \in D, NEW j \in D, i # j PROVE place[i] # place[j]
    OBVIOUS
  <2> HIDE DEF earlier, before
  <2>1. QED
    BY <1>3, <1>4, <1>5
<1>8. \A k \in 1 .. n : \E j \in D : place[j] = k
  <2> HIDE DEF place, D, n
  <2>1. place \in Injection(D, 1 .. n)
    BY <1>6, <1>7 DEF Injection, IsInjective
  <2>2. IsFiniteSet(1 .. n) /\ Cardinality(1 .. n) = n
    BY <1>1, FS_Interval
  <2>3. place \in Surjection(D, 1 .. n)
    BY <1>2, <2>1, <2>2, FS_Injection
  <2>4. QED
    BY <2>3 DEF Surjection
<1> DEFINE at(k) == CHOOSE j \in D : Cardinality(earlier(j)) + 1 = k
<1>9. ASSUME NEW k \in 1 .. n
      PROVE  /\ at(k) \in D
             /\ Cardinality(earlier(at(k))) + 1 = k
             /\ Sorted(s)[k] = s[at(k)]
  <2>1. \E j \in D : Cardinality(earlier(j)) + 1 = k
    BY <1>8
  <2>2. k \in D
    BY <1>1
  <2>3. Sorted(s)[k] = s[at(k)]
    BY <2>2 DEF Sorted
  <2> HIDE DEF earlier
  <2>4. QED
    BY <2>1, <2>3
<1>10. ASSUME NEW k \in 1 .. n
       PROVE  Cardinality({i \in D : s[i] > Sorted(s)[k]}) <= n - k
  <2> DEFINE j == at(k)
             beyond == {i \in D : s[i] > Sorted(s)[k]}
             rest == earlier(j) \cup {j}
  <2>1. j \in D /\ Cardinality(earlier(j)) + 1 = k /\ Sorted(s)[k] = s[j]
    BY <1>9
  <2> HIDE DEF j
  <2>2. beyond \cap rest = {}
    <3>1. \A i \in D : s[i] > s[j] => ~ before(i, j) /\ i # j
      BY <1>1, <2>1
    <3>2. QED
      BY <2>1, <3>1
  <2>3. beyond \in SUBSET D /\ rest \in SUBSET D
    BY <2>1
  <2>4. j \notin earlier(j)
    BY <1>1, <2>1
  <2>5. IsFiniteSet(rest) /\ Cardinality(rest) = k
    <3> HIDE DEF earlier
    <3>1. IsFiniteSet(earlier(j))
      BY <1>3, <2>1
    <3>2. IsFiniteSet(rest) /\ Cardinality(rest) = Cardinality(earlier(j)) + 1
      BY <2>4, <3>1, FS_AddElement
    <3>3. QED
      BY <2>1, <3>2
  <2> HIDE DEF beyond, rest, D, n
  <2>6. IsFiniteSet(beyond) /\ Cardinality(beyond) \in Nat
    BY <1>2, <2>3, FS_Subset, FS_CardinalityType
  <2>7. Cardinality(beyond \cup rest) = Cardinality(beyond) + Cardinality(rest)
    BY <2>2, <2>5, <2>6, DisjointUnion
  <2>8. Cardinality(beyond \cup rest) <= Cardinality(D)
    <3>1. beyond \cup rest \in SUBSET D
      BY <2>3
    <3>2. QED
      BY <1>2, <3>1, FS_Subset
  <2>9. Cardinality(beyond) <= n - k
    BY <1>1, <1>2, <2>5, <2>6, <2>7, <2>8
  <2>10. QED
    BY <2>9 DEF beyond
<1>11. ASSUME NEW k \in 1 .. n, NEW l \in 1 .. n, k < l
       PROVE  Sorted(s)[k] <= Sorted(s)[l]
  <2>1. at(k) \in D /\ at(l) \in D
    BY <1>9
  <2>2. s[at(k)] \in Nat /\ s[at(l)] \in Nat
    BY <1>1, <2>1
  <2>3. ~ before(at(l), at(k))
    <3> HIDE DEF earlier, before, at
    <3>1. SUFFICES ASSUME before(at(l), at(k)) PROVE FALSE
      OBVIOUS
    <3>2. Cardinality(earlier(at(l))) < Cardinality(earlier(at(k)))
      BY <1>4, <2>1, <3>1
    <3>3. Cardinality(earlier(at(l))) \in Nat /\ Cardinality(earlier(at(k))) \in Nat
      BY <1>3, <2>1
    <3>4. Cardinality(earlier(at(k))) + 1 = k /\ Cardinality(earlier(at(l))) + 1 = l
      BY <1>9
    <3>5. QED
      BY <1>11, <3>2, <3>3, <3>4
  <2>4. ~ (s[at(l)] < s[at(k)])
    BY <2>3
  <2>5. Sorted(s)[k] = s[at(k)] /\ Sorted(s)[l] = s[at(l)]
    BY <1>9
  <2> HIDE DEF at
  <2>6. QED
    BY <2>2, <2>4, <2>5
<1>12. ASSUME NEW k \in 1 .. n PROVE Sorted(s)[k] \in Nat
  <2> HIDE DEF at
  <2>1. QED
    BY <1>1, <1>9
<1> QED
  BY <1>10, <1>11, <1>12

(* The different elements of a list.                                        *)
LEMMA DifferentOnes ==
    ASSUME NEW T, NEW s \in Seq(T)
    PROVE  /\ Distinct(s) \in Seq(T)
           /\ \A k \in 1 .. Len(Distinct(s)) : \E i \in 1 .. Len(s) : Distinct(s)[k] = s[i]
           /\ \A i \in 1 .. Len(s) : \E k \in 1 .. Len(Distinct(s)) : Distinct(s)[k] = s[i]
           /\ \A k, l \in 1 .. Len(Distinct(s)) : Distinct(s)[k] = Distinct(s)[l] => k = l
<1> DEFINE S == {i \in DOMAIN s : \A j \in 1 .. i - 1 : s[j] # s[i]}
           n == Cardinality(S)
<1>1. Len(s) \in Nat /\ DOMAIN s = 1 .. Len(s)
  BY LenProperties
<1>2. S \subseteq DOMAIN s /\ Distinct(s) = Pick(s, S)
  BY DEF Distinct
<1>3. \A i, j \in S : s[i] = s[j] => i = j
  <2> SUFFICES ASSUME NEW i \in S, NEW j \in S, i < j, s[i] = s[j] PROVE FALSE
    BY <1>1
  <2>1. i \in 1 .. j - 1
    BY <1>1
  <2>2. QED
    BY <2>1
<1>4. \A i \in DOMAIN s : \E j \in S : s[j] = s[i]
  <2> SUFFICES ASSUME NEW i \in DOMAIN s PROVE \E j \in S : s[j] = s[i]
    OBVIOUS
  <2> DEFINE Same == {j \in DOMAIN s : s[j] = s[i]}
  <2>1. Same \subseteq Nat /\ i \in Same
    BY <1>1
  <2>2. PICK j : j \in Same /\ \A l \in Same : j <= l
    <3> HIDE DEF Same
    <3>1. QED
      BY <2>1, MinIsLeast
  <2>3. \A l \in 1 .. j - 1 : s[l] # s[j]
    BY <1>1, <2>2
  <2>4. QED
    BY <2>2, <2>3
<1> HIDE DEF S
<1>5. /\ n \in 0 .. Len(s)
      /\ Distinct(s) \in Seq(T) /\ Len(Distinct(s)) = n
      /\ \A k \in 1 .. n : Nth(S, k) \in S /\ Distinct(s)[k] = s[Nth(S, k)]
      /\ \A i \in S : \E k \in 1 .. n : Nth(S, k) = i
      /\ \A k, l \in 1 .. n : k < l => Nth(S, k) < Nth(S, l)
  BY <1>2, Picked
<1> HIDE DEF n
<1>6. ASSUME NEW k \in 1 .. n, NEW l \in 1 .. n, Distinct(s)[k] = Distinct(s)[l]
      PROVE  k = l
  <2>1. Nth(S, k) = Nth(S, l)
    BY <1>3, <1>5, <1>6
  <2>2. Nth(S, k) \in Nat /\ n \in Nat
    BY <1>1, <1>2, <1>5
  <2>3. QED
    BY <1>5, <2>1, <2>2
<1>7. ASSUME NEW i \in 1 .. Len(s) PROVE \E k \in 1 .. n : Distinct(s)[k] = s[i]
  <2>1. PICK j \in S : s[j] = s[i]
    BY <1>1, <1>4
  <2>2. PICK k \in 1 .. n : Nth(S, k) = j
    BY <1>5
  <2>3. QED
    BY <1>5, <2>1, <2>2
<1>8. \A k \in 1 .. n : \E i \in 1 .. Len(s) : Distinct(s)[k] = s[i]
  BY <1>1, <1>2, <1>5
<1>9. QED
  BY <1>5, <1>6, <1>7, <1>8
(* A greater number comes last.                                             *)
LEMMA OneMoreInARow ==
    ASSUME NEW S, S \subseteq Int, IsFiniteSet(S), NEW n \in Int, \A i \in S : i < n
    PROVE  LET c == Cardinality(S)
           IN  /\ c \in Nat
               /\ IsFiniteSet(S \cup {n}) /\ Cardinality(S \cup {n}) = c + 1
               /\ \A k \in 1 .. c : Nth(S \cup {n}, k) = Nth(S, k)
               /\ Nth(S \cup {n}, c + 1) = n
<1> DEFINE c == Cardinality(S)
           U == S \cup {n}
           f == [k \in 1 .. c + 1 |-> IF k = c + 1 THEN n ELSE Nth(S, k)]
<1>1. /\ c \in Nat
      /\ \A k \in 1 .. c : Nth(S, k) \in S
      /\ \A i \in S : \E k \in 1 .. c : Nth(S, k) = i
      /\ \A k, l \in 1 .. c : k < l => Nth(S, k) < Nth(S, l)
  BY FS_CardinalityType, Row
<1> HIDE DEF c
<1>2. /\ U \subseteq Int /\ c + 1 \in Nat /\ c + 1 \in 1 .. c + 1
      /\ \A k \in 1 .. c + 1 : k = c + 1 \/ (k # c + 1 /\ k \in 1 .. c)
      /\ \A k \in 1 .. c : k \in 1 .. c + 1 /\ k # c + 1
  BY <1>1
<1>3. f[c + 1] = n /\ \A k \in 1 .. c : f[k] = Nth(S, k)
  BY <1>2
<1>4. f \in [1 .. c + 1 -> U]
  BY <1>1, <1>2
<1>5. \A k, l \in 1 .. c + 1 : k < l => f[k] < f[l]
  <2> SUFFICES ASSUME NEW k \in 1 .. c + 1, NEW l \in 1 .. c + 1, k < l PROVE f[k] < f[l]
    OBVIOUS
  <2> HIDE DEF f
  <2>1. k \in 1 .. c
    BY <1>1
  <2>2. CASE l = c + 1
    BY <1>1, <1>3, <2>1, <2>2
  <2>3. CASE l \in 1 .. c
    BY <1>1, <1>3, <2>1, <2>3
  <2>4. QED
    BY <1>2, <2>2, <2>3
<1>6. \A i \in U : \E k \in 1 .. c + 1 : f[k] = i
  <2> HIDE DEF f
  <2>1. QED
    BY <1>1, <1>2, <1>3
<1> HIDE DEF f
<1>7. IsFiniteSet(U) /\ Cardinality(U) = c + 1 /\ \A k \in 1 .. c + 1 : f[k] = Nth(U, k)
  <2> HIDE DEF U
  <2>1. QED
    BY <1>2, <1>4, <1>5, <1>6, OneRow
<1>8. QED
  BY <1>1, <1>2, <1>3, <1>7 DEF c

(* Picking from a list that has become longer.                              *)
LEMMA PickFromMore ==
    ASSUME NEW T, NEW s \in Seq(T), NEW x \in T, NEW S, S \subseteq DOMAIN s
    PROVE  /\ Pick(Append(s, x), S) = Pick(s, S)
           /\ Pick(Append(s, x), S \cup {Len(s) + 1}) = Append(Pick(s, S), x)
<1> DEFINE c == Cardinality(S)
           n == Len(s) + 1
           t == Append(s, x)
<1>1. /\ Len(s) \in Nat /\ DOMAIN s = 1 .. Len(s)
      /\ \A i \in 1 .. Len(s) : t[i] = s[i]
      /\ t[n] = x
  OBVIOUS
<1>2. /\ IsFiniteSet(S) /\ c \in Nat
      /\ Pick(s, S) \in Seq(T) /\ Len(Pick(s, S)) = c
      /\ \A k \in 1 .. c : Nth(S, k) \in S
  <2>1. c \in 0 .. Len(s)
    BY Picked
  <2>2. QED
    BY <1>1, <2>1, Picked
<1>3. /\ Cardinality(S \cup {n}) = c + 1
      /\ \A k \in 1 .. c : Nth(S \cup {n}, k) = Nth(S, k)
      /\ Nth(S \cup {n}, c + 1) = n
  <2>1. S \subseteq Int /\ n \in Int /\ \A i \in S : i < n
    BY <1>1
  <2>2. QED
    BY <1>2, <2>1, OneMoreInARow
<1> HIDE DEF c, t, n
<1>4. \A k \in 1 .. c : t[Nth(S, k)] = s[Nth(S, k)]
  BY <1>1, <1>2
<1>5. Pick(t, S) = Pick(s, S)
  BY <1>4 DEF Pick, c
<1>6. Pick(t, S \cup {n}) = [k \in 1 .. c + 1 |-> IF k = c + 1 THEN x ELSE s[Nth(S, k)]]
  <2>1. \A k \in 1 .. c + 1 :
          t[Nth(S \cup {n}, k)] = IF k = c + 1 THEN x ELSE s[Nth(S, k)]
    <3> SUFFICES ASSUME NEW k \in 1 .. c + 1
                 PROVE  t[Nth(S \cup {n}, k)] = IF k = c + 1 THEN x ELSE s[Nth(S, k)]
      OBVIOUS
    <3>1. CASE k = c + 1
      BY <1>1, <1>3, <3>1
    <3>2. CASE k # c + 1
      <4>1. k \in 1 .. c
        BY <1>2, <3>2
      <4>2. QED
        BY <1>3, <1>4, <3>2, <4>1
    <3>3. QED
      BY <3>1, <3>2
  <2>2. QED
    BY <1>3, <2>1 DEF Pick
<1>7. Pick(s, S) = [k \in 1 .. c |-> s[Nth(S, k)]]
  BY DEF Pick, c
<1>8. Append(Pick(s, S), x) = [k \in 1 .. c + 1 |-> IF k = c + 1 THEN x ELSE s[Nth(S, k)]]
  BY <1>2, <1>7
<1> QED
  BY <1>5, <1>6, <1>8 DEF t, n

LEMMA DistinctFromMore ==
    ASSUME NEW T, NEW s \in Seq(T), NEW x \in T
    PROVE  Distinct(Append(s, x)) =
             IF x \in ToSet(s) THEN Distinct(s) ELSE Append(Distinct(s), x)
<1> DEFINE n == Len(s) + 1
           t == Append(s, x)
           S == {i \in DOMAIN s : \A j \in 1 .. i - 1 : s[j] # s[i]}
           U == {i \in DOMAIN t : \A j \in 1 .. i - 1 : t[j] # t[i]}
<1>1. /\ Len(s) \in Nat /\ DOMAIN s = 1 .. Len(s) /\ DOMAIN t = 1 .. n
      /\ \A i \in 1 .. Len(s) : t[i] = s[i]
      /\ t[n] = x
  OBVIOUS
<1>2. Distinct(s) = Pick(s, S) /\ Distinct(t) = Pick(t, U) /\ S \subseteq DOMAIN s
  BY DEF Distinct
<1> HIDE DEF t, n
<1>3. \A i \in 1 .. Len(s) : i \in U <=> i \in S
  <2> SUFFICES ASSUME NEW i \in 1 .. Len(s) PROVE i \in U <=> i \in S
    OBVIOUS
  <2>1. \A j \in 1 .. i - 1 : j \in 1 .. Len(s)
    BY <1>1
  <2>2. i \in DOMAIN s /\ i \in DOMAIN t
    BY <1>1 DEF n
  <2>3. QED
    BY <1>1, <2>1, <2>2
<1>4. n \in U <=> x \notin ToSet(s)
  <2>1. 1 .. n - 1 = DOMAIN s /\ n \in DOMAIN t
    BY <1>1 DEF n
  <2>2. n \in U <=> \A j \in DOMAIN s : s[j] # x
    BY <1>1, <2>1
  <2>3. QED
    BY <2>2 DEF ToSet
<1>5. U \subseteq 1 .. n
  BY <1>1
<1> HIDE DEF S, U
<1>6. \A i \in 1 .. n : i = n \/ i \in 1 .. Len(s)
  BY <1>1 DEF n
<1>7. U = IF x \in ToSet(s) THEN S ELSE S \cup {n}
  <2>1. n \in 1 .. n /\ n \notin 1 .. Len(s)
    BY <1>1 DEF n
  <2>2. S \subseteq 1 .. Len(s)
    BY <1>1, <1>2
  <2>3. \A i : i \in U => i = n \/ i \in S
    BY <1>3, <1>5, <1>6
  <2>4. \A i \in S : i \in U
    BY <1>3, <2>2
  <2>5. CASE x \in ToSet(s)
    <3>1. n \notin U
      BY <1>4, <2>5
    <3>2. U = S
      BY <2>3, <2>4, <3>1
    <3>3. QED
      BY <2>5, <3>2
  <2>6. CASE x \notin ToSet(s)
    BY <1>4, <2>3, <2>4, <2>6
  <2>7. QED
    BY <2>5, <2>6
<1>8. Pick(t, S) = Pick(s, S) /\ Pick(t, S \cup {n}) = Append(Pick(s, S), x)
  BY <1>2, PickFromMore DEF t, n
<1> QED
  BY <1>2, <1>7, <1>8 DEF t

-----------------------------------------------------------------------------
(* What SequenceParsing computes, of any lines that mention blocks.         *)

Mentioning(lines, block) == {i \in DOMAIN lines : block \in ToSet(lines[i].blocks)}

Pairs(lines) == [block : STRING, line : 1 .. Len(lines)]

(* Who mentions what, once each and in the order of the lines.              *)
InOrder(pairs, lines) ==
    /\ pairs \in Seq(Pairs(lines))
    /\ \A p \in 1 .. Len(pairs) : pairs[p].line \in Mentioning(lines, pairs[p].block)
    /\ \A i \in 1 .. Len(lines) : \A b \in ToSet(lines[i].blocks) :
         \E p \in 1 .. Len(pairs) : pairs[p].block = b /\ pairs[p].line = i
    /\ \A p, q \in 1 .. Len(pairs) :
         p < q /\ pairs[p].block = pairs[q].block => pairs[p].line < pairs[q].line

LEMMA MentionsOnce ==
    ASSUME NEW R, \A r \in R : r.blocks \in Seq(STRING), NEW lines \in Seq(R), NEW i \in 1 .. Len(lines)
    PROVE  /\ Mentions(lines[i]) \in Seq(STRING)
           /\ \A k \in 1 .. Len(Mentions(lines[i])) : Mentions(lines[i])[k] \in ToSet(lines[i].blocks)
           /\ \A b \in ToSet(lines[i].blocks) :
                \E k \in 1 .. Len(Mentions(lines[i])) : Mentions(lines[i])[k] = b
           /\ \A k, l \in 1 .. Len(Mentions(lines[i])) :
                Mentions(lines[i])[k] = Mentions(lines[i])[l] => k = l
<1> DEFINE s == lines[i].blocks
<1>1. s \in Seq(STRING)
  <2>1. lines[i] \in R
    BY ElementOfSeq
  <2>2. QED
    BY <2>1
<1>2. Mentions(lines[i]) = Distinct(s)
  BY DEF Mentions
<1> HIDE DEF s
<1>3. DOMAIN s = 1 .. Len(s)
  BY <1>1, LenProperties
<1>4. /\ Distinct(s) \in Seq(STRING)
      /\ \A k \in 1 .. Len(Distinct(s)) : \E j \in 1 .. Len(s) : Distinct(s)[k] = s[j]
      /\ \A j \in 1 .. Len(s) : \E k \in 1 .. Len(Distinct(s)) : Distinct(s)[k] = s[j]
      /\ \A k, l \in 1 .. Len(Distinct(s)) : Distinct(s)[k] = Distinct(s)[l] => k = l
  BY <1>1, DifferentOnes
<1>5. \A b : b \in ToSet(s) <=> \E j \in 1 .. Len(s) : b = s[j]
  BY <1>3 DEF ToSet
<1>6. \A k \in 1 .. Len(Distinct(s)) : Distinct(s)[k] \in ToSet(s)
  BY <1>4, <1>5
<1>7. ASSUME NEW b \in ToSet(s) PROVE \E k \in 1 .. Len(Distinct(s)) : Distinct(s)[k] = b
  <2>1. PICK j \in 1 .. Len(s) : b = s[j]
    BY <1>5
  <2>2. PICK k \in 1 .. Len(Distinct(s)) : Distinct(s)[k] = s[j]
    BY <1>4
  <2>3. QED
    BY <2>1, <2>2
<1>8. QED
  BY <1>2, <1>4, <1>6, <1>7 DEF s

LEMMA PairsInOrder ==
    ASSUME NEW R, \A r \in R : r.blocks \in Seq(STRING), NEW lines \in Seq(R)
    PROVE  InOrder(AllPairs(lines), lines)
<1> DEFINE n == Len(lines)
           row(i) == [k \in DOMAIN Mentions(lines[i]) |->
                         [block |-> Mentions(lines[i])[k], line |-> i]]
           seqs == [i \in DOMAIN lines |-> row(i)]
           P == Pairs(lines)
           pairs == FlattenSeq(seqs)
           lens == Lengths(seqs)
           at == Sums(lens)
<1>0. ASSUME NEW i \in 1 .. Len(lines)
      PROVE  /\ Mentions(lines[i]) \in Seq(STRING)
             /\ \A k \in 1 .. Len(Mentions(lines[i])) :
                  Mentions(lines[i])[k] \in ToSet(lines[i].blocks)
             /\ \A b \in ToSet(lines[i].blocks) :
                  \E k \in 1 .. Len(Mentions(lines[i])) : Mentions(lines[i])[k] = b
             /\ \A k, l \in 1 .. Len(Mentions(lines[i])) :
                  Mentions(lines[i])[k] = Mentions(lines[i])[l] => k = l
  BY MentionsOnce
<1>1. n \in Nat /\ DOMAIN lines = 1 .. n
  BY LenProperties
<1>2. AllPairs(lines) = pairs
  BY DEF AllPairs
<1>3. ASSUME NEW i \in 1 .. n
      PROVE  /\ row(i) \in Seq(P)
             /\ Len(row(i)) = Len(Mentions(lines[i])) /\ Len(row(i)) \in Nat
             /\ \A k \in 1 .. Len(row(i)) :
                  row(i)[k].block = Mentions(lines[i])[k] /\ row(i)[k].line = i
  <2> DEFINE m == Mentions(lines[i])
  <2>1. m \in Seq(STRING)
    BY <1>0
  <2> HIDE DEF m
  <2>2. Len(m) \in Nat /\ DOMAIN m = 1 .. Len(m) /\ \A k \in 1 .. Len(m) : m[k] \in STRING
    BY <2>1, LenProperties, ElementOfSeq
  <2> DEFINE x == [k \in DOMAIN m |-> [block |-> m[k], line |-> i]]
  <2>3. \A k \in 1 .. Len(m) : [block |-> m[k], line |-> i] \in P
    BY <2>2 DEF Pairs
  <2> HIDE DEF P
  <2>4. /\ x \in Seq(P) /\ Len(x) = Len(m)
        /\ \A k \in 1 .. Len(m) : x[k] = [block |-> m[k], line |-> i]
    BY <2>2, <2>3
  <2> HIDE DEF x
  <2>5. x \in Seq(P) /\ Len(x) = Len(m) /\ Len(x) \in Nat
        /\ \A k \in 1 .. Len(x) : x[k].block = m[k] /\ x[k].line = i
    <3>1. ASSUME NEW k \in 1 .. Len(m) PROVE x[k].block = m[k] /\ x[k].line = i
      <4>1. x[k] = [block |-> m[k], line |-> i]
        BY <2>4
      <4>2. QED
        BY <4>1
    <3>2. QED
      BY <2>2, <2>4, <3>1
  <2>6. QED
    BY <2>5 DEF x, m
<1>4. seqs \in Seq(Seq(P)) /\ Len(seqs) = n /\ \A i \in 1 .. n : seqs[i] = row(i)
  <2> HIDE DEF P, row
  <2>1. QED
    BY <1>1, <1>3
<1>5. CASE lines = <<>>
  <2>1. n = 0 /\ pairs = seqs
    <3>1. n = 0
      BY <1>5, EmptySeq
    <3> HIDE DEF seqs
    <3>2. QED
      BY <1>4, <3>1 DEF FlattenSeq
  <2>2. pairs \in Seq(P) /\ Len(pairs) = 0
    <3> HIDE DEF pairs, seqs
    <3>1. \A i \in 1 .. 0 : FALSE
      OBVIOUS
    <3>2. seqs = <<>>
      BY <1>4, <2>1, EmptySeq
    <3>3. QED
      BY <2>1, <3>2, EmptySeq
  <2>3. QED
    <3> HIDE DEF pairs
    <3>1. QED
      BY <1>2, <2>1, <2>2 DEF InOrder
<1>6. CASE lines # <<>>
  <2>1. seqs # <<>>
    <3>1. n # 0
      BY <1>6, EmptySeq
    <3> HIDE DEF seqs
    <3>2. QED
      BY <1>4, <3>1, EmptySeq
  <2>2. seqs \in Seq(Seq(P))
    BY <1>4
  <2> HIDE DEF seqs, P, n
  <2>3. /\ lens \in Seq(Nat) /\ pairs \in Seq(P)
        /\ Len(pairs) = Sums(lens)[Len(seqs)]
        /\ \A i \in 1 .. Len(seqs) : \A k \in 1 .. lens[i] :
             Sums(lens)[i - 1] + k \in 1 .. Len(pairs)
        /\ FlatAt(pairs, seqs, lens) /\ FlatFrom(pairs, seqs, lens)
    BY <2>1, <2>2, Flattened
  <2>4. Len(lens) = n /\ \A i \in 1 .. n : lens[i] = Len(row(i)) /\ lens[i] \in Nat
    <3>1. lens = [i \in 1 .. n |-> Len(seqs[i])]
      BY <1>4 DEF Lengths
    <3> HIDE DEF row, lens
    <3>2. \A i \in 1 .. n : lens[i] = Len(row(i)) /\ lens[i] \in Nat
      BY <1>3, <1>4, <3>1
    <3>3. QED
      BY <1>1, <3>1, <3>2
  <2> HIDE DEF lens, pairs
  <2>5. /\ at \in [0 .. n -> Nat]
        /\ \A i \in 1 .. n : at[i] = at[i - 1] + lens[i]
        /\ \A i, j \in 0 .. n : i <= j => at[i] <= at[j]
    BY <2>3, <2>4, SumsGrow
  <2> DEFINE Of(p, i, k) ==
               /\ p = at[i - 1] + k
               /\ pairs[p].block = Mentions(lines[i])[k] /\ pairs[p].line = i
  <2>6. \A i \in 1 .. n : \A k \in 1 .. lens[i] : at[i - 1] + k \in 1 .. Len(pairs)
    BY <1>4, <2>3
  <2>7. \A i \in 1 .. n : \A k \in 1 .. lens[i], p \in 1 .. Len(pairs) :
          p = at[i - 1] + k => Of(p, i, k)
    <3> SUFFICES ASSUME NEW i \in 1 .. n, NEW k \in 1 .. lens[i], NEW p \in 1 .. Len(pairs),
                        p = at[i - 1] + k
                 PROVE  pairs[p].block = Mentions(lines[i])[k] /\ pairs[p].line = i
      OBVIOUS
    <3>1. pairs[p] = seqs[i][k]
      <4>1. FlatAt(pairs, seqs, lens)
        BY <2>3
      <4>2. i \in 1 .. Len(seqs) /\ p = Sums(lens)[i - 1] + k
        BY <1>4
      <4> HIDE DEF Of, row, at
      <4>3. QED
        BY <4>1, <4>2 DEF FlatAt
    <3>2. seqs[i] = row(i) /\ k \in 1 .. Len(row(i))
      BY <1>4, <2>4
    <3> HIDE DEF row
    <3>3. row(i)[k].block = Mentions(lines[i])[k] /\ row(i)[k].line = i
      BY <1>3, <3>2
    <3>4. QED
      BY <3>1, <3>2, <3>3
  <2>8. \A p \in 1 .. Len(pairs) : \E i \in 1 .. n : \E k \in 1 .. lens[i] : Of(p, i, k)
    <3> SUFFICES ASSUME NEW p \in 1 .. Len(pairs)
                 PROVE  \E i \in 1 .. n : \E k \in 1 .. lens[i] : Of(p, i, k)
      OBVIOUS
    <3>1. PICK i \in 1 .. n : \E k \in 1 .. lens[i] : p = at[i - 1] + k
      BY <1>4, <2>3 DEF FlatFrom
    <3>2. PICK k \in 1 .. lens[i] : p = at[i - 1] + k
      BY <3>1
    <3> HIDE DEF Of
    <3>3. QED
      BY <2>7, <3>2
  <2>9. ASSUME NEW p \in 1 .. Len(pairs)
        PROVE  pairs[p].line \in Mentioning(lines, pairs[p].block)
    <3>1. PICK i \in 1 .. n : \E k \in 1 .. lens[i] : Of(p, i, k)
      BY <2>8
    <3>2. PICK k \in 1 .. lens[i] : Of(p, i, k)
      BY <3>1
    <3>3. Mentions(lines[i])[k] \in ToSet(lines[i].blocks)
      <4>1. k \in 1 .. Len(Mentions(lines[i])) /\ i \in 1 .. Len(lines)
        BY <1>3, <2>4 DEF n
      <4>2. QED
        BY <4>1, <1>0
    <3>4. QED
      BY <1>1, <3>2, <3>3 DEF Mentioning
  <2>10. ASSUME NEW i \in 1 .. Len(lines), NEW b \in ToSet(lines[i].blocks)
         PROVE  \E p \in 1 .. Len(pairs) : pairs[p].block = b /\ pairs[p].line = i
    <3>1. \A c \in ToSet(lines[i].blocks) :
            \E k \in 1 .. Len(Mentions(lines[i])) : Mentions(lines[i])[k] = c
      BY <1>0
    <3>2. PICK k \in 1 .. Len(Mentions(lines[i])) : Mentions(lines[i])[k] = b
      BY <3>1
    <3>3. i \in 1 .. n /\ k \in 1 .. lens[i]
      BY <1>3, <2>4, <3>2 DEF n
    <3>4. at[i - 1] + k \in 1 .. Len(pairs)
      BY <2>6, <3>3
    <3>5. Of(at[i - 1] + k, i, k)
      BY <2>7, <3>3, <3>4
    <3>6. QED
      BY <3>2, <3>4, <3>5
  <2>11. ASSUME NEW p \in 1 .. Len(pairs), NEW q \in 1 .. Len(pairs),
                p < q, pairs[p].block = pairs[q].block
         PROVE  pairs[p].line < pairs[q].line
    <3>1. PICK i \in 1 .. n : \E k \in 1 .. lens[i] : Of(p, i, k)
      BY <2>8
    <3>2. PICK k \in 1 .. lens[i] : Of(p, i, k)
      BY <3>1
    <3>3. PICK j \in 1 .. n : \E l \in 1 .. lens[j] : Of(q, j, l)
      BY <2>8
    <3>4. PICK l \in 1 .. lens[j] : Of(q, j, l)
      BY <3>3
    <3>5. i # j
      <4> SUFFICES ASSUME i = j PROVE FALSE
        OBVIOUS
      <4>1. k \in 1 .. Len(Mentions(lines[i])) /\ l \in 1 .. Len(Mentions(lines[i]))
            /\ i \in 1 .. Len(lines)
        BY <1>3, <2>4 DEF n
      <4>2. Mentions(lines[i])[k] = Mentions(lines[i])[l]
        BY <2>11, <3>2, <3>4
      <4>3. k = l
        BY <4>1, <4>2, <1>0
      <4>4. QED
        BY <2>11, <3>2, <3>4, <4>3
    <3>6. ~ (j < i)
      <4> SUFFICES ASSUME j < i PROVE FALSE
        OBVIOUS
      <4>1. j \in 0 .. n /\ i - 1 \in 0 .. n /\ j - 1 \in 0 .. n /\ j <= i - 1
        BY <1>1 DEF n
      <4>2. at[j] <= at[i - 1] /\ at[j] = at[j - 1] + lens[j]
        BY <2>5, <4>1
      <4>3. at[j] \in Nat /\ at[i - 1] \in Nat /\ at[j - 1] \in Nat /\ lens[j] \in Nat
        BY <2>4, <2>5, <4>1
      <4>4. p = at[i - 1] + k /\ q = at[j - 1] + l
        BY <3>2, <3>4
      <4>5. k \in Nat /\ l \in Nat /\ l <= lens[j] /\ k >= 1
        BY <2>4
      <4> DEFINE a == at[i - 1]
                 b == at[j - 1]
                 c == lens[j]
      <4>6. a \in Nat /\ b \in Nat /\ c \in Nat /\ b + c <= a /\ l <= c /\ p = a + k /\ q = b + l
        BY <4>2, <4>3, <4>4, <4>5
      <4> HIDE DEF a, b, c
      <4>7. ~ (p < q)
        BY <4>5, <4>6
      <4>8. QED
        BY <2>11, <4>7
    <3>7. i < j
      BY <1>1, <3>5, <3>6 DEF n
    <3>8. QED
      BY <3>2, <3>4, <3>7
  <2>12. QED
    <3>1. pairs \in Seq(Pairs(lines))
      BY <2>3 DEF P
    <3>2. QED
      BY <1>2, <2>9, <2>10, <2>11, <3>1 DEF InOrder
<1>7. QED
  BY <1>5, <1>6

(* The numbers of the lines that mention a block.                           *)
LineNumbers(lines, block) ==
    LET M == Mentioning(lines, block) IN [k \in 1 .. Cardinality(M) |-> Nth(M, k)]

(* The lines of a block are a row of line numbers.                          *)
LEMMA LinesInARow ==
    ASSUME NEW R, \A r \in R : r.blocks \in Seq(STRING), NEW lines \in Seq(R), NEW b
    PROVE  LET M == Mentioning(lines, b)
               row == LineNumbers(lines, b)
           IN  /\ M \subseteq 1 .. Len(lines) /\ IsFiniteSet(M)
               /\ row = [k \in 1 .. Cardinality(M) |-> Nth(M, k)]
               /\ row \in Seq(1 .. Len(lines)) /\ Len(row) = Cardinality(M) /\ Len(row) \in Nat
               /\ \A k \in 1 .. Len(row) : row[k] \in M
               /\ \A k, l \in 1 .. Len(row) : k < l => row[k] < row[l]
               /\ M # {} => Len(row) # 0
<1> DEFINE n == Len(lines)
           M == Mentioning(lines, b)
           row == LineNumbers(lines, b)
<1>1. n \in Nat /\ DOMAIN lines = 1 .. n
  BY LenProperties
<1>2. M \subseteq 1 .. n /\ M = {i \in DOMAIN lines : b \in ToSet(lines[i].blocks)}
  BY <1>1 DEF Mentioning
<1>3. row = [k \in 1 .. Cardinality(M) |-> Nth(M, k)]
  BY DEF LineNumbers
<1> HIDE DEF M, row, n
<1>4. IsFiniteSet(M) /\ M \subseteq Int
  <2>1. IsFiniteSet(1 .. n)
    BY <1>1, FS_Interval
  <2>2. IsFiniteSet(M)
    BY <1>2, <2>1, FS_Subset
  <2>3. \A i \in M : i \in Int
    BY <1>1, <1>2
  <2>4. QED
    BY <2>2, <2>3
<1>5. /\ Cardinality(M) \in Nat
      /\ \A k \in 1 .. Cardinality(M) : Nth(M, k) \in M
      /\ \A k, l \in 1 .. Cardinality(M) : k < l => Nth(M, k) < Nth(M, l)
      /\ M # {} => Cardinality(M) # 0
  BY <1>4, Row, FS_CardinalityType, FS_EmptySet
<1>7. row \in Seq(1 .. n) /\ Len(row) = Cardinality(M)
  <2>1. \A k \in 1 .. Cardinality(M) : row[k] \in 1 .. n
    BY <1>2, <1>5, <1>3
  <2>2. row = [k \in 1 .. Cardinality(M) |-> row[k]] /\ Cardinality(M) \in Nat
    BY <1>5, <1>3
  <2> DEFINE m == Cardinality(M)
             V == 1 .. n
  <2>3. m \in Nat /\ row = [k \in 1 .. m |-> row[k]] /\ \A k \in 1 .. m : row[k] \in V
    BY <2>1, <2>2
  <2> HIDE DEF m, V
  <2>4. row \in Seq(V) /\ Len(row) = m
    BY <2>3
  <2>5. QED
    BY <2>4 DEF m, V
<1>8. QED
  BY <1>2, <1>4, <1>5, <1>3, <1>7 DEF M, row, n

(* Grouping leaves no trace.                                                *)
LEMMA GroupsAreTheirLines ==
    ASSUME NEW R, \A r \in R : r.blocks \in Seq(STRING), NEW lines \in Seq(R)
    PROVE  LET blocks == BlockOrder(lines)
           IN  /\ blocks \in Seq(STRING)
               /\ \A k, l \in 1 .. Len(blocks) : blocks[k] = blocks[l] => k = l
               /\ \A k \in 1 .. Len(blocks) : Mentioning(lines, blocks[k]) # {}
               /\ \A i \in 1 .. Len(lines) : \A b \in ToSet(lines[i].blocks) :
                    \E k \in 1 .. Len(blocks) : blocks[k] = b
               /\ \A k \in 1 .. Len(blocks) :
                    GroupByBlock(lines)[blocks[k]] = LineNumbers(lines, blocks[k])
<1> DEFINE pairs == AllPairs(lines)
           blocks == BlockOrder(lines)
           named == [p \in DOMAIN pairs |-> pairs[p].block]
<1>1. InOrder(pairs, lines)
  BY PairsInOrder
<1>2. blocks = Distinct(named)
  BY DEF BlockOrder
<1>3. GroupByBlock(lines)
        = [b \in ToSet(blocks) |->
              LET mine == Pick(pairs, {k \in DOMAIN pairs : pairs[k].block = b})
              IN  [k \in DOMAIN mine |-> mine[k].line]]
  BY DEF GroupByBlock
<1> HIDE DEF pairs, blocks
<1>4. /\ pairs \in Seq(Pairs(lines)) /\ Len(pairs) \in Nat /\ DOMAIN pairs = 1 .. Len(pairs)
      /\ \A p \in 1 .. Len(pairs) : pairs[p].block \in STRING /\ pairs[p].line \in 1 .. Len(lines)
  <2>1. pairs \in Seq(Pairs(lines))
    BY <1>1 DEF InOrder
  <2>2. \A p \in 1 .. Len(pairs) : pairs[p] \in Pairs(lines)
    BY <2>1, ElementOfSeq
  <2>3. QED
    BY <2>1, <2>2, LenProperties DEF Pairs
<1>5. named \in Seq(STRING) /\ Len(named) = Len(pairs)
      /\ \A p \in 1 .. Len(pairs) : named[p] = pairs[p].block
  BY <1>4
<1> HIDE DEF named
<1>6. /\ blocks \in Seq(STRING)
      /\ \A k \in 1 .. Len(blocks) : \E p \in 1 .. Len(named) : blocks[k] = named[p]
      /\ \A p \in 1 .. Len(named) : \E k \in 1 .. Len(blocks) : blocks[k] = named[p]
      /\ \A k, l \in 1 .. Len(blocks) : blocks[k] = blocks[l] => k = l
  <2>1. named \in Seq(STRING)
    BY <1>5
  <2>2. /\ Distinct(named) \in Seq(STRING)
        /\ \A k \in 1 .. Len(Distinct(named)) :
             \E p \in 1 .. Len(named) : Distinct(named)[k] = named[p]
        /\ \A p \in 1 .. Len(named) :
             \E k \in 1 .. Len(Distinct(named)) : Distinct(named)[k] = named[p]
        /\ \A k, l \in 1 .. Len(Distinct(named)) :
             Distinct(named)[k] = Distinct(named)[l] => k = l
    BY <2>1, DifferentOnes
  <2>3. QED
    BY <1>2, <2>2
<1>7. ASSUME NEW k \in 1 .. Len(blocks)
      PROVE  Mentioning(lines, blocks[k]) # {}
  <2>1. PICK p \in 1 .. Len(pairs) : blocks[k] = pairs[p].block
    BY <1>5, <1>6
  <2>2. pairs[p].line \in Mentioning(lines, pairs[p].block)
    BY <1>1 DEF InOrder
  <2>3. QED
    BY <2>1, <2>2
<1>8. ASSUME NEW i \in 1 .. Len(lines), NEW b \in ToSet(lines[i].blocks)
      PROVE  \E k \in 1 .. Len(blocks) : blocks[k] = b
  <2>1. PICK p \in 1 .. Len(pairs) : pairs[p].block = b /\ pairs[p].line = i
    BY <1>1 DEF InOrder
  <2>2. \A q \in 1 .. Len(named) : \E k \in 1 .. Len(blocks) : blocks[k] = named[q]
    BY <1>6
  <2>3. QED
    BY <1>5, <2>1, <2>2
<1>9. ASSUME NEW k \in 1 .. Len(blocks)
      PROVE  GroupByBlock(lines)[blocks[k]] = LineNumbers(lines, blocks[k])
  <2> DEFINE b == blocks[k]
             S == {p \in DOMAIN pairs : pairs[p].block = b}
             c == Cardinality(S)
             mine == Pick(pairs, S)
             group == [l \in DOMAIN mine |-> mine[l].line]
             M == Mentioning(lines, b)
  <2>1. GroupByBlock(lines)[b] = group
    <3>1. b \in ToSet(blocks)
      <4>1. DOMAIN blocks = 1 .. Len(blocks)
        BY <1>6, LenProperties
      <4>2. QED
        BY <4>1 DEF ToSet
    <3>2. QED
      BY <1>3, <3>1
  <2> HIDE DEF b
  <2>2. /\ S \subseteq DOMAIN pairs
        /\ \A p \in S : pairs[p].block = b
        /\ \A p \in DOMAIN pairs : pairs[p].block = b => p \in S
    OBVIOUS
  <2> HIDE DEF S
  <2>3. /\ c \in Nat
        /\ mine \in Seq(Pairs(lines)) /\ Len(mine) = c
        /\ \A l \in 1 .. c : Nth(S, l) \in S /\ mine[l] = pairs[Nth(S, l)]
        /\ \A p \in S : \E l \in 1 .. c : Nth(S, l) = p
        /\ \A l, m \in 1 .. c : l < m => Nth(S, l) < Nth(S, m)
    <3>1. c \in 0 .. Len(pairs)
      BY <1>4, <2>2, Picked
    <3>2. QED
      BY <1>4, <2>2, <3>1, Picked
  <2> HIDE DEF mine, c
  <2>4. group = [l \in 1 .. c |-> pairs[Nth(S, l)].line]
    <3>1. DOMAIN mine = 1 .. c
      BY <2>3, LenProperties
    <3>2. QED
      BY <2>3, <3>1
  <2> HIDE DEF group
  <2>5. \A l \in 1 .. c : Nth(S, l) \in 1 .. Len(pairs) /\ pairs[Nth(S, l)].block = b
    BY <1>4, <2>2, <2>3
  <2>6. group \in [1 .. c -> M]
    <3>1. \A l \in 1 .. c : pairs[Nth(S, l)].line \in M
      BY <1>1, <2>5 DEF InOrder
    <3>2. QED
      BY <2>4, <3>1
  <2>7. \A l, m \in 1 .. c : l < m => group[l] < group[m]
    <3> SUFFICES ASSUME NEW l \in 1 .. c, NEW m \in 1 .. c, l < m
                 PROVE  group[l] < group[m]
      OBVIOUS
    <3> DEFINE p == Nth(S, l)
               q == Nth(S, m)
    <3>1. p \in 1 .. Len(pairs) /\ q \in 1 .. Len(pairs) /\ p < q /\ pairs[p].block = pairs[q].block
      BY <2>3, <2>5
    <3>2. group[l] = pairs[p].line /\ group[m] = pairs[q].line
      BY <2>4
    <3> HIDE DEF p, q
    <3>3. pairs[p].line < pairs[q].line
      BY <1>1, <3>1 DEF InOrder
    <3>4. QED
      BY <3>2, <3>3
  <2>8. ASSUME NEW i \in M PROVE \E l \in 1 .. c : group[l] = i
    <3>1. i \in 1 .. Len(lines) /\ b \in ToSet(lines[i].blocks)
      BY LenProperties DEF Mentioning
    <3>2. PICK p \in 1 .. Len(pairs) : pairs[p].block = b /\ pairs[p].line = i
      BY <1>1, <3>1 DEF InOrder
    <3>3. p \in S
      <4>1. p \in DOMAIN pairs
        BY <1>4
      <4>2. QED
        BY <2>2, <3>2, <4>1
    <3>4. \A q \in S : \E l \in 1 .. c : Nth(S, l) = q
      BY <2>3
    <3>5. PICK l \in 1 .. c : Nth(S, l) = p
      BY <3>3, <3>4
    <3>6. QED
      BY <2>4, <3>2, <3>5
  <2>9. M \subseteq 1 .. Len(lines) /\ LineNumbers(lines, b) = [l \in 1 .. Cardinality(M) |-> Nth(M, l)]
    BY LinesInARow
  <2> HIDE DEF M
  <2>10. M \subseteq Int
    <3>1. \A i \in M : i \in Int
      BY <2>9, LenProperties
    <3>2. QED
      BY <3>1
  <2>11. Cardinality(M) = c /\ \A l \in 1 .. c : group[l] = Nth(M, l)
    <3>1. c \in Nat
      BY <2>3
    <3>2. \A i \in M : \E l \in 1 .. c : group[l] = i
      BY <2>8
    <3>3. QED
      BY <2>6, <2>7, <2>10, <3>1, <3>2, OneRow
  <2>12. group = LineNumbers(lines, b)
    BY <2>6, <2>9, <2>11
  <2>13. QED
    BY <2>1, <2>12 DEF b
<1>10. QED
  BY <1>6, <1>7, <1>8, <1>9 DEF blocks
=============================================================================
