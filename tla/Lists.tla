--------------------------------- MODULE Lists ---------------------------------
(***************************************************************************)
(* What Python's filtered lists, sorting and running sums give, in the     *)
(* form of functions that proofs can look into.                            *)
(***************************************************************************)
EXTENDS Integers, FiniteSets, SequencesExt

(* The k-th of the numbers in S.                                           *)
Nth(S, k) == CHOOSE i \in S : Cardinality({j \in S : j <= i}) = k

(* [s[i] for i in S], for positions S.                                      *)
Pick(s, S) == [k \in 1 .. Cardinality(S) |-> s[Nth(S, k)]]

(* dict.fromkeys: each element once, in the order of the first ones.        *)
Distinct(s) == Pick(s, {i \in DOMAIN s : \A j \in 1 .. i - 1 : s[j] # s[i]})

(* sorted(s).                                                               *)
Sorted(s) ==
    LET before(i, j) == s[i] < s[j] \/ (s[i] = s[j] /\ i < j)
        place(j) == Cardinality({i \in DOMAIN s : before(i, j)}) + 1
    IN  [k \in DOMAIN s |-> s[CHOOSE j \in DOMAIN s : place(j) = k]]

(* The sums of the first 0, 1, ... numbers of s.                            *)
Sums(s) ==
    LET sum[k \in 0 .. Len(s)] == IF k = 0 THEN 0 ELSE sum[k - 1] + s[k] IN sum
=============================================================================
