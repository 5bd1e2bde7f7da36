---------------------------- MODULE MCExperiments ----------------------------
(***************************************************************************)
(* Blocks a1 and a2 are anomalous, n1, n2, n3, n4 normal, x has no label.  *)
(***************************************************************************)
EXTENDS Experiments

Line(blocks, template) == [blocks |-> blocks, template |-> template, parsed |-> TRUE]
Broken(blocks) == [blocks |-> blocks, template |-> "k1", parsed |-> FALSE]

MCLabels ==
    [b \in {"a1", "a2", "n1", "n2", "n3", "n4"} |-> b \in {"a1", "a2"}]

(* Two normal sessions that are alike, those of n1 and n2, and two that are *)
(* not, lines of several blocks, lines of blocks that come too late for the *)
(* limit; and a log without anomalies.                                      *)
MCTrainingLogs == {
    <<Line(<<"n1", "n4">>, "k1"), Line(<<"a1", "n2">>, "k1"), Broken(<<"n1">>), Line(<<"x">>, "k3"),
      Line(<<"n3">>, "k2"), Line(<<"n1", "n4", "n2">>, "k2"), Line(<<"n1", "n2", "n1">>, "k2")>>,
    <<Line(<<"n3", "n2">>, "k2"), Line(<<"n1">>, "k1"), Line(<<"n2">>, "k3")>>}

MCShuffled(blocks) == SelectSeq(<<"n2", "n1", "n4", "n3">>, LAMBDA b : b \in blocks)

MCSplits == {[train |-> 3, val |-> 1, of |-> 4], [train |-> 1, val |-> 1, of |-> 2]}

(* a1 comes up after a2, n2 has lost its only line.                         *)
MCEvalLog ==
    <<Line(<<"a2">>, "k1"), Line(<<"n1", "a1">>, "k2"), Broken(<<"n2">>), Line(<<"n3">>, "k1")>>

MCSampled(s) == IF s = 7 THEN {"a1", "a2", "n1"} ELSE {"a1", "n2"}

MCGoldenCases == <<FALSE, TRUE, FALSE, TRUE>>
=============================================================================
