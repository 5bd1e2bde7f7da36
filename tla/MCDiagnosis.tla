---------------------------- MODULE MCDiagnosis ----------------------------
(***************************************************************************)
(* Four entries, two of which tie for a line; a text of one line, the      *)
(* context of a long block, one with more lines than are asked for, and    *)
(* one in which nothing is left to ask for but the text itself.            *)
(***************************************************************************)
EXTENDS Diagnosis

Event(id) == [kind |-> "event", id |-> id]
Omitted == [kind |-> "omitted", id |-> 0]
Blank == [kind |-> "blank", id |-> 0]
MCWhole == [kind |-> "whole", id |-> 0]

MCTexts == {
    <<Event(1)>>,
    <<Event(1), Omitted, Event(2)>>,
    <<Blank, Event(3), Event(1), Event(2)>>,
    <<Omitted>>}

(* Up to 5 is near enough.                                                  *)
MCDistance(q, t) ==
    CASE q = Event(1) -> <<2, 6, 7, 3>>[t + 1]
      [] q = Event(2) -> <<3, 6, 1, 6>>[t + 1]
      [] q = Event(3) -> <<6, 1, 4, 4>>[t + 1]
      [] OTHER -> <<7, 5, 6, 5>>[t + 1]

MCLogPaths(line) == IF line = Event(1) THEN {"p1"} ELSE {}
MCKbPaths(t) == IF t = 2 THEN {"p2"} ELSE {}

Token(kind) == [kind |-> kind, path |-> "none"]
Path(p) == [kind |-> "path", path |-> p]

MCFixes == {
    NotText,
    <<Token("word"), Path("p1"), Path("p2")>>,
    <<Token("command"), Path("p1"), Token("break"), Path("p2"), Token("word")>>}
=============================================================================
