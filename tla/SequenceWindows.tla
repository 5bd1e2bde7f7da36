--------------------------- MODULE SequenceWindows ---------------------------
(***************************************************************************)
(* libs/logsage_common/sequence_anomaly.py: what training and serving do   *)
(* to a session before the network sees it - the templates of the training *)
(* sessions become tokens, and a window slides over them.                  *)
(***************************************************************************)
EXTENDS SequenceParsing

CONSTANT
    Window              \* how many events the network looks back

ASSUME WindowAssumption == Window \in Nat \ {0}

PAD == 0
END == 1
UNK == 2
OFFSET == 3

-----------------------------------------------------------------------------
Tokens(vocabulary) == 0 .. OFFSET + Cardinality(vocabulary) - 1

Token(vocabulary, template) ==
    IF template \in vocabulary
      THEN OFFSET + Cardinality({v \in vocabulary : v < template})
      ELSE UNK

Encode(vocabulary, session) == Append([i \in DOMAIN session |-> Token(vocabulary, session[i])], END)

(* One window per event and for the end.                                    *)
Windows(vocabulary, session) ==
    LET tokens == Encode(vocabulary, session)
        padded == [i \in 1 .. Window |-> PAD] \o tokens
    IN  [i \in DOMAIN tokens |->
            [context |-> SubSeq(padded, i, i + Window - 1), target |-> tokens[i]]]
=============================================================================
