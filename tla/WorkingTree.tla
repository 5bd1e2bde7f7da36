------------------------------ MODULE WorkingTree ------------------------------
(***************************************************************************)
(* What the offline programs share: the labels of the blocks, and files    *)
(* that are missing, broken off in the middle, or whole.                   *)
(***************************************************************************)
EXTENDS SequenceParsing

CONSTANTS
    Labels,     \* anomaly_label.csv: of a block, whether it is anomalous
    Nothing,    \* a file that is missing; also, of a program, that it does not run
    Torn        \* a file that broke off

ASSUME LabelsAssumption == Labels \in [DOMAIN Labels -> BOOLEAN]

(* Those among the labelled blocks that are anomalous, or that are not.     *)
Labelled(blocks, anomalous) == {b \in blocks \cap DOMAIN Labels : Labels[b] = anomalous}
=============================================================================
