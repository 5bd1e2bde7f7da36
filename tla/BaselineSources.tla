--------------------------- MODULE BaselineSources ---------------------------
(***************************************************************************)
(* Baseline, with the memory of what came in by /upload/baseline.          *)
(***************************************************************************)
EXTENDS Baseline

VARIABLE
    given       \* history: the templates of all lines /upload/baseline was given

sourcesVars == <<vars, given>>

SourcesInit == Init /\ given = {}

SourcesNext ==
    \/ \E file \in SUBSET Templates : UploadBaseline(file) /\ given' = given \cup file
    \/ \E file \in SUBSET Templates : UploadLogs(file) /\ UNCHANGED given
    \/ (Background \/ AnalysisNext \/ Replaced) /\ UNCHANGED given

SourcesSpec == SourcesInit /\ [][SourcesNext]_sourcesVars

(* README.md:68-71: anomalies are measured against a fixed reference, which *)
(* /upload/baseline recreates from scratch and /upload/logs does not touch: *)
(* it holds nothing but what /upload/baseline was given.                    *)
BaselineIsWhatWasUploaded == Exists => Found \subseteq given
=============================================================================
