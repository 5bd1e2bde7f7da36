------------------------------ MODULE MCPipeline ------------------------------
(***************************************************************************)
(* Pipeline for TLC: a file of one line and a file of two, the second      *)
(* upload, if there is one, being of the first.                            *)
(***************************************************************************)
EXTENDS Pipeline

CONSTANTS t1, t2

MCTraceIds == {t1, t2}
MCBatches == {<<t1>>, <<t1, t2>>}
MCEntries == 1 .. MaxUploads

Reuploaded == upload = 2 => batch \in {<<>>, <<t1>>}

MCSpec ==
    /\ PipelineInit
    /\ [][PipelineNext /\ Reuploaded']_pipelineVars
    /\ PipelineFairness
=============================================================================
