---------------------------- MODULE MCBatchPipeline ----------------------------
(***************************************************************************)
(* A batch for TLC: sizes in units of the parser's estimate.               *)
(***************************************************************************)
EXTENDS BatchPipeline

\* Largest first: the first demo does not fit beside another one even in
\* plenty of memory.
MCAnalysisNeed == [j \in Jobs |-> IF j = 1 THEN 6 ELSE 2]
=============================================================================
