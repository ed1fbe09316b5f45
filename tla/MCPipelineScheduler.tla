------------------------ MODULE MCPipelineScheduler ------------------------
(* The instances of PipelineScheduler that TLC checks.  Sources are          *)
(* interchangeable: ties between their dates are broken arbitrarily.         *)
EXTENDS PipelineScheduler, TLC

Interchangeable == Permutations(Sources) \cup Permutations(Dispatchers)
=============================================================================
