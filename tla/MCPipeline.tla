----------------------------- MODULE MCPipeline -----------------------------
(***************************************************************************)
(* The seed pipeline for TLC: the run over its exporter and, beside it,    *)
(* the generator it calls.  While a generator works nothing else moves, so *)
(* one of the two is looked at, and the other stays at its beginning.      *)
(***************************************************************************)
EXTENDS MCSeedRun, Generation

\* Windows from one too small to use to one with room for everything.
SomeSizes == {1, 2, 3, 4, 7}
FewTokens == [brewery |-> 3, user |-> 2]

\* The run is looked at beside one of the generators it may start with.
TheRunIsOn == asked = 0 /\ backend = "openai" /\ n_ctx = 1

PipelineInit == RunInit /\ GenerationInit

PipelineNext ==
    \/ TheRunIsOn /\ RunNext /\ UNCHANGED genVars
    \/ phase = "starting" /\ GenerationNext /\ UNCHANGED allVars

PipelineSpec == PipelineInit /\ [][PipelineNext]_<<allVars, genVars>>
=============================================================================
