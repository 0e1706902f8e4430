-------------------------- MODULE MCBaseLmmPipeline --------------------------
(* Instances of BaseLmmPipeline: the sequences of calls its manager makes. *)
EXTENDS BaseLmmPipeline

ScriptRestart == <<"start", "stop", "start", "stop">>
=============================================================================
