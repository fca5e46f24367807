------------------------- MODULE MCCommandPipeline -------------------------
(* Model-checking instances of CommandPipeline.                            *)
EXTENDS CommandPipeline

=============================================================================
