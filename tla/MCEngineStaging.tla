--------------------------- MODULE MCEngineStaging ---------------------------
(* A small instance of EngineStaging: see README.md, run engine_staging.   *)
EXTENDS EngineStaging
=============================================================================
