------------------------------ MODULE MCPipeline ------------------------------
(***************************************************************************)
(* Instance of Pipeline for TLC.                                           *)
(***************************************************************************)
EXTENDS Pipeline
=============================================================================
