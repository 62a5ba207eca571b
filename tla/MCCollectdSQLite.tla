-------------------------- MODULE MCCollectdSQLite --------------------------
(***************************************************************************)
(* Instances of CollectdSQLite for TLC.  All parameters are numbers and    *)
(* switches, given by the configurations; nothing here is symmetric.       *)
(***************************************************************************)
EXTENDS CollectdSQLite
=============================================================================
