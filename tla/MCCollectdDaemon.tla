-------------------------- MODULE MCCollectdDaemon --------------------------
(***************************************************************************)
(* Instances of CollectdDaemon for TLC.                                    *)
(***************************************************************************)
EXTENDS CollectdDaemon, TLC

CONSTANTS good, flawed, hollow, odd, noise

\* a sound datagram, one whose second policy is broken, one that has none, one
\* that is JSON but no datagram, and one that is no JSON
MCPolicies ==
    good :> <<TRUE>> @@ flawed :> <<TRUE, FALSE, TRUE>>
        @@ hollow :> <<>> @@ odd :> <<>> @@ noise :> <<>>

OnePolicy == good :> <<TRUE>>

TwoSQLite == <<"sqlite", "sqlite">>
SQLiteDummySQLite == <<"sqlite", "dummy", "sqlite">>
=============================================================================
