------------------------------ MODULE MCReportd ------------------------------
(***************************************************************************)
(* Instances of Reportd for TLC: two fetchers that overlap in one domain   *)
(* and one record, so that a report may have to sum two fetchers and a     *)
(* domain may need two reports.                                            *)
(***************************************************************************)
EXTENDS Reportd, TLC

CONSTANTS f1, f2, a, b, rec1, rec2

MCTraffic ==
    [f \in {f1, f2} |->
        IF f = f1 THEN (a :> {rec1, rec2} @@ b :> {rec2}) ELSE (a :> {rec2} @@ b :> {})]

\* one fetcher, one domain, for the questions about a single conversation
SmallTraffic == [f \in {f1} |-> [dom \in {a} |-> {rec1}]]
=============================================================================
