-------------------------- MODULE MCReportDelivery --------------------------
(***************************************************************************)
(* Instances of ReportDelivery for TLC.                                    *)
(***************************************************************************)
EXTENDS ReportDelivery, TLC

CONSTANTS p, q, mail, post, fax

\* p has two recipients, the record of q names its recipient twice
DuplicateRuas == p :> <<mail, fax>> @@ q :> <<post, post>>

\* two reports, one of them of a malformed record
OneMalformed == p :> <<mail>> @@ q :> <<>>
=============================================================================
