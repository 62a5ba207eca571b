--------------------------- MODULE DeliveryPromise ---------------------------
(***************************************************************************)
(* What the recipients of reports can rely on: a report is owed to all the *)
(* destinations of its TLSRPT record at once, each is decided exactly once *)
(* until the report is forgotten, and only a delivered one counts as sent. *)
(* A copy may arrive late or twice, but never of a report that is not owed.*)
(***************************************************************************)
EXTENDS Naturals

CONSTANTS
    Reports,
    Destinations,
    Addressed  \* [Reports -> SUBSET Destinations]

VARIABLES outcome, copies

Keys == Reports \X Destinations
KeysOf(rep) == {rep} \X Addressed[rep]

Init ==
    /\ outcome = [k \in Keys |-> "none"]
    /\ copies = [k \in Keys |-> 0]

Publish(rep) ==
    /\ \A k \in Keys : k[1] = rep => outcome[k] = "none"
    /\ outcome' = [k \in Keys |-> IF k \in KeysOf(rep) THEN "owed" ELSE outcome[k]]
    /\ UNCHANGED copies

Deliver(k) ==
    /\ outcome[k] # "none"
    /\ copies' = [copies EXCEPT ![k] = @ + 1]
    /\ UNCHANGED outcome

Decide(k, verdict) ==
    /\ outcome[k] = "owed"
    /\ verdict = "sent" => copies[k] > 0
    /\ outcome' = [outcome EXCEPT ![k] = verdict]
    /\ UNCHANGED copies

Forget(reps) ==
    /\ outcome' = [k \in Keys |-> IF k[1] \in reps THEN "forgotten" ELSE outcome[k]]
    /\ UNCHANGED copies

Next ==
    \/ \E rep \in Reports : Publish(rep)
    \/ \E k \in Keys : Deliver(k)
    \/ \E k \in Keys, verdict \in {"sent", "unknownrua", "timedout"} : Decide(k, verdict)
    \/ \E reps \in SUBSET Reports : Forget(reps)

Spec == Init /\ [][Next]_<<outcome, copies>>
=============================================================================
