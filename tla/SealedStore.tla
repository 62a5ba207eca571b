------------------------------ MODULE SealedStore ------------------------------
(***************************************************************************)
(* What a storage of tlsrpt-collectd promises to those who fetch from it:  *)
(* a day is sealed once, when it is over, and after every day sealed before *)
(* it; from then on its counts are all that was counted, and never change. *)
(* Sealed days are published together, as one file, and the file is deleted *)
(* only when newer sealed days wait to take its place.  CollectdSQLite     *)
(* implements it for a process that sees every date.                       *)
(***************************************************************************)
EXTENDS Naturals

CONSTANT Dates

VARIABLES
    count,  \* what was counted for each day, but for what a rollback took away
    next,   \* the sealed days that are not published yet
    file,   \* the ".yesterday" file: a function on the days it declares
    floor   \* the first day that may still be counted for

storeVars == <<count, next, file, floor>>

NoFile == [d \in {} |-> 0]
DaysPass == floor' \in Dates /\ floor' >= floor

Collect ==
    /\ \E d \in Dates, n \in {0, 1} :
           d >= floor /\ count' = [count EXCEPT ![d] = @ + n]
    /\ DaysPass
    /\ UNCHANGED <<next, file>>

\* A crash or a full disk: never at the expense of what is sealed.  Nothing at
\* all may be lost.
Lose ==
    /\ count' \in [Dates -> Nat]
    /\ \A d \in Dates : count'[d] <= count[d]
    /\ \A d \in next \cup DOMAIN file : count'[d] = count[d]
    /\ DaysPass
    /\ UNCHANGED <<next, file>>

Seal ==
    /\ \E days \in SUBSET Dates :
           /\ \A d \in days : d < floor /\ \A e \in next \cup DOMAIN file : e < d
           /\ next' = next \cup days
    /\ UNCHANGED <<count, file, floor>>

Drop ==
    /\ next # {}
    /\ file' = NoFile
    /\ UNCHANGED <<count, next, floor>>

Publish ==
    /\ file = NoFile /\ next # {}
    /\ file' = [d \in next |-> count[d]]
    /\ next' = {}
    /\ UNCHANGED <<count, floor>>

Init ==
    /\ count = [d \in Dates |-> 0]
    /\ next = {}
    /\ file = NoFile
    /\ floor \in Dates

Next == Collect \/ Lose \/ Seal \/ Drop \/ Publish

Spec == Init /\ [][Next]_storeVars
=============================================================================
