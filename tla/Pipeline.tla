------------------------------- MODULE Pipeline -------------------------------
(***************************************************************************)
(* From the collectds to the reports: the tlsrpt-reportd of module Reportd *)
(* with a storage behind each of its fetchers.  A storage is what          *)
(* SealedStore promises, for one domain and one TLSRPT record: the number  *)
(* of sessions of a day is settled when the day is sealed.                 *)
(*                                                                         *)
(* Between Reportd and a storage there is the fetcher only.  It announces  *)
(* the first day that the ".yesterday" file declares: a file has two after *)
(* a rollover that was cut short between the commit of daystatus and the   *)
(* rename.  Without a file it prints nothing.                              *)
(*                                                                         *)
(* Here reportd runs without an end; Reportd has its stops and crashes.    *)
(***************************************************************************)
EXTENDS Integers, FiniteSets, FiniteSetsExt

CONSTANTS
    Fetchers,    \* the fetcher commands of option fetchers
    Sessions,    \* bound: the numbers of sessions a day may have
    KeepDays, MaxRetries, LastDate, MaxStarts,   \* of Reportd
    MaxMishaps   \* bound: rollovers that are missed or cut short

ASSUME SessionsAssumption == Sessions \subseteq Nat \ {0} /\ MaxMishaps \in Nat
ASSUME ReportdOptions ==
    /\ KeepDays \in Nat /\ MaxRetries \in Nat
    /\ LastDate \in Nat \ {0} /\ MaxStarts \in Nat

Days == 0 .. LastDate
Domain == "domain"
Record == "record"

VARIABLES
    date, pc, todo, cur, save, read, view, db, made, starts,   \* of Reportd
    floor,     \* the day each storage collects
    declared,  \* the days it has declared complete and not yet moved away
    file,      \* its ".yesterday" file: the sessions of the days it declares
    sealed,    \* history: the sessions of each sealed day
    mishaps,   \* rollovers that were missed or cut short
    data,      \* reportdata: the sessions in column data of each row
    sums       \* history: the sessions in the report of each day

reportdVars == <<date, pc, todo, cur, save, read, view, db, made, starts>>
stores == <<floor, declared, file, sealed, mishaps>>
vars == <<reportdVars, stores, data, sums>>

NoFile == [d \in {} |-> 0]

Total(n) == MapThenSumSet(LAMBDA f : n[f], DOMAIN n)

\* fetch_domain_list prints the first row of daystatus.
Announced(f) == IF file[f] = NoFile THEN -1 ELSE Min(DOMAIN file[f])

R == INSTANCE Reportd WITH
    Domains <- {Domain}, Records <- {Record},
    Traffic <- [f \in Fetchers |-> [dom \in {Domain} |-> {Record}]],
    Crashes <- FALSE, Garbage <- FALSE, Hangs <- FALSE, CutShort <- Fetchers,
    avail <- [f \in Fetchers |-> Announced(f)]

Rows == Days \X Fetchers \X {Domain}

-----------------------------------------------------------------------------
(* The storages.                                                           *)

Apart(action) == UNCHANGED <<stores, data, sums>> /\ action

Behind(f) == floor[f] < date

\* switch_to_next_day: the day is declared, which a commit makes last ...
Declare(f) ==
    /\ Behind(f) /\ floor[f] \notin declared[f]
    /\ declared' = [declared EXCEPT ![f] = @ \cup {floor[f]}]
    /\ UNCHANGED <<reportdVars, floor, file, sealed, mishaps, data, sums>>

\* ... the old file is deleted, if there is one ...
Unlink(f) ==
    /\ Behind(f) /\ floor[f] \in declared[f]
    /\ file[f] # NoFile
    /\ file' = [file EXCEPT ![f] = NoFile]
    /\ UNCHANGED <<reportdVars, floor, declared, sealed, mishaps, data, sums>>

\* ... and the live database takes its place, with all days it has declared.
Rename(f) ==
    /\ Behind(f) /\ floor[f] \in declared[f] /\ file[f] = NoFile
    /\ \E n \in [declared[f] -> Sessions] :
         /\ \A d \in declared[f] : sealed[f][d] # 0 => n[d] = sealed[f][d]
         /\ file' = [file EXCEPT ![f] = n]
         /\ sealed' = [sealed EXCEPT ![f] = [d \in Days |-> IF d \in DOMAIN n THEN n[d] ELSE @[d]]]
    /\ declared' = [declared EXCEPT ![f] = {}]
    /\ floor' = [floor EXCEPT ![f] = date]
    /\ UNCHANGED <<reportdVars, mishaps, data, sums>>

\* A collectd that was down at midnight, or died at any step of the rollover,
\* starts again with the date of the new day: it never renames for the old one.
\* (Bound: a file that is missing is replaced within the days of the model.)
StartLate(f) ==
    /\ Behind(f) /\ (file[f] = NoFile => date < LastDate)
    /\ mishaps < MaxMishaps /\ mishaps' = mishaps + 1
    /\ floor' = [floor EXCEPT ![f] = date]
    /\ UNCHANGED <<reportdVars, declared, file, sealed, data, sums>>

\* A storage has reacted to one midnight before the next one.
Midnight ==
    /\ \A f \in Fetchers : ~Behind(f)
    /\ Apart(R!Midnight)

-----------------------------------------------------------------------------
(* tlsrpt-reportd.                                                         *)

\* faulty: the details are not restricted to the day
StoredOnAllDays(r) == MapThenSumSet(LAMBDA d : file[r[2]][d], DOMAIN file[r[2]])

\* what fetch_domain_details finds in the file
Stored(r) == file[r[2]][r[1]]

\* Details come out of the file as it is when they are asked for.
Fetches ==
    data' = [r \in Rows |-> IF view'.rows[r] # "full" THEN 0
                            ELSE IF view.rows[r] = "full" THEN data[r] ELSE Stored(r)]

\* The report of a day sums the rows that have data.
Sums ==
    sums' = [d \in Days |->
        IF R!ReportsOf(db, <<d, Domain>>) = {} /\ R!ReportsOf(db', <<d, Domain>>) # {}
        THEN LET rep == CHOOSE rep \in R!ReportsOf(db', <<d, Domain>>) : TRUE
             IN Total([f \in rep.parts |-> data[<<d, f, Domain>>]])
        ELSE sums[d]]

Reporting ==
    /\ UNCHANGED stores
    /\ R!RunLoop
    /\ Fetches
    /\ Sums

\* reportd starts in a running system: some collectds may have died in the last
\* rollover, after the commit of daystatus, and have been started again.
Init ==
    /\ floor = [f \in Fetchers |-> 1]
    /\ \E late \in SUBSET Fetchers :
         /\ declared = [f \in Fetchers |-> IF f \in late THEN {0} ELSE {}]
         /\ file = [f \in Fetchers |-> IF f \in late THEN NoFile ELSE [d \in {0} |-> 1]]
         /\ sealed = [f \in Fetchers |-> [d \in Days |-> IF d = 0 /\ f \notin late THEN 1 ELSE 0]]
         /\ mishaps = Cardinality(late) /\ mishaps <= MaxMishaps
    /\ data = [r \in Rows |-> 0]
    /\ sums = [d \in Days |-> 0]
    /\ R!Fresh

Next ==
    \/ Reporting \/ Midnight
    \/ Apart(R!WakeUp) \/ Apart(R!Start) \/ Apart(R!TimePasses)
    \/ \E f \in Fetchers : Declare(f) \/ Unlink(f) \/ Rename(f) \/ StartLate(f)

Spec == Init /\ [][Next]_vars

\* As in Reportd; the days go on, and the collectds with them; and a fetcher
\* that is asked for details again and again answers at last: nothing else would
\* end the questions.
FairSpec ==
    /\ Spec
    /\ WF_vars(\/ Midnight
               \/ \E f \in Fetchers : Declare(f) \/ Unlink(f) \/ Rename(f) \/ StartLate(f))
    /\ SF_vars(Reporting /\ \E r \in Rows : R!FetchDetails(r))
    /\ WF_vars(Reporting) /\ WF_vars(Apart(R!WakeUp)) /\ SF_vars(Apart(R!TimePasses))

-----------------------------------------------------------------------------
(* Properties.                                                             *)

Parts(d) == UNION {rep.parts : rep \in R!ReportsOf(db, <<d, Domain>>)}

\* A report says what the collectds counted: it sums the sessions that were
\* sealed, of the fetchers that contribute, whatever became of their files.
ReportsAreExact ==
    \A d \in Days :
        Parts(d) # {} => sums[d] = Total([f \in Parts(d) |-> sealed[f][d]])

\* A fetcher that had sealed the day is left out of its report only when its
\* list was given up or its details were asked for too late.
NobodyForgotten ==
    \A d \in Days : Parts(d) # {} =>
        \A f \in Fetchers \ Parts(d) :
            \/ db.jobs[<<d, f>>].status = "timedout"
            \/ db.rows[<<d, f, Domain>>] = "void"

\* Sealed sessions are reported at last once reportd has a job for them, or
\* their list was given up, or their details were asked for too late; and so
\* it stays.
SessionsReported ==
    <>[](\A d \in Days, f \in Fetchers :
             sealed[f][d] # 0 /\ db.jobs[<<d, f>>].status # "absent" =>
                 \/ f \in Parts(d)
                 \/ db.jobs[<<d, f>>].status = "timedout"
                 \/ db.rows[<<d, f, Domain>>] = "void")
-----------------------------------------------------------------------------
(* The inductive invariant behind the safety properties.  With it, that of *)
(* Reportd holds, whose fetchers offer what the files announce.            *)

Settled(f, d) == sealed[f][d] # 0

\* A file declares days that are over, with the sessions they were sealed with.
Files ==
    /\ date \in 1 .. LastDate
    /\ floor \in [Fetchers -> 1 .. date]
    /\ declared \in [Fetchers -> SUBSET (0 .. date - 1)]
    /\ sealed \in [Fetchers -> [Days -> Nat]]
    /\ DOMAIN file = Fetchers
    /\ \A f \in Fetchers : file[f] # NoFile =>
           /\ DOMAIN file[f] \subseteq 0 .. floor[f] - 1 /\ DOMAIN file[f] # {}
           /\ \A d \in DOMAIN file[f] : file[f][d] = sealed[f][d] /\ Settled(f, d)

\* The details in the database are those of the day, once and for all.
Details ==
    \A r \in Rows : view.rows[r] = "full" =>
        data[r] = sealed[r[2]][r[1]] /\ Settled(r[2], r[1])

\* What collect_domains commits brings no reports.
NoneRendered ==
    /\ pc \in {"collect", "list", "mark"} => view.reports \subseteq db.reports
    /\ pc \notin {"hung", "exit"}

Summed ==
    /\ DOMAIN sums = Days
    /\ \A rep \in db.reports :
           /\ sums[rep.day] = Total([f \in rep.parts |-> sealed[f][rep.day]])
           /\ \A f \in rep.parts : Settled(f, rep.day)

PipelineInv == R!ReportdInv /\ Files /\ Details /\ NoneRendered /\ Summed
=============================================================================
