----------------------------- MODULE FetchDialogue -----------------------------
(***************************************************************************)
(* A tlsrpt-fetcher at work (class TLSRPTFetcherSQLite): tlsrpt-reportd    *)
(* starts it for the domain list of a day, or for the details of one       *)
(* domain, and reads its lines from a pipe while the collectd behind it    *)
(* may replace the ".yesterday" database.  The fetcher keeps the file it   *)
(* has opened: a file that was unlinked or replaced can still be read.     *)
(*                                                                         *)
(* A domain name is a record: its base, whether it has upper case letters, *)
(* the number of dots at its end, and whether white space follows them.    *)
(* With the base Root these are the empty name and the name "." which mean *)
(* something in the dialogue.  No name has a line break in it.             *)
(* What reportd does with the answers in its transaction is in Reportd.    *)
(***************************************************************************)
EXTENDS Integers, Sequences, SequencesExt, FiniteSets

CONSTANTS
    Root,        \* the base of the names "" and "."
    Dotted,      \* the bases that begin with a dot
    Notations,   \* the domain names in the datagrams
    LastDay,     \* bound: the last day
    MaxCounts,   \* bound: datagrams
    MaxRetries,  \* option max_retries_domainlist
    MaxDeaths,   \* bound: fetchers that die
    Capacity     \* the lines a pipe holds

ASSUME DialogueBounds ==
    /\ LastDay \in Nat /\ MaxCounts \in Nat /\ MaxRetries \in Nat /\ MaxDeaths \in Nat
    /\ Capacity \in Nat \ {0}
    /\ \A name \in Notations :
           /\ name = [base |-> name.base, upper |-> name.upper, dots |-> name.dots,
                      blank |-> name.blank]
           /\ name.upper \in BOOLEAN /\ name.dots \in Nat /\ name.blank \in BOOLEAN

Days == 1 .. LastDay

VARIABLES
    date,     \* the UTC date
    today,    \* the day the collectd collects
    live,     \* the domains in its live database
    yest,     \* the file ".yesterday"
    counts,   \* datagrams counted
    sealed,   \* history: the domains of each day that was sealed
    out,      \* what the fetcher has still to print
    alive,    \* whether the fetcher runs
    pipe,     \* the lines in its pipe
    deaths,   \* fetchers that have died
    stage,    \* what reportd reads next, or "idle"
    asked,    \* the day and the domain asked for
    listing,  \* the rows inserted since SAVEPOINT domainlist
    jobs,     \* fetchjobs
    rows      \* reportdata: records of day, name, data

collectd == <<date, today, live, yest, counts, sealed>>
fetcher == <<out, alive, pipe, deaths>>
reportd == <<stage, asked, listing, jobs, rows>>
vars == <<collectd, fetcher, reportd>>

\* without white space at the end
Name(base, upper, dots) == [base |-> base, upper |-> upper, dots |-> dots, blank |-> FALSE]
EmptyName == Name(Root, FALSE, 0)
Dot == Name(Root, FALSE, 1)

\* a line that a dying fetcher could not finish
Fragment == Name("fragment", FALSE, 0)

\* faulty: leaves the dot at the end
LowerCase(name) == [name EXCEPT !.upper = FALSE]

\* lower case, and without a single dot at the very end, but for the name "."
normalize_domain_name(name) ==
    [base |-> name.base, upper |-> FALSE,
     dots |-> IF name.dots = 1 /\ name.base # Root /\ ~name.blank THEN 0 ELSE name.dots,
     blank |-> name.blank]

\* What collect_domains makes of a line it has read
rstrip(name) == [name EXCEPT !.blank = FALSE]
Stripped(names) == {rstrip(name) : name \in names}

BeginsWithDot(name) == name.base \in Dotted \/ (name.base = Root /\ name.dots > 0)

NoFile == [day |-> -1, names |-> {}]
BlankFile == [day |-> 0, names |-> {}]
\* reportdata.data: not there yet, without policies, or else those of a day
None == -1
Void == 0

Version == <<"version">>
Time == <<"time">>

-----------------------------------------------------------------------------
(* tlsrpt-collectd, as the fetcher sees it                                 *)

\* add_datagram, for a policy with this domain
Count(name) ==
    /\ counts < MaxCounts
    /\ counts' = counts + 1
    /\ live' = live \cup {normalize_domain_name(name)}
    /\ UNCHANGED <<date, today, yest, sealed, fetcher, reportd>>

\* switch_to_next_day: the old file is removed, if there is one ...
Unlink ==
    /\ today < date
    /\ yest # NoFile
    /\ yest' = NoFile
    /\ UNCHANGED <<date, today, live, counts, sealed, fetcher, reportd>>

\* ... and the live database takes its place.  A file that a fetcher has
\* created in between is overwritten.
Rename ==
    /\ today < date
    /\ yest \in {NoFile, BlankFile}
    /\ yest' = [day |-> today, names |-> live]
    /\ sealed' = [sealed EXCEPT ![today] = live]
    /\ today' = today + 1
    /\ live' = {}
    /\ UNCHANGED <<date, counts, fetcher, reportd>>

Midnight ==
    /\ date < LastDay + 1 /\ today = date
    /\ date' = date + 1
    /\ UNCHANGED <<today, live, yest, counts, sealed, fetcher, reportd>>

-----------------------------------------------------------------------------
(* tlsrpt-fetcher                                                          *)

\* What fetch_domain_list prints: three header lines, the domains, and a dot.
\* The lines are those that readline().rstrip() returns.
DomainList(day, order) ==
    <<Version, Time, <<"day", day>>>>
        \o [i \in DOMAIN order |-> <<"name", rstrip(order[i])>>] \o <<<<"name", Dot>>>>

\* fetch_domain_list: the domains of the day that was asked for, in any order
ListAnswers(file, day) ==
    {DomainList(file.day, order) :
     order \in SetToSeqs(IF file.day = day THEN file.names ELSE {})}

\* faulty: the details of the domain on whatever day the file holds
DetailsOfAnyDay(file, day, name) ==
    {<<<<"json", IF name \in file.names THEN file.day ELSE Void>>>>}

\* fetch_domain_details: the policies of the domain on that day, maybe none
DetailsAnswers(file, day, name) ==
    {<<<<"json", IF file.day = day /\ name \in file.names THEN day ELSE Void>>>>}

\* The start of the fetcher: connect creates a file that is not there, and the
\* check of a file without tables ends the fetcher before it prints a line.
\* What it prints is settled when the file is open: nobody writes to it.
Run(answers) ==
    /\ alive' = TRUE
    /\ pipe' = <<>>
    /\ yest' = IF yest = NoFile THEN BlankFile ELSE yest
    /\ out' \in IF yest \in {NoFile, BlankFile} THEN {<<>>} ELSE answers
    /\ UNCHANGED <<date, today, live, counts, sealed, deaths>>

Write ==
    /\ alive /\ out # <<>> /\ Len(pipe) < Capacity
    /\ pipe' = Append(pipe, Head(out))
    /\ out' = Tail(out)
    /\ UNCHANGED <<collectd, alive, deaths, reportd>>

Exit ==
    /\ alive /\ out = <<>>
    /\ alive' = FALSE
    /\ UNCHANGED <<collectd, out, pipe, deaths, reportd>>

\* The part of a line that has been printed may be its first dot.
HalfLines(line) ==
    IF line[1] = "name" /\ BeginsWithDot(line[2]) THEN {Fragment, Dot} ELSE {Fragment}

\* The fetcher, or the ssh connection it runs on, dies, after a line or in the
\* middle of one.
Perish ==
    /\ alive /\ deaths < MaxDeaths
    /\ alive' = FALSE /\ deaths' = deaths + 1
    /\ out' = <<>>
    /\ \/ UNCHANGED pipe
       \/ /\ out # <<>> /\ Len(pipe) < Capacity
          /\ \E half \in HalfLines(Head(out)) : pipe' = Append(pipe, <<"name", half>>)
    /\ UNCHANGED <<collectd, reportd>>

-----------------------------------------------------------------------------
(* tlsrpt-reportd                                                          *)

\* collect_domains: one attempt at the list of a day that is over
AskList(day) ==
    /\ stage = "idle" /\ day < date /\ jobs[day].status = "open"
    /\ Run(ListAnswers(yest, day))
    /\ asked' = [day |-> day, name |-> Dot]
    /\ stage' = "version" /\ listing' = {}
    /\ UNCHANGED <<jobs, rows>>

\* faulty: waits for the fetcher to end before it reads
LineAfterExit(line) == ~alive /\ pipe # <<>> /\ line = Head(pipe)

\* readline: a line, or the empty string when the pipe is closed
Line(line) ==
    \/ pipe # <<>> /\ line = Head(pipe)
    \/ pipe = <<>> /\ ~alive /\ line = <<"name", EmptyName>>

Lines == {Version, Time} \cup ({"day"} \X (0 .. LastDay))
         \cup ({"name"} \X ({Fragment, Dot, EmptyName}
                            \cup {rstrip(normalize_domain_name(n)) : n \in Notations}))

\* The job after the dialogue.  With its Popen reportd drops the read end of the
\* pipe: a fetcher that still has lines to print dies of a broken pipe.
Closed(finished) ==
    /\ LET job == jobs[asked.day] IN
       jobs' = [jobs EXCEPT ![asked.day] =
          IF finished THEN [job EXCEPT !.status = "ok"]
          ELSE IF job.retries < MaxRetries THEN [job EXCEPT !.retries = job.retries + 1]
          ELSE [job EXCEPT !.status = "timedout"]]
    /\ stage' = "idle" /\ listing' = {}
    /\ alive' = FALSE /\ out' = <<>> /\ pipe' = <<>>
    /\ UNCHANGED <<collectd, deaths, asked>>

GoOn(next) ==
    /\ stage' = next
    /\ pipe' = Tail(pipe)
    /\ UNCHANGED <<collectd, alive, out, deaths, asked, jobs, rows>>

\* Version header and time: another version is refused, a fragment of a time
\* ends reportd, after which a new one asks again.
ReadHeader ==
    \E line \in Lines :
        /\ Line(line)
        /\ \/ stage = "version" /\ line = Version /\ GoOn("time") /\ UNCHANGED listing
           \/ stage = "version" /\ line # Version /\ Closed(FALSE) /\ UNCHANGED rows
           \/ stage = "time" /\ line = Time /\ GoOn("day") /\ UNCHANGED listing
           \/ /\ stage = "time" /\ line # Time
              /\ stage' = "idle" /\ listing' = {}
              /\ alive' = FALSE /\ out' = <<>> /\ pipe' = <<>>
              /\ UNCHANGED <<collectd, deaths, asked, jobs, rows>>

\* The fetcher is not ready unless it has the day that is asked for.
ReadDay ==
    /\ stage = "day"
    /\ \E line \in Lines :
         /\ Line(line)
         /\ IF line = <<"day", asked.day>> THEN GoOn("list") /\ UNCHANGED listing
            ELSE Closed(FALSE) /\ UNCHANGED rows

Row(name) == [day |-> asked.day, name |-> name, data |-> None]

\* faulty: what was read is kept although the list is not complete
ReadDomainWithoutRollback ==
    /\ stage = "list"
    /\ \E line \in Lines :
         /\ Line(line)
         /\ \/ /\ line[2] \notin {Dot, EmptyName}
               /\ listing' = listing \cup {Row(line[2])}
               /\ GoOn("list")
            \/ /\ line[2] \in {Dot, EmptyName}
               /\ rows' = rows \cup listing
               /\ Closed(line[2] = Dot)

\* A domain is inserted; an empty line is the end of the file, and rolls back;
\* a dot is the end of the list, and commits.
ReadDomain ==
    /\ stage = "list"
    /\ \E line \in Lines :
         /\ Line(line)
         /\ \/ /\ line[2] \notin {Dot, EmptyName}
               /\ listing' = listing \cup {Row(line[2])}
               /\ GoOn("list")
            \/ /\ line[2] = Dot
               /\ rows' = rows \cup listing
               /\ Closed(TRUE)
            \/ /\ line[2] = EmptyName
               /\ rows' = rows
               /\ Closed(FALSE)

\* fetch_data: once the list is settled
AskDetails(row) ==
    /\ stage = "idle" /\ row.data = None /\ jobs[row.day].status # "open"
    /\ Run(DetailsAnswers(yest, row.day, row.name))
    /\ asked' = [day |-> row.day, name |-> row.name]
    /\ stage' = "details" /\ listing' = {}
    /\ UNCHANGED <<jobs, rows>>

\* read to the end; what is no JSON leaves the row as it is
ReadDetails ==
    /\ stage = "details" /\ ~alive
    /\ LET row == Row(asked.name) IN
       rows' = IF pipe # <<>> /\ Head(pipe)[1] = "json"
               THEN (rows \ {row})
                    \cup {[row EXCEPT !.data = Head(pipe)[2]]}
               ELSE rows
    /\ stage' = "idle" /\ pipe' = <<>>
    /\ UNCHANGED <<collectd, asked, out, alive, deaths, listing, jobs>>

-----------------------------------------------------------------------------
Init ==
    /\ date = 1 /\ today = 1
    /\ live = {} /\ yest = NoFile /\ counts = 0
    /\ sealed = [d \in Days |-> {}]
    /\ asked = [day |-> 0, name |-> Dot]
    /\ out = <<>> /\ alive = FALSE /\ pipe = <<>> /\ deaths = 0
    /\ stage = "idle" /\ listing = {}
    /\ jobs = [d \in Days |-> [status |-> "open", retries |-> 0]]
    /\ rows = {}

Fetcher == Write \/ Exit

Reader == ReadHeader \/ ReadDay \/ ReadDomain \/ ReadDetails

Next ==
    \/ \E name \in Notations : Count(name)
    \/ Unlink \/ Rename \/ Midnight
    \/ Fetcher \/ Perish \/ Reader
    \/ \E day \in Days : AskList(day)
    \/ \E row \in rows : AskDetails(row)

Spec == Init /\ [][Next]_vars

\* Fetchers write what they have to, and reportd reads what there is.
FairSpec == Spec /\ WF_vars(Fetcher) /\ WF_vars(Reader)

-----------------------------------------------------------------------------
(* Properties.                                                             *)

NamesOf(day) == {row.name : row \in {r \in rows : r.day = day}}

\* What reportd stores as the list of a day is what the collectd counted on
\* that day, all of it, or nothing, with no white space at the end of a name:
\* whichever file the fetcher had open, and wherever it died.  A job that is
\* done has stored the list.  Only a domain that begins with a dot can cut a
\* list short; an empty name makes the list fail for ever.
ListIsTheDays ==
    \A day \in Days :
        IF \E name \in sealed[day] : BeginsWithDot(name)
        THEN NamesOf(day) \subseteq Stripped(sealed[day]) \ {Dot}
        ELSE /\ NamesOf(day) \in {{}, Stripped(sealed[day])}
             /\ jobs[day].status = "ok" => NamesOf(day) = Stripped(sealed[day])

\* Details are those of the day of the row.  They are missing only when the
\* collectd had sealed another day before the question was asked, or knows the
\* domain with white space at its end alone.
DetailsOfTheDay ==
    \A row \in rows :
        /\ row.data \in {None, Void, row.day}
        /\ row.data = Void => today > row.day + 1 \/ row.name \notin sealed[row.day]

\* The notations of one name are one domain: no two rows of a day differ only
\* in the case of letters or in a final dot, if that is the name's end also
\* where it was counted.
OneRowPerName ==
    \A r1, r2 \in rows :
        /\ r1.day = r2.day /\ r1.name.base = r2.name.base
        /\ {r1.name, r2.name} \subseteq sealed[r1.day]
        /\ r1.name.dots <= 1 /\ r2.name.dots <= 1
        => r1.name = r2.name

\* Each dialogue ends, however long the list and short the pipe.
DialogueEnds == stage # "idle" ~> stage = "idle"
-----------------------------------------------------------------------------
(* The inductive invariant behind the safety properties.                   *)

NormalNames == {normalize_domain_name(n) : n \in Notations}

\* The lines a fetcher prints, whole or not
Wire ==
    {Version, Time} \cup ({"day"} \X (0 .. LastDay)) \cup ({"json"} \X (0 .. LastDay))
        \cup ({"name"} \X (Stripped(NormalNames) \cup {Dot, Fragment}))

ListStages == {"version", "time", "day", "list"}

TypeOK ==
    /\ date \in 1 .. LastDay + 1 /\ today \in 1 .. date
    /\ live \subseteq NormalNames /\ IsFiniteSet(live)
    /\ sealed \in [Days -> SUBSET NormalNames]
    /\ \A day \in Days : IsFiniteSet(sealed[day])
    /\ out \in Seq(Wire) /\ pipe \in Seq(Wire) /\ alive \in BOOLEAN
    /\ stage \in ListStages \cup {"idle", "details"}
    /\ asked \in [day : 0 .. LastDay, name : Stripped(NormalNames) \cup {Dot}]
    /\ \A r \in listing \cup rows : r = [day |-> r.day, name |-> r.name, data |-> r.data]
    /\ jobs \in [Days -> [status : {"open", "ok", "timedout"}, retries : Nat]]

\* The file holds the last day that was sealed, once that has its place.
FileIsLatest ==
    \/ yest \in {NoFile, BlankFile}
    \/ today > 1 /\ yest = [day |-> today - 1, names |-> sealed[today - 1]]

\* The lines still to be read: those in the pipe, and then those to be printed
ToCome == Len(pipe) + Len(out)
LineAt(i) == IF i <= Len(pipe) THEN pipe[i] ELSE out[i - Len(pipe)]

\* how many of them come before the domains, at each stage
Headers == [version |-> 3, time |-> 2, day |-> 1, list |-> 0]

\* A half line is the last that comes.
Broken(i) == i = ToCome /\ ~alive /\ LineAt(i) = <<"name", Fragment>>

\* The names that have been inserted or will come before line i
NamesBefore(i) ==
    {row.name : row \in listing} \cup {LineAt(j)[2] : j \in Headers[stage] + 1 .. i - 1}

\* The day is, or will be found to be, the one that was asked for.
RightDay ==
    stage # "list" =>
        Headers[stage] <= ToCome /\ LineAt(Headers[stage]) = <<"day", asked.day>>

\* The domains of a day as they are listed
Listed(day) == Stripped(sealed[day])

\* One of them can be taken for the end of the list.
DotListed(day) == \E name \in sealed[day] : BeginsWithDot(name)

\* Domains that come belong to the day, and a dot comes after all of them.
ListAhead ==
    stage \in ListStages /\ RightDay =>
        /\ asked.day < today
        /\ \A i \in Headers[stage] + 1 .. ToCome :
               \/ Broken(i)
               \/ /\ LineAt(i) \in {"name"} \X (Listed(asked.day) \cup {Dot})
                  /\ LineAt(i) = <<"name", Dot>> /\ ~DotListed(asked.day) =>
                         i = ToCome /\ Listed(asked.day) \subseteq NamesBefore(i)

\* What has been inserted belongs to the day, but for a half line after which
\* nothing comes.
ListSoFar ==
    /\ stage \in ListStages => asked.day \in Days /\ jobs[asked.day].status = "open"
    /\ stage # "list" => listing = {}
    /\ \A row \in listing :
           /\ row.day = asked.day /\ row.data = None
           /\ \/ row.name \in Listed(asked.day) \ {Dot}
              \/ row.name = Fragment /\ ToCome = 0 /\ ~alive

DetailsAhead ==
    stage = "details" =>
        /\ asked.day \in Days
        /\ Row(asked.name) \in rows
        /\ \A i \in 1 .. ToCome :
               \/ Broken(i)
               \/ LineAt(i) = <<"json", asked.day>>
               \/ /\ LineAt(i) = <<"json", Void>>
                  /\ today > asked.day + 1 \/ asked.name \notin sealed[asked.day]

ListsStored ==
    /\ \A day \in Days : day >= today => sealed[day] = {}
    /\ \A row \in rows :
           /\ row.day \in Days /\ row.day < today
           /\ row.name \in Listed(row.day) \ {Dot}
           /\ jobs[row.day].status = "ok"
    /\ \A day \in Days :
           jobs[day].status = "ok" =>
               day < today /\ (~DotListed(day) => Listed(day) \subseteq NamesOf(day))

DialogueInv ==
    /\ TypeOK
    /\ FileIsLatest
    /\ ~alive => out = <<>>
    /\ ListAhead
    /\ ListSoFar
    /\ DetailsAhead
    /\ ListsStored
    /\ DetailsOfTheDay
=============================================================================
