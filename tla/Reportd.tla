------------------------------- MODULE Reportd -------------------------------
(***************************************************************************)
(* tlsrpt-reportd up to the delivery of reports (class TLSRPTReportd): one *)
(* process that loops over check_day, collect_domains, fetch_data,         *)
(* create_reports and sleep, with all its state in one SQLite database.    *)
(* The fetchers are separate processes: each serves one finished day of    *)
(* its collectd, may not be ready, break off or send garbage.              *)
(*                                                                         *)
(* Abstractions.  Traffic[f][dom] stands for the data of fetcher f: the    *)
(* TLSRPT records under which it counted sessions to domain dom, the same  *)
(* every day.  A report is the set of fetchers whose counters it sums.     *)
(* The transaction is the pair (db, view): what is committed and what the  *)
(* connection sees.  Delivery of the reports is module ReportDelivery.     *)
(***************************************************************************)
EXTENDS Integers, FiniteSets

CONSTANTS
    Fetchers,    \* the fetcher commands of option fetchers
    Domains,     \* recipient domains
    Records,     \* TLSRPT DNS records
    Traffic,     \* [Fetchers -> [Domains -> SUBSET Records]]
    KeepDays,    \* option keep_days
    MaxRetries,  \* option max_retries_domainlist
    LastDate,    \* bound: the last UTC date
    MaxStarts,   \* bound: process starts
    Crashes,     \* TRUE iff the process may be killed at any step
    Garbage,     \* TRUE iff a fetcher may end after its version header, or print
                 \* details that are none
    Hangs,       \* TRUE iff a fetcher may stop answering without closing its pipe
    CutShort     \* the fetchers whose collectd may be cut short in a rollover

ASSUME TrafficAssumption == Traffic \in [Fetchers -> [Domains -> SUBSET Records]]
ASSUME OptionAssumption == KeepDays \in Nat /\ MaxRetries \in Nat
ASSUME BoundAssumption == LastDate \in Nat \ {0} /\ MaxStarts \in Nat
ASSUME SwitchAssumption ==
    /\ Crashes \in BOOLEAN /\ Garbage \in BOOLEAN /\ Hangs \in BOOLEAN
    /\ CutShort \subseteq Fetchers

Days == 0 .. LastDate
Jobs == Days \X Fetchers
Rows == Days \X Fetchers \X Domains
Topics == Days \X Domains
Listed(f) == {dom \in Domains : Traffic[f][dom] # {}}

VARIABLES
    date,     \* the UTC date
    avail,    \* the day in the ".yesterday" database of each fetcher, or -1
    pc,       \* the stage of run_loop, or how the process ended
    todo,     \* what the cursor of the stage has still to return
    cur,      \* the element being processed
    save,     \* the rows at SAVEPOINT domainlist
    read,     \* the domains read from the fetcher's pipe
    view,     \* the database as the connection sees it
    db,       \* the database as committed
    made,     \* history: how often a report was created and committed
    starts    \* process starts

vars == <<date, avail, pc, todo, cur, save, read, view, db, made, starts>>
locals == <<cur, save, read>>
world == <<date, avail, starts>>

NoJob == [status |-> "absent", retries |-> 0, later |-> FALSE]
NewJob == [NoJob EXCEPT !.status = "open"]
Empty == [jobs |-> [j \in Jobs |-> NoJob],
          rows |-> [r \in Rows |-> "absent"],
          reports |-> {}]

Running == {"check", "collect", "list", "hung", "mark", "fetch", "create",
            "render", "send", "sleep", "exit"}
Halted == {"down", "stopped", "crashed", "died"}

OpenDays(v) == {d \in Days : \E f \in Fetchers : v.jobs[<<d, f>>].status = "open"}
RowsOf(v, topic) == {r \in Rows : r[1] = topic[1] /\ r[3] = topic[2]}

Commit == db' = view

-----------------------------------------------------------------------------
(* check_day                                                               *)

\* julianday(now) - julianday(day) > keep_days, for a now after midnight
Expired(d) == date - d >= KeepDays

\* db_clean_up: jobs, rows, and reports with their destinations
CleanedUp(v) ==
    [jobs |-> [j \in Jobs |-> IF Expired(j[1]) THEN NoJob ELSE v.jobs[j]],
     rows |-> [r \in Rows |-> IF Expired(r[1]) THEN "absent" ELSE v.rows[r]],
     reports |-> {rep \in v.reports : ~Expired(rep.day)}]

\* collect_domains' choice: status IS NULL AND nexttry<now
Due(v) == {j \in Jobs : v.jobs[j].status = "open" /\ ~v.jobs[j].later}

\* The fetch jobs of yesterday are created once, and committed with the
\* clean-up; otherwise the deletions stay pending.
CheckDay ==
    /\ pc = "check"
    /\ LET cleaned == CleanedUp(view)
           yesterday == {j \in Jobs : j[1] = date - 1}
       IN IF \E j \in yesterday : cleaned.jobs[j].status # "absent"
          THEN view' = cleaned /\ UNCHANGED db
          ELSE /\ view' = [cleaned EXCEPT !.jobs =
                              [j \in Jobs |-> IF j \in yesterday THEN NewJob ELSE @[j]]]
               /\ db' = view'
    /\ pc' = "collect"
    /\ todo' = Due(view')
    /\ UNCHANGED <<world, locals, made>>

-----------------------------------------------------------------------------
(* collect_domains and collect_domains_from                                *)

\* The fetcher can not be started, speaks another version, or has another day.
Refuse(j) ==
    /\ pc = "collect" /\ j \in todo
    /\ cur' = <<j, FALSE>>
    /\ pc' = "mark"
    /\ UNCHANGED <<world, todo, save, read, view, db, made>>

\* The three header lines are fine: SAVEPOINT domainlist.
Accept(j) ==
    /\ pc = "collect" /\ j \in todo
    /\ avail[j[2]] = j[1]
    /\ cur' = <<j, TRUE>>
    /\ save' = view.rows
    /\ read' = {}
    /\ pc' = "list"
    /\ UNCHANGED <<world, todo, view, db, made>>

\* The pipe ends after the version header: strptime raises ValueError.
Garble(j) ==
    /\ Garbage
    /\ pc = "collect" /\ j \in todo
    /\ pc' = "exit"
    /\ UNCHANGED <<world, todo, locals, view, db, made>>

\* One line of the list; a row that is there already is skipped.
ReadDomain(dom) ==
    /\ pc = "list"
    /\ dom \in Listed(cur[1][2]) \ read
    /\ read' = read \cup {dom}
    /\ LET r == <<cur[1][1], cur[1][2], dom>> IN
       view' = [view EXCEPT !.rows[r] = IF @ = "absent" THEN "listed" ELSE @]
    /\ UNCHANGED <<world, pc, todo, cur, save, db, made>>

\* The single dot: RELEASE SAVEPOINT and commit.
ListEnds ==
    /\ pc = "list"
    /\ read = Listed(cur[1][2])
    /\ Commit
    /\ pc' = "mark"
    /\ save' = <<>> /\ read' = {}
    /\ UNCHANGED <<world, todo, cur, view, made>>

\* faulty: commits without going back to the savepoint
ListBreaksWithoutRollback ==
    /\ pc = "list"
    /\ Commit
    /\ cur' = <<cur[1], FALSE>>
    /\ pc' = "mark"
    /\ save' = <<>> /\ read' = {}
    /\ UNCHANGED <<world, todo, view, made>>

\* ROLLBACK TO SAVEPOINT domainlist
RolledBack(v) == [v EXCEPT !.rows = save]

\* End of file before the dot, or any exception: back to the savepoint, and a
\* commit of what was pending before it.
ListBreaks ==
    /\ pc = "list"
    /\ view' = RolledBack(view)
    /\ db' = view'
    /\ cur' = <<cur[1], FALSE>>
    /\ pc' = "mark"
    /\ save' = <<>> /\ read' = {}
    /\ UNCHANGED <<world, todo, made>>

\* readline blocks: the fetcher keeps its pipe open and writes nothing.
FetcherHangs ==
    /\ Hangs
    /\ pc = "list"
    /\ pc' = "hung"
    /\ UNCHANGED <<world, todo, locals, view, db, made>>

\* The job after a failed run: retried later, or given up.
AfterFailure(job) ==
    IF job.retries < MaxRetries
    THEN [job EXCEPT !.retries = @ + 1, !.later = TRUE]
    ELSE [job EXCEPT !.status = "timedout"]

\* The update of the job stays pending until the next commit.
MarkJob ==
    /\ pc = "mark"
    /\ LET j == cur[1] IN
       /\ view' = [view EXCEPT !.jobs[j] =
                      IF cur[2] THEN [@ EXCEPT !.status = "ok"] ELSE AfterFailure(@)]
       /\ todo' = todo \ {j}
    /\ pc' = "collect"
    /\ cur' = <<>>
    /\ UNCHANGED <<world, save, read, db, made>>

\* faulty: does not wait for the other fetchers of the day
ToFetchAtOnce(v) == {r \in Rows : v.rows[r] = "listed"}

\* fetch_data's choice: rows without data, of days all fetchers are done with
ToFetch(v) == {r \in Rows : v.rows[r] = "listed" /\ r[1] \notin OpenDays(v)}

\* The loop over the due jobs ends with a commit.
CollectEnds ==
    /\ pc = "collect" /\ todo = {}
    /\ Commit
    /\ pc' = "fetch"
    /\ todo' = ToFetch(view)
    /\ UNCHANGED <<world, locals, view, made>>

-----------------------------------------------------------------------------
(* fetch_data                                                              *)

\* The details arrive; a fetcher whose collectd has moved on to another day
\* answers with no policies at all, which is stored just the same.  Without a
\* database a fetcher prints nothing.
FetchDetails(r) ==
    /\ pc = "fetch" /\ r \in todo /\ avail[r[2]] # -1
    /\ todo' = todo \ {r}
    /\ view' = [view EXCEPT !.rows[r] = IF avail[r[2]] = r[1] THEN "full" ELSE "void"]
    /\ db' = view'
    /\ UNCHANGED <<world, pc, locals, made>>

\* No fetcher, invalid or truncated JSON, or another domain: nothing is noted.
\* What is no text, or JSON of another shape, is an exception nobody catches.
FetchFails(r) ==
    /\ pc = "fetch" /\ r \in todo
    /\ todo' = todo \ {r}
    /\ pc' \in IF Garbage THEN {pc, "exit"} ELSE {pc}
    /\ UNCHANGED <<world, locals, view, db, made>>

\* faulty: topics that have their reports are not left out
RipeAgain(v) ==
    {t \in Topics :
        /\ \E r \in RowsOf(v, t) : v.rows[r] \in {"full", "void"}
        /\ \A r \in RowsOf(v, t) : v.rows[r] # "listed"}

\* create_reports' choice: topics with data, none missing, and no report yet.
Ripe(v) ==
    {t \in Topics :
        /\ \E r \in RowsOf(v, t) : v.rows[r] \in {"full", "void"}
        /\ \A r \in RowsOf(v, t) : v.rows[r] # "listed"
        /\ ~\E rep \in v.reports : rep.day = t[1] /\ rep.dom = t[2]}

\* faulty: only reports about yesterday are created
FetchEndsForYesterday ==
    /\ pc = "fetch" /\ todo = {}
    /\ pc' = "create"
    /\ todo' = {t \in Ripe(view) : t[1] = date - 1}
    /\ UNCHANGED <<world, locals, view, db, made>>

FetchEnds ==
    /\ pc = "fetch" /\ todo = {}
    /\ pc' = "create"
    /\ todo' = Ripe(view)
    /\ UNCHANGED <<world, locals, view, db, made>>

-----------------------------------------------------------------------------
(* create_reports                                                          *)

\* the fetchers that counted sessions of this topic under this record
Parts(v, t, rec) ==
    {f \in Fetchers : v.rows[<<t[1], f, t[2]>>] = "full" /\ rec \in Traffic[f][t[2]]}

RecordsOf(v, t) == {rec \in Records : Parts(v, t, rec) # {}}

\* create_report_for: aggregate the rows by record; the records are left in
\* "read" until each has its report.
Aggregate(t) ==
    /\ pc = "create" /\ t \in todo
    /\ cur' = t
    /\ read' = RecordsOf(view, t)
    /\ pc' = "render"
    /\ UNCHANGED <<world, todo, save, view, db, made>>

ReportsOf(v, t) == {rep \in v.reports : rep.day = t[1] /\ rep.dom = t[2]}

\* faulty: counts the committed reports only
NextIdCommitted(v, t) == Cardinality(ReportsOf(db, t)) + 1

\* SELECT COUNT( * )+1, on the same connection
NextId(v, t) == Cardinality(ReportsOf(v, t)) + 1

\* render_report, with the next free number of this topic
RenderReport(rec) ==
    /\ pc = "render" /\ rec \in read
    /\ read' = read \ {rec}
    /\ LET rep == [day |-> cur[1], dom |-> cur[2], rec |-> rec,
                   uniqid |-> NextId(view, cur),
                   parts |-> Parts(view, cur, rec)]
       IN view' = [view EXCEPT !.reports = @ \cup {rep}]
    /\ UNCHANGED <<world, pc, todo, cur, save, db, made>>

\* All reports of a topic are committed together.
TopicEnds ==
    /\ pc = "render" /\ read = {}
    /\ Commit
    /\ made' = [m \in DOMAIN made |->
                   made[m] + Cardinality({rep \in view.reports \ db.reports :
                                             <<rep.day, rep.dom, rep.rec>> = m})]
    /\ todo' = todo \ {cur}
    /\ pc' = "create"
    /\ cur' = <<>>
    /\ UNCHANGED <<world, save, read, view>>

CreateEnds ==
    /\ pc = "create" /\ todo = {}
    /\ pc' = "send"
    /\ UNCHANGED <<world, todo, locals, view, db, made>>

-----------------------------------------------------------------------------
(* run_loop and the process                                                *)

\* send_out_reports touches destinations only.
SendEnds ==
    /\ pc = "send"
    /\ pc' = "sleep"
    /\ UNCHANGED <<world, todo, locals, view, db, made>>

WakeUp ==
    /\ pc = "sleep"
    /\ pc' = "check"
    /\ UNCHANGED <<world, todo, locals, view, db, made>>

\* SIGTERM is looked at while sleeping only: commit and leave.
Terminate ==
    /\ pc = "sleep"
    /\ Commit
    /\ pc' = "stopped"
    /\ UNCHANGED <<world, todo, locals, view, made>>

Vanish(label) ==
    /\ pc' = label
    /\ view' = db
    /\ todo' = {} /\ cur' = <<>> /\ save' = <<>> /\ read' = {}
    /\ UNCHANGED <<world, db, made>>

\* An exception that reaches tlsrpt_reportd_main.
Die == pc = "exit" /\ Vanish("died")

Crash == Crashes /\ pc \in Running /\ Vanish("crashed")

Start ==
    /\ pc \in Halted
    /\ starts < MaxStarts
    /\ starts' = starts + 1
    /\ pc' = "check"
    /\ UNCHANGED <<date, avail, todo, locals, view, db, made>>

-----------------------------------------------------------------------------
(* The surroundings                                                        *)

Midnight ==
    /\ date < LastDate
    /\ date' = date + 1
    /\ UNCHANGED <<avail, pc, todo, locals, view, db, made, starts>>

\* The collectd behind fetcher f seals the day that has just ended.
CollectdRollsOver(f) ==
    /\ avail[f] < date - 1
    /\ avail' = [avail EXCEPT ![f] = date - 1]
    /\ UNCHANGED <<date, pc, todo, locals, view, db, made, starts>>

\* A rollover deletes the old file, and may get no further.
FileGoes(f) ==
    /\ f \in CutShort /\ avail[f] \in 0 .. date - 2
    /\ avail' = [avail EXCEPT ![f] = -1]
    /\ UNCHANGED <<date, pc, todo, locals, view, db, made, starts>>

\* A later one makes up for it, with any day that is over: which of them it may
\* be is left to the storages of module Pipeline.
FileComes(f) ==
    /\ f \in CutShort /\ avail[f] = -1
    /\ \E day \in 0 .. date - 1 : avail' = [avail EXCEPT ![f] = day]
    /\ UNCHANGED <<date, pc, todo, locals, view, db, made, starts>>

\* Every waiting job becomes due.
TimePasses ==
    /\ pc \in Halted \cup {"sleep"}
    /\ \E j \in Jobs : view.jobs[j].later
    /\ view' = [view EXCEPT !.jobs = [j \in Jobs |-> [@[j] EXCEPT !.later = FALSE]]]
    /\ db' = view'
    /\ UNCHANGED <<world, pc, todo, locals, made>>

-----------------------------------------------------------------------------
\* A database as __init__ sets it up.
Fresh ==
    /\ date = 1
    /\ pc = "down" /\ todo = {} /\ cur = <<>> /\ save = <<>> /\ read = {}
    /\ view = Empty /\ db = Empty
    /\ made = [m \in Days \X Domains \X Records |-> 0]
    /\ starts = 0

Init ==
    /\ Fresh
    /\ \E late \in SUBSET CutShort : avail = [f \in Fetchers |-> IF f \in late THEN -1 ELSE 0]

RunLoop ==
    \/ CheckDay
    \/ \E j \in Jobs : Refuse(j) \/ Accept(j) \/ Garble(j)
    \/ \E dom \in Domains : ReadDomain(dom)
    \/ ListEnds \/ ListBreaks \/ MarkJob \/ CollectEnds
    \/ \E r \in Rows : FetchDetails(r) \/ FetchFails(r)
    \/ FetchEnds
    \/ \E t \in Topics : Aggregate(t)
    \/ \E rec \in Records : RenderReport(rec)
    \/ TopicEnds \/ CreateEnds \/ SendEnds \/ Die

Surroundings ==
    \/ FetcherHangs \/ WakeUp \/ Terminate \/ Crash \/ Start
    \/ Midnight \/ TimePasses
    \/ \E f \in Fetchers : CollectdRollsOver(f) \/ FileGoes(f) \/ FileComes(f)

Next == RunLoop \/ Surroundings

Spec == Init /\ [][Next]_vars

\* The loop keeps running and waking up.  A waiting job becomes due at a fixed
\* time, so it can not stay "later" while the process sleeps time and again.
FairSpec ==
    /\ Spec
    /\ WF_vars(RunLoop) /\ WF_vars(WakeUp) /\ SF_vars(TimePasses)

-----------------------------------------------------------------------------
(* Properties.                                                             *)

JobStates == [status : {"absent", "open", "ok", "timedout"},
              retries : 0 .. MaxRetries, later : BOOLEAN]
RowStates == {"absent", "listed", "full", "void"}
ReportRows == [day : Days, dom : Domains, rec : Records, uniqid : Nat,
               parts : SUBSET Fetchers]
Databases == [jobs : [Jobs -> JobStates], rows : [Rows -> RowStates],
              reports : SUBSET ReportRows]

\* The shape of the state.  The retry counter of a job stays within the option.
TypeOK ==
    /\ date \in 1 .. LastDate
    /\ avail \in [Fetchers -> Days \cup {-1}] /\ \A f \in Fetchers : avail[f] < date
    /\ pc \in Running \cup Halted
    /\ view \in Databases /\ db \in Databases
    /\ made \in [Days \X Domains \X Records -> Nat]
    /\ starts \in 0 .. MaxStarts

\* The reports of a topic are committed together and sum exactly the stored
\* data: if one exists, there is one for each record that occurs, with the
\* counters of all the fetchers that delivered it, and no data comes later.
Matching(v) ==
    \A t \in Topics :
        ReportsOf(v, t) # {} =>
            /\ {rep.rec : rep \in ReportsOf(v, t)} = RecordsOf(v, t)
            /\ \A rep \in ReportsOf(v, t) : rep.parts = Parts(v, t, rep.rec)
ReportsMatchData == Matching(db)

\* The domain list of a fetcher is stored as a whole or not at all, and as a
\* whole when the job is done, whatever breaks off or crashes in between.
Present(v, d, f) == {dom \in Domains : v.rows[<<d, f, dom>>] # "absent"}
WholeLists(v) ==
    \A d \in Days, f \in Fetchers :
        /\ Present(v, d, f) \in {{}, Listed(f)}
        /\ v.jobs[<<d, f>>].status = "ok" => Present(v, d, f) = Listed(f)
ListsAreWhole == WholeLists(db)

\* Reports of one topic can be told apart by their number, which is part of
\* the report-id and of the file name.
UniqueReportIds ==
    \A r1, r2 \in view.reports :
        r1.day = r2.day /\ r1.dom = r2.dom /\ r1.uniqid = r2.uniqid => r1 = r2

\* A report about a day, domain and record is created at most once, across
\* crashes, restarts, repeated fetches and the clean-up of old days.
ReportedOnce == \A m \in DOMAIN made : made[m] <= 1

\* The loop does not wait without end for a fetcher to finish.
FetchersTimeOut == pc \in {"list", "hung"} ~> pc \notin {"list", "hung"}

-----------------------------------------------------------------------------
(* The inductive invariant behind the safety properties: what holds of the *)
(* committed database, and what each stage has pending.                    *)

\* The jobs of a day are there for all fetchers or for none.
JobsTogether(v) ==
    \A d \in Days, f \in Fetchers, g \in Fetchers :
        v.jobs[<<d, f>>].status = "absent" => v.jobs[<<d, g>>].status = "absent"

RowsHaveJobs(v) ==
    \A r \in Rows : v.rows[r] # "absent" => v.jobs[<<r[1], r[2]>>].status # "absent"

\* Details are only asked for when all fetchers of the day are done.
DataWhenDone(v) ==
    \A r \in Rows : v.rows[r] \in {"full", "void"} => r[1] \notin OpenDays(v)

\* A topic that has its reports waits for no more data.
NothingAwaited(v) ==
    \A t \in Topics : ReportsOf(v, t) # {} => \A r \in RowsOf(v, t) : v.rows[r] # "listed"

\* The numbers of a topic count its reports, one for each record.
Numbered(v) ==
    /\ IsFiniteSet(v.reports)
    /\ \A rep \in v.reports :
           rep.uniqid <= Cardinality(ReportsOf(v, <<rep.day, rep.dom>>))
    /\ \A r1, r2 \in v.reports :
           r1.day = r2.day /\ r1.dom = r2.dom /\ (r1.uniqid = r2.uniqid \/ r1.rec = r2.rec)
               => r1 = r2

Sound(v) ==
    /\ WholeLists(v) /\ JobsTogether(v) /\ RowsHaveJobs(v) /\ DataWhenDone(v)
    /\ NothingAwaited(v) /\ Matching(v) /\ Numbered(v)

NothingPending ==
    pc \in Halted \cup {"check", "fetch", "create", "send", "sleep"} => view = db

\* the cursor over the jobs, and the marks that are pending
CollectPending ==
    pc \in {"collect", "list", "mark"} =>
        /\ todo \subseteq {j \in Jobs : view.jobs[j].status = "open"}
        /\ pc # "list" => Sound(view)
        /\ pc # "collect" => cur \in todo \X BOOLEAN
        /\ pc = "mark" /\ cur[2] => Present(view, cur[1][1], cur[1][2]) = Listed(cur[1][2])

\* within the savepoint, some domains of the list are pending
ListPending ==
    pc = "list" =>
        /\ save \in [Rows -> RowStates]
        /\ Sound(RolledBack(view))
        /\ read \subseteq Listed(cur[1][2])
        /\ view.rows = [r \in Rows |->
               IF save[r] = "absent" /\ <<r[1], r[2]>> = cur[1] /\ r[3] \in read
               THEN "listed" ELSE save[r]]

FetchCursor == pc = "fetch" => todo \subseteq ToFetch(view)

CreateCursor == pc \in {"create", "render"} => todo \subseteq Ripe(db)

\* within create_report_for, some reports of one topic are pending
RenderPending ==
    pc = "render" =>
        /\ cur \in todo
        /\ view.jobs = db.jobs /\ view.rows = db.rows
        /\ read \subseteq RecordsOf(db, cur)
        /\ {rep \in view.reports : <<rep.day, rep.dom>> # cur} = db.reports
        /\ {rep.rec : rep \in ReportsOf(view, cur)} = RecordsOf(db, cur) \ read
        /\ \A rep \in ReportsOf(view, cur) : rep.parts = Parts(db, cur, rep.rec)

ReportdInv ==
    /\ TypeOK /\ Sound(db) /\ Numbered(view)
    /\ NothingPending /\ CollectPending /\ ListPending
    /\ FetchCursor /\ CreateCursor /\ RenderPending

\* What was reported is still there, or its day is over for good.
Reported(v) ==
    \A m \in DOMAIN made :
        made[m] > 0 =>
            \/ \E rep \in v.reports : <<rep.day, rep.dom, rep.rec>> = m
            \/ Expired(m[1]) /\ \A f \in Fetchers : v.jobs[<<m[1], f>>].status = "absent"
OnceInv == ReportedOnce /\ Reported(db) /\ Reported(view)
=============================================================================
