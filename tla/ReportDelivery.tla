---------------------------- MODULE ReportDelivery ----------------------------
(***************************************************************************)
(* The delivery half of tlsrpt-reportd: render_report books a destination  *)
(* for each RUA of a finished report, send_out_reports runs the mail or    *)
(* the HTTP script for every destination that is due, and the outcome is   *)
(* kept in table destinations.  How the data of a report is gathered is    *)
(* module Reportd; here the data of a report arrives or does not.          *)
(*                                                                         *)
(* The scripts are processes of their own: a script that outlives its      *)
(* timeout, or the reportd, is not killed and may still deliver.           *)
(***************************************************************************)
EXTENDS Naturals, Sequences

CONSTANTS
    Reports,      \* reports: a day, a domain and a TLSRPT record
    Destinations, \* the URIs of the rua fields
    Ruas,         \* [Reports -> Seq(Destinations)], empty for a malformed record
    Unknown,      \* destinations that are neither mailto: nor https:
    MaxRetries,   \* option max_retries_delivery
    MaxStarts,    \* bound: process starts
    Crashes,      \* TRUE iff the process may be killed at any step
    Blocks        \* TRUE iff a script may neither read its input nor end

ASSUME RuasAssumption == Ruas \in [Reports -> Seq(Destinations)]
ASSUME UnknownAssumption == Unknown \subseteq Destinations
ASSUME DeliveryOptions == MaxRetries \in Nat /\ MaxStarts \in Nat
ASSUME DeliverySwitches == Crashes \in BOOLEAN /\ Blocks \in BOOLEAN

Keys == Reports \X Destinations
Addressed == [rep \in Reports |-> {Ruas[rep][i] : i \in DOMAIN Ruas[rep]}]

VARIABLES
    old,     \* reports of days that keep_days no longer covers
    pc,      \* the stage of run_loop, or how the process ended
    todo,    \* what the cursor of the stage has still to return
    cur,     \* the report being rendered, or the destination being served
    rest,    \* the RUAs render_report has still to book
    result,  \* what send_out_report returned
    view,    \* the database as the connection sees it
    db,      \* the database as committed
    orphans, \* [Keys -> Nat]: scripts nobody waits for any more
    copies,  \* history: copies handed over to the recipient
    runs,    \* history: script runs
    excuses, \* history: runs that may have delivered without being booked as sent
    starts   \* process starts

vars == <<old, pc, todo, cur, rest, result, view, db, orphans, copies, runs,
          excuses, starts>>
locals == <<cur, rest, result>>
counters == <<orphans, copies, runs, excuses>>

NoBooking == [status |-> "absent", retries |-> 0, later |-> FALSE]
\* nexttry is a draw of the pool away: later, or over when this round comes to
\* send_out_reports
NewBookings == [status : {"open"}, retries : {0}, later : BOOLEAN]

Running == {"check", "collect", "create", "render", "send", "write", "blocked",
            "wait", "record", "sleep", "exit"}
Serving == {"write", "blocked", "wait"}
Halted == {"down", "stopped", "crashed", "died"}

Commit == db' = view

-----------------------------------------------------------------------------
(* Creating the reports                                                    *)

\* faulty: the report stays, only its destinations are deleted
CleanedUpDestinations(v) ==
    [v EXCEPT !.dest = [k \in Keys |-> IF k[1] \in old THEN NoBooking ELSE @[k]]]

\* db_clean_up: the report, its destinations, and the data it is made from
CleanedUp(v) ==
    [made |-> [rep \in Reports |-> IF rep \in old THEN "gone" ELSE v.made[rep]],
     dest |-> [k \in Keys |-> IF k[1] \in old THEN NoBooking ELSE v.dest[k]]]

\* Only a check_day that finds a new day commits.
CheckDay ==
    /\ pc = "check"
    /\ view' = CleanedUp(view)
    /\ db' \in {db, view'}
    /\ pc' = "collect"
    /\ UNCHANGED <<old, todo, locals, counters, starts>>

\* collect_domains and fetch_data: commit, and some data is complete now.
Collect(complete) ==
    /\ pc = "collect"
    /\ complete \subseteq {rep \in Reports : view.made[rep] = "none"}
    /\ view' = [view EXCEPT !.made =
                   [rep \in Reports |-> IF rep \in complete THEN "data" ELSE @[rep]]]
    /\ db' = view'
    /\ pc' = "create"
    /\ todo' = {rep \in Reports : view'.made[rep] = "data"}
    /\ UNCHANGED <<old, locals, counters, starts>>

\* faulty: the report is committed before its destinations
RenderCommitted(rep) ==
    /\ pc = "create" /\ rep \in todo
    /\ view' = [view EXCEPT !.made[rep] = "made"]
    /\ db' = view'
    /\ cur' = rep
    /\ rest' = Ruas[rep]
    /\ pc' = "render"
    /\ UNCHANGED <<old, todo, result, counters, starts>>

\* render_report up to the INSERT of the report
Render(rep) ==
    /\ pc = "create" /\ rep \in todo
    /\ view' = [view EXCEPT !.made[rep] = "made"]
    /\ cur' = rep
    /\ rest' = Ruas[rep]
    /\ pc' = "render"
    /\ UNCHANGED <<old, todo, result, db, counters, starts>>

\* One destination.  An RUA that occurs twice in the record violates the
\* primary key: IntegrityError, which nothing in the reportd catches.
BookDestination ==
    /\ pc = "render" /\ rest # <<>>
    /\ LET k == <<cur, Head(rest)>> IN
       IF view.dest[k].status = "absent"
       THEN /\ \E new \in NewBookings : view' = [view EXCEPT !.dest[k] = new]
            /\ UNCHANGED pc
       ELSE pc' = "exit" /\ UNCHANGED view
    /\ rest' = Tail(rest)
    /\ UNCHANGED <<old, todo, cur, result, db, counters, starts>>

\* create_report_for commits the report with its destinations.
ReportDone ==
    /\ pc = "render" /\ rest = <<>>
    /\ Commit
    /\ todo' = todo \ {cur}
    /\ pc' = "create"
    /\ UNCHANGED <<old, locals, view, counters, starts>>

\* faulty: a destination that failed once is never selected again
DueAtFirst(v) ==
    {k \in Keys : /\ v.dest[k].status = "open" /\ ~v.dest[k].later
                  /\ v.dest[k].retries = 0}

\* send_out_reports' choice: status IS NULL AND nexttry<now
Due(v) == {k \in Keys : v.dest[k].status = "open" /\ ~v.dest[k].later}

CreateEnds ==
    /\ pc = "create" /\ todo = {}
    /\ pc' = "send"
    /\ todo' = Due(view)
    /\ UNCHANGED <<old, locals, view, db, counters, starts>>

-----------------------------------------------------------------------------
(* send_out_report and its scripts                                         *)

RefuseRua(k) ==
    /\ pc = "send" /\ k \in todo
    /\ k[2] \in Unknown
    /\ cur' = k
    /\ result' = "unknownrua"
    /\ pc' = "record"
    /\ UNCHANGED <<old, todo, rest, view, db, counters, starts>>

\* Popen
StartScript(k) ==
    /\ pc = "send" /\ k \in todo
    /\ k[2] \notin Unknown
    /\ cur' = k
    /\ runs' = [runs EXCEPT ![k] = @ + 1]
    /\ pc' = "write"
    /\ UNCHANGED <<old, todo, rest, result, view, db, orphans, copies, excuses, starts>>

\* stdin.write: the script takes the report, or closes its input first (broken
\* pipe), or blocks once the pipe is full.
ScriptReads ==
    /\ pc = "write"
    /\ pc' = "wait"
    /\ UNCHANGED <<old, todo, locals, view, db, counters, starts>>

\* Nobody waits for the script then, which may have ended or go on.
ScriptBreaksOff ==
    /\ pc = "write"
    /\ \/ UNCHANGED <<orphans, excuses>>
       \/ /\ orphans' = [orphans EXCEPT ![cur] = @ + 1]
          /\ excuses' = [excuses EXCEPT ![cur] = @ + 1]
    /\ result' = "tryagain"
    /\ pc' = "record"
    /\ UNCHANGED <<old, todo, cur, rest, view, db, copies, runs, starts>>

ScriptBlocks ==
    /\ Blocks
    /\ pc = "write"
    /\ pc' = "blocked"
    /\ UNCHANGED <<old, todo, locals, view, db, counters, starts>>

\* The script exits in time.  Exit code 0 says that the recipient has the
\* report; after another one it may have it nevertheless.
ScriptSucceeds ==
    /\ pc = "wait"
    /\ copies' = [copies EXCEPT ![cur] = @ + 1]
    /\ result' = "sent"
    /\ pc' = "record"
    /\ UNCHANGED <<old, todo, cur, rest, view, db, orphans, runs, excuses, starts>>

ScriptFails ==
    /\ pc = "wait"
    /\ \/ UNCHANGED <<copies, excuses>>
       \/ /\ copies' = [copies EXCEPT ![cur] = @ + 1]
          /\ excuses' = [excuses EXCEPT ![cur] = @ + 1]
    /\ result' = "tryagain"
    /\ pc' = "record"
    /\ UNCHANGED <<old, todo, cur, rest, view, db, orphans, runs, starts>>

\* faulty: the exception is taken for a success
ScriptTimesOutUnnoticed ==
    /\ pc = "wait"
    /\ orphans' = [orphans EXCEPT ![cur] = @ + 1]
    /\ excuses' = [excuses EXCEPT ![cur] = @ + 1]
    /\ result' = "sent"
    /\ pc' = "record"
    /\ UNCHANGED <<old, todo, cur, rest, view, db, copies, runs, starts>>

\* wait(timeout) raises; the script is left running.
ScriptTimesOut ==
    /\ pc = "wait"
    /\ orphans' = [orphans EXCEPT ![cur] = @ + 1]
    /\ excuses' = [excuses EXCEPT ![cur] = @ + 1]
    /\ result' = "tryagain"
    /\ pc' = "record"
    /\ UNCHANGED <<old, todo, cur, rest, view, db, copies, runs, starts>>

\* faulty: the retries are not counted
DecidedUncounted(booking, outcome) ==
    IF outcome # "tryagain"
    THEN [booking EXCEPT !.status = outcome]
    ELSE [booking EXCEPT !.later = TRUE]

\* The destination after a run
Decided(booking, outcome) ==
    CASE outcome # "tryagain" -> [booking EXCEPT !.status = outcome]
      [] outcome = "tryagain" /\ booking.retries < MaxRetries ->
             [booking EXCEPT !.retries = @ + 1, !.later = TRUE]
      [] OTHER -> [booking EXCEPT !.status = "timedout"]

\* faulty: without the commit
RecordUncommitted ==
    /\ pc = "record"
    /\ view' = [view EXCEPT !.dest[cur] = Decided(@, result)]
    /\ todo' = todo \ {cur}
    /\ pc' = "send"
    /\ UNCHANGED <<old, locals, db, counters, starts>>

\* send_out_reports: update the destination and commit
Record ==
    /\ pc = "record"
    /\ view' = [view EXCEPT !.dest[cur] = Decided(@, result)]
    /\ db' = view'
    /\ todo' = todo \ {cur}
    /\ pc' = "send"
    /\ UNCHANGED <<old, locals, counters, starts>>

SendEnds ==
    /\ pc = "send" /\ todo = {}
    /\ pc' = "sleep"
    /\ UNCHANGED <<old, todo, locals, view, db, counters, starts>>

-----------------------------------------------------------------------------
(* The process and its surroundings                                        *)

WakeUp ==
    /\ pc = "sleep"
    /\ pc' = "check"
    /\ UNCHANGED <<old, todo, locals, view, db, counters, starts>>

Terminate ==
    /\ pc = "sleep"
    /\ Commit
    /\ pc' = "stopped"
    /\ UNCHANGED <<old, todo, locals, view, counters, starts>>

Vanish(label) ==
    /\ pc' = label
    /\ view' = db
    /\ todo' = {}
    /\ UNCHANGED <<old, locals, db, copies, runs, starts>>

Die == pc = "exit" /\ Vanish("died") /\ UNCHANGED <<orphans, excuses>>

\* The script that is being served lives on; a result not yet booked is lost.
Crash ==
    /\ Crashes
    /\ pc \in Running
    /\ Vanish("crashed")
    /\ orphans' = IF pc \in Serving THEN [orphans EXCEPT ![cur] = @ + 1] ELSE orphans
    /\ excuses' = IF pc \in Serving \/ (pc = "record" /\ result = "sent")
                  THEN [excuses EXCEPT ![cur] = @ + 1] ELSE excuses

Start ==
    /\ pc \in Halted
    /\ starts < MaxStarts
    /\ starts' = starts + 1
    /\ pc' = "check"
    /\ UNCHANGED <<old, todo, locals, view, db, counters>>

\* A forgotten script ends at last, with or without delivering.
OrphanEnds(k) ==
    /\ orphans[k] > 0
    /\ orphans' = [orphans EXCEPT ![k] = @ - 1]
    /\ copies' \in {copies, [copies EXCEPT ![k] = @ + 1]}
    /\ UNCHANGED <<old, pc, todo, locals, view, db, runs, excuses, starts>>

\* A day gets older than keep_days.
Expire(rep) ==
    /\ rep \notin old
    /\ old' = old \cup {rep}
    /\ UNCHANGED <<pc, todo, locals, view, db, counters, starts>>

\* The time in nexttry of a waiting destination is reached.
FallsDue(k) ==
    /\ pc \in Halted \cup {"sleep"}
    /\ view.dest[k].later
    /\ view' = [view EXCEPT !.dest[k].later = FALSE]
    /\ db' = view'
    /\ UNCHANGED <<old, pc, todo, locals, counters, starts>>

-----------------------------------------------------------------------------
Init ==
    /\ old = {}
    /\ pc = "down" /\ todo = {} /\ cur = <<>> /\ rest = <<>> /\ result = "tryagain"
    /\ view = [made |-> [rep \in Reports |-> "none"],
               dest |-> [k \in Keys |-> NoBooking]]
    /\ db = view
    /\ orphans = [k \in Keys |-> 0]
    /\ copies = [k \in Keys |-> 0]
    /\ runs = [k \in Keys |-> 0]
    /\ excuses = [k \in Keys |-> 0]
    /\ starts = 0

RunLoop ==
    \/ CheckDay
    \/ \E complete \in SUBSET Reports : Collect(complete)
    \/ \E rep \in Reports : Render(rep)
    \/ BookDestination \/ ReportDone \/ CreateEnds
    \/ \E k \in Keys : RefuseRua(k) \/ StartScript(k)
    \/ ScriptReads \/ ScriptBreaksOff
    \/ ScriptSucceeds \/ ScriptFails \/ ScriptTimesOut
    \/ Record \/ SendEnds \/ Die

Surroundings ==
    \/ ScriptBlocks \/ WakeUp \/ Terminate \/ Crash \/ Start
    \/ \E k \in Keys : OrphanEnds(k) \/ FallsDue(k)
    \/ \E rep \in Reports : Expire(rep)

Next == RunLoop \/ Surroundings

Spec == Init /\ [][Next]_vars

\* The loop keeps going round, and time passes while it sleeps: an instant in
\* nexttry that is reached in one sleep or another is reached at last.
FairSpec ==
    /\ Spec
    /\ WF_vars(RunLoop) /\ WF_vars(WakeUp)
    /\ \A k \in Keys : SF_vars(FallsDue(k))

-----------------------------------------------------------------------------
(* Properties.                                                             *)

Bookings == [status : {"absent", "open", "sent", "unknownrua", "timedout"},
             retries : 0 .. MaxRetries, later : BOOLEAN]
Databases == [made : [Reports -> {"none", "data", "made", "gone"}],
              dest : [Keys -> Bookings]]

\* The shape of the state.  The retry counter of a destination stays within
\* option max_retries_delivery.
TypeOK ==
    /\ old \subseteq Reports
    /\ pc \in Running \cup Halted
    /\ result \in {"sent", "unknownrua", "tryagain"}
    /\ view \in Databases /\ db \in Databases
    /\ orphans \in [Keys -> Nat] /\ copies \in [Keys -> Nat]
    /\ runs \in [Keys -> Nat] /\ excuses \in [Keys -> Nat]
    /\ starts \in 0 .. MaxStarts

Whole(v) ==
    \A rep \in Reports, d \in Destinations :
        v.dest[<<rep, d>>].status # "absent"
            <=> v.made[rep] = "made" /\ d \in Addressed[rep]

\* A report is committed with all its destinations or not at all, whatever
\* fails or crashes in between, and none outlives it.
WholeReports == Whole(db)

\* What is booked as sent has been handed over.
SentMeansDelivered ==
    \A k \in Keys : db.dest[k].status = "sent" => copies[k] > 0

\* A recipient gets the report once, but for the runs that nobody could book:
\* a script that failed after delivering, outlived its timeout or the reportd.
OneCopyUnlessExcused == \A k \in Keys : copies[k] <= 1 + excuses[k]

\* A destination costs at most max_retries_delivery retries after the first
\* run, and one more run for every restart of the reportd.
BoundedRuns == \A k \in Keys : runs[k] <= MaxRetries + starts

\* The committed state of every report and destination, seen from outside,
\* behaves as module DeliveryPromise says.
Outcome(k) ==
    CASE db.made[k[1]] = "gone" -> "forgotten"
      [] db.made[k[1]] # "gone" /\ db.dest[k].status = "absent" -> "none"
      [] db.made[k[1]] # "gone" /\ db.dest[k].status = "open" -> "owed"
      [] OTHER -> db.dest[k].status

Promise == INSTANCE DeliveryPromise WITH outcome <- [k \in Keys |-> Outcome(k)]

\* ReportDelivery implements DeliveryPromise.
KeepsPromise == Promise!Spec

\* What is pending, and what the cursors hold, stage by stage: the strengthening
\* that makes WholeReports and SentMeansDelivered inductive.
Elements(q) == {q[i] : i \in DOMAIN q}
Booked(v, rep) == {d \in Destinations : v.dest[<<rep, d>>].status # "absent"}

\* between check_day and the next commit, only a clean-up may be pending
CleanUpPending ==
    pc = "collect" =>
        /\ Whole(view)
        /\ \A rep \in Reports :
               \/ view.made[rep] = "gone"
               \/ /\ view.made[rep] = db.made[rep]
                  /\ \A d \in Destinations : view.dest[<<rep, d>>] = db.dest[<<rep, d>>]

\* within render_report, only the report and some of its destinations are pending
RenderPending ==
    pc = "render" =>
        /\ cur \in todo
        /\ rest \in Seq(Destinations)
        /\ view.made = [db.made EXCEPT ![cur] = "made"]
        /\ \A k \in Keys : k[1] # cur => view.dest[k] = db.dest[k]
        /\ Booked(view, cur) \cup Elements(rest) = Addressed[cur]
        /\ \A d \in Booked(view, cur) : view.dest[<<cur, d>>] \in NewBookings

NothingPending == pc \notin {"collect", "render", "exit"} => view = db

CreateCursor ==
    pc \in {"create", "render"} =>
        todo \subseteq {rep \in Reports : db.made[rep] = "data"}

SendCursor ==
    /\ pc \in {"send", "record"} \cup Serving =>
           todo \subseteq {k \in Keys : db.dest[k].status = "open"}
    /\ pc \in {"record"} \cup Serving => cur \in todo

ResultIsTrue == pc = "record" /\ result = "sent" => copies[cur] > 0

\* nobody runs a script for a report that was never committed
OrphansAreOwed ==
    \A k \in Keys :
        orphans[k] > 0 =>
            db.made[k[1]] = "gone" \/ db.dest[k].status # "absent"

DeliveryInv ==
    /\ TypeOK /\ WholeReports /\ SentMeansDelivered
    /\ CleanUpPending /\ RenderPending /\ NothingPending
    /\ CreateCursor /\ SendCursor /\ ResultIsTrue /\ OrphansAreOwed

\* Every destination booked is decided in the end: again and again none is
\* open, unless the process has ended or a script blocks it.
EveryDestinationDecided ==
    []<>((\A k \in Keys : db.dest[k].status # "open") \/ pc \in Halted \cup {"blocked"})
=============================================================================
