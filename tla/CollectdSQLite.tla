--------------------------- MODULE CollectdSQLite ---------------------------
(***************************************************************************)
(* One SQLite storage of tlsrpt-collectd (class TLSRPTCollectdSQLite): the *)
(* live database that accumulates the datagrams of the current UTC day,    *)
(* the ".yesterday" file the fetcher reads, the commit policy and the      *)
(* rollover after midnight, step by step, under busy readers, a full disk, *)
(* crashes and restarts.                                                   *)
(*                                                                         *)
(* Abstractions.  A datagram is one unit of the row counter of the day it  *)
(* is filed under: domain, policy and failure details do not steer any     *)
(* decision here.  The clock is the pair (date, overdue): the UTC date and *)
(* whether "now" is past next_commit.  Days are numbers; date - 1 is the   *)
(* result of tlsrpt_utc_date_yesterday.                                    *)
(***************************************************************************)
EXTENDS Integers, FiniteSets

CONSTANTS
    LastDate,        \* bound: the last UTC date the clock reaches
    MaxUncommitted,  \* option max_uncommited_datagrams
    RetryCount,      \* option retry_commit_datagram_count
    MaxDatagrams,    \* bound: datagrams received
    MaxStarts,       \* bound: process starts
    MaxBusy,         \* bound: commits that fail because a reader holds a lock
    MaxFull,         \* bound: commits that fail and roll back (disk full)
    MaxPartial,      \* bound: datagrams a KeyError interrupts
    MaxDevel,        \* bound: development rollovers (SIGUSR2)
    Crashes,         \* TRUE iff the process may be killed at any step
    Punctual,        \* TRUE iff a running process sees every single UTC date
    BusyOutlastsTimeout \* TRUE iff SQLite's busy timeout >= option sockettimeout

ASSUME BoundsAssumption ==
    /\ LastDate \in Nat \ {0}
    /\ MaxDatagrams \in Nat /\ MaxStarts \in Nat /\ MaxBusy \in Nat
    /\ MaxFull \in Nat /\ MaxPartial \in Nat /\ MaxDevel \in Nat
ASSUME OptionsAssumption ==
    MaxUncommitted \in Nat \ {0} /\ RetryCount \in Nat \ {0}
ASSUME SwitchesAssumption ==
    Crashes \in BOOLEAN /\ Punctual \in BOOLEAN /\ BusyOutlastsTimeout \in BOOLEAN

Dates == 0 .. LastDate
Events == {"none", "datagram", "partial", "empty", "timeout", "devel", "term",
           "start"}
Received == {"datagram", "partial", "empty"}
Running == {"idle", "begin", "relabel", "seal", "unlink", "rename", "connect",
            "setup", "ddl", "add", "overdue", "count", "timed", "exit"}
Halted == {"down", "stopped", "crashed", "died", "bricked"}

VARIABLES
    date,     \* the UTC date
    overdue,  \* now > self.next_commit
    pc,       \* the step the process is at, or how it ended
    ev,       \* the event whose handler is running
    today,    \* self.today
    datenow,  \* the local variable datenow of add_datagram
    yday,     \* the local variable yesterday of switch_to_next_day
    unc,      \* self.uncommitted_datagrams
    file,     \* the live file: absent, partly set up, or set up
    live,     \* its committed rows per day, and days in table daystatus
    view,     \* the same as the connection sees it: live plus its transaction
    yest,     \* the contents of the ".yesterday" file (no days: no file)
    added,    \* history: rows filed per day
    lost,     \* history: rows a rollback took away
    removed,  \* history: rows deleted with an old ".yesterday" file
    fails,    \* history: failed commit attempts since the last success
    spent     \* what the environment has used of its bounds

vars == <<date, overdue, pc, ev, today, datenow, yday, unc, file, live, view,
          yest, added, lost, removed, fails, spent>>
clock == <<date, overdue>>
memory == <<today, datenow, yday, unc>>
disk == <<file, live, yest>>
history == <<added, lost, removed, fails>>

Blank == [rows |-> [d \in Dates |-> 0], done |-> {}]
Bounded == {"datagrams", "starts", "busy", "full", "partial", "devel"}

-----------------------------------------------------------------------------
(* The transaction of the connection.                                      *)

Spend(what, bound) ==
    /\ spent[what] < bound
    /\ spent' = [spent EXCEPT ![what] = @ + 1]

\* An interrupted or rolled back transaction: the rows it held are gone.
Rollback ==
    /\ view' = live
    /\ lost' = [d \in Dates |-> lost[d] + view.rows[d] - live.rows[d]]

\* con.commit() succeeds.
CommitSucceeds ==
    /\ live' = view
    /\ fails' = 0
    /\ UNCHANGED <<view, lost, spent>>

\* con.commit() raises OperationalError: a reader holds its lock for longer
\* than the busy timeout and the transaction stays open, or the disk is full
\* and SQLite rolls the transaction back.
CommitFails ==
    /\ fails' = fails + 1
    /\ UNCHANGED live
    /\ \/ Spend("busy", MaxBusy) /\ UNCHANGED <<view, lost>>
       \/ Spend("full", MaxFull) /\ Rollback

\* next_commit = now + sockettimeout, computed before a commit that may block: a
\* commit that gives up after as long a wait (5 seconds are the default of both)
\* returns with it already past, and the next datagram tries again at once.
PushNextCommit(failed) == overdue' = (failed /\ BusyOutlastsTimeout)

\* _db_commit: nothing to do without uncommitted datagrams; an
\* OperationalError is logged and swallowed.
DbCommit ==
    \/ /\ unc = 0
       /\ PushNextCommit(FALSE)
       /\ UNCHANGED <<unc, live, view, lost, fails, spent>>
    \/ /\ unc # 0
       /\ CommitSucceeds
       /\ unc' = 0
       /\ PushNextCommit(FALSE)
    \/ /\ unc # 0
       /\ CommitFails
       /\ UNCHANGED unc
       /\ PushNextCommit(TRUE)

\* An OperationalError leaves the handler: the daemon loop logs it and goes on
\* waiting; during shutdown it is logged and the process ends.
Aborted == IF ev = "term" THEN "exit" ELSE "idle"

Goto(label) ==
    /\ pc' = label
    /\ ev' = IF label = "idle" THEN "none" ELSE ev

\* The locals of a handler mean nothing once it has returned.
KeepLocals(label) ==
    IF label = "idle" THEN datenow' = 0 /\ yday' = 0
                      ELSE UNCHANGED <<datenow, yday>>

-----------------------------------------------------------------------------
(* The events the daemon loop hands to the storage.                        *)

\* Faulty: only socket_timeout looks at the date, busy traffic hides midnight.
ReceiveWithoutRollover(e) ==
    /\ pc = "idle"
    /\ spent.datagrams < MaxDatagrams
    /\ e = "partial" => spent.partial < MaxPartial
    /\ spent' = [b \in Bounded |->
                     IF b \in {"datagrams", e} THEN spent[b] + 1 ELSE spent[b]]
    /\ ev' = e
    /\ datenow' = date
    /\ pc' = "add"
    /\ UNCHANGED <<clock, today, yday, unc, disk, view, history>>

\* add_datagram: rollover first when the date has changed.
Receive(e) ==
    /\ pc = "idle"
    /\ spent.datagrams < MaxDatagrams
    /\ e = "partial" => spent.partial < MaxPartial
    /\ spent' = [b \in Bounded |->
                     IF b \in {"datagrams", e} THEN spent[b] + 1 ELSE spent[b]]
    /\ ev' = e
    /\ datenow' = date
    /\ pc' = IF today # date THEN "begin" ELSE "add"
    /\ UNCHANGED <<clock, today, yday, unc, disk, view, history>>

\* Faulty: what socket_timeout would be without one of its two duties.
Awaken(e, label) ==
    /\ pc = "idle"
    /\ ev' = IF label = "idle" THEN "none" ELSE e
    /\ pc' = label
    /\ UNCHANGED <<clock, memory, disk, view, history, spent>>
SocketTimeoutWithoutRollover(e) == Awaken(e, "timed")
SocketTimeoutWithoutCommit(e) ==
    Awaken(e, IF today # date THEN "begin" ELSE IF e = "term" THEN "exit" ELSE "idle")

\* socket_timeout: rollover when the date has changed, then timed_commit.
\* The daemon calls it when select() times out, and on SIGTERM or SIGINT.
SocketTimeout(e) ==
    /\ pc = "idle"
    /\ ev' = e
    /\ pc' = IF today # date THEN "begin" ELSE "timed"
    /\ UNCHANGED <<clock, memory, disk, view, history, spent>>

\* SIGUSR2: switch_to_next_day(develmode=True), whatever the date is.
DevelRollover ==
    /\ pc = "idle"
    /\ Spend("devel", MaxDevel)
    /\ ev' = "devel"
    /\ pc' = "begin"
    /\ UNCHANGED <<clock, memory, disk, view, history>>

-----------------------------------------------------------------------------
(* switch_to_next_day, one action per step another actor or a crash can    *)
(* get in between.                                                         *)

Begin ==
    /\ pc = "begin"
    /\ yday' = date - 1
    /\ DbCommit
    /\ Goto(IF ev = "devel" THEN "relabel" ELSE "seal")
    /\ UNCHANGED <<date, today, datenow, file, yest, added, removed>>

\* A commit outside _db_commit has waited for a lock in vain.
Waited == overdue' = (overdue \/ BusyOutlastsTimeout)

\* rows with the rows of day "from" filed under day "to" instead
Refiled(rows, from, to) ==
    [d \in Dates |-> IF from = to THEN rows[d]
                     ELSE IF d = to THEN rows[to] + rows[from]
                     ELSE IF d = from THEN 0 ELSE rows[d]]

\* Development only: the rows of today are refiled under yesterday.
Moved == Refiled(view.rows, today, yday)

RefileToday ==
    /\ view' = [view EXCEPT !.rows = Moved]
    /\ added' = [d \in Dates |-> added[d] + Moved[d] - view.rows[d]]

\* A key that exists under both days is an IntegrityError, which nothing in
\* the daemon catches.
RelabelConflict ==
    /\ pc = "relabel"
    /\ today # yday /\ view.rows[today] > 0 /\ view.rows[yday] > 0
    /\ Goto("exit")
    /\ UNCHANGED <<clock, memory, disk, view, history, spent>>

\* con.commit(), and _db_commit again, which then has nothing left to write.
RelabelCommitted ==
    /\ pc = "relabel"
    /\ RefileToday
    /\ live' = view'
    /\ unc' = 0 /\ overdue' = FALSE /\ fails' = 0
    /\ Goto("seal")
    /\ UNCHANGED <<date, today, datenow, yday, file, yest, lost, removed, spent>>

RelabelFails ==
    /\ pc = "relabel"
    /\ fails' = fails + 1
    /\ \/ Spend("busy", MaxBusy) /\ Waited /\ RefileToday /\ UNCHANGED lost
       \/ Spend("full", MaxFull) /\ Rollback /\ UNCHANGED <<overdue, added>>
    /\ Goto(Aborted) /\ KeepLocals(Aborted)
    /\ UNCHANGED <<date, today, unc, disk, removed>>

\* INSERT INTO daystatus of a day an earlier attempt has inserted already: an
\* IntegrityError, which nothing in the daemon catches.
SealConflict ==
    /\ pc = "seal"
    /\ yday \in view.done
    /\ Goto("exit")
    /\ UNCHANGED <<clock, memory, disk, view, history, spent>>

InsertDaystatus ==
    /\ yday \notin view.done
    /\ view' = [view EXCEPT !.done = @ \cup {yday}]

SealCommitted ==
    /\ pc = "seal"
    /\ InsertDaystatus
    /\ live' = view'
    /\ fails' = 0
    /\ Goto("unlink")
    /\ UNCHANGED <<clock, memory, file, yest, added, lost, removed, spent>>

SealFails ==
    /\ pc = "seal"
    /\ yday \notin view.done
    /\ fails' = fails + 1
    /\ \/ Spend("busy", MaxBusy) /\ Waited /\ InsertDaystatus /\ UNCHANGED lost
       \/ Spend("full", MaxFull) /\ Rollback /\ UNCHANGED overdue
    /\ Goto(Aborted) /\ KeepLocals(Aborted)
    /\ UNCHANGED <<date, today, unc, disk, added, removed>>

\* The connection is closed and the old ".yesterday" file deleted.
Unlink ==
    /\ pc = "unlink"
    /\ Rollback
    /\ removed' = [d \in Dates |-> removed[d] + yest.rows[d]]
    /\ yest' = Blank
    /\ Goto("rename")
    /\ UNCHANGED <<clock, memory, file, live, added, fails, spent>>

\* Faulty: the file is copied, and the live one stays as it is.
RenameByCopying ==
    /\ pc = "rename"
    /\ yest' = live
    /\ Goto("connect")
    /\ UNCHANGED <<clock, memory, file, live, view, history, spent>>

Rename ==
    /\ pc = "rename"
    /\ yest' = live
    /\ live' = Blank
    /\ view' = Blank
    /\ file' = "none"
    /\ Goto("connect")
    /\ UNCHANGED <<clock, memory, history, spent>>

\* Faulty: self.today is left alone.
ConnectKeepingToday ==
    /\ pc = "connect"
    /\ unc' = 0
    /\ Goto("setup")
    /\ UNCHANGED <<clock, today, datenow, yday, disk, view, history, spent>>

Connect ==
    /\ pc = "connect"
    /\ today' = date
    /\ unc' = 0
    /\ Goto("setup")
    /\ UNCHANGED <<clock, datenow, yday, disk, view, history, spent>>

\* _setup_database: every CREATE TABLE is on disk at once, the version row
\* only with the final commit.
Setup ==
    /\ pc = "setup"
    /\ file' = "torn"
    /\ Goto("ddl")
    /\ UNCHANGED <<clock, memory, live, yest, view, history, spent>>

\* The rest of _setup_database, the rollover script (no state of ours), and
\* the return into the handler that called switch_to_next_day.
SetupDone ==
    /\ pc = "ddl"
    /\ file' = "ready"
    /\ LET next == IF ev \in Received THEN "add"
                   ELSE IF ev \in {"timeout", "term"} THEN "timed" ELSE "idle"
       IN Goto(next) /\ KeepLocals(next)
    /\ UNCHANGED <<clock, today, unc, live, yest, view, history, spent>>

-----------------------------------------------------------------------------
(* The rest of add_datagram and socket_timeout.                            *)

File(n) ==
    /\ view' = [view EXCEPT !.rows[datenow] = @ + n]
    /\ added' = [added EXCEPT ![datenow] = @ + n]

\* _add_policies_from_datagram; a datagram without policies only counts.
AddRows ==
    /\ pc = "add"
    /\ ev # "partial"
    /\ File(IF ev = "datagram" THEN 1 ELSE 0)
    /\ unc' = unc + 1
    /\ Goto("overdue")
    /\ UNCHANGED <<clock, today, datenow, yday, disk, lost, removed, fails, spent>>

\* A KeyError after n policies of the datagram skips everything that follows.
AddRowsInPart ==
    /\ pc = "add"
    /\ ev = "partial"
    /\ \E n \in {0, 1} : File(n)
    /\ Goto("idle") /\ KeepLocals("idle")
    /\ UNCHANGED <<clock, today, unc, disk, lost, removed, fails, spent>>

\* commit_after_n_datagrams, first half
CheckOverdue ==
    /\ pc = "overdue"
    /\ IF overdue THEN DbCommit
       ELSE UNCHANGED <<overdue, unc, live, view, lost, fails, spent>>
    /\ Goto("count")
    /\ UNCHANGED <<date, today, datenow, yday, file, yest, added, removed>>

\* Faulty: a full batch is only tried once.
CommitDueOnce == unc = MaxUncommitted

\* A full batch is due at once, and again after every RetryCount more.
CommitDue == unc >= MaxUncommitted /\ (unc - MaxUncommitted) % RetryCount = 0

\* commit_after_n_datagrams, second half
CheckCount ==
    /\ pc = "count"
    /\ IF CommitDue THEN DbCommit
       ELSE UNCHANGED <<overdue, unc, live, view, lost, fails, spent>>
    /\ Goto("idle") /\ KeepLocals("idle")
    /\ UNCHANGED <<date, today, file, yest, added, removed>>

TimedCommit ==
    /\ pc = "timed"
    /\ DbCommit
    /\ Goto(Aborted) /\ KeepLocals(Aborted)
    /\ UNCHANGED <<date, today, file, yest, added, removed>>

-----------------------------------------------------------------------------
(* The life of the process.                                                *)

\* The process is gone, and with it its memory and its open transaction.
Vanish(label) ==
    /\ pc' = label
    /\ ev' = "none"
    /\ Rollback
    /\ today' = 0 /\ datenow' = 0 /\ yday' = 0 /\ unc' = 0
    /\ fails' = 0
    /\ UNCHANGED <<clock, disk, added, removed, spent>>

\* A SIGTERM ends the process, or an exception that nothing catches.
Exit == pc = "exit" /\ Vanish(IF ev = "term" THEN "stopped" ELSE "died")

Crash == Crashes /\ pc \in Running /\ Vanish("crashed")

\* __init__: an absent database is set up, a half set up one ends the process
\* in _setup_database because its first table exists already.
Start ==
    /\ pc \in Halted \ {"bricked"}
    /\ Spend("starts", MaxStarts)
    /\ \/ file = "ready" /\ pc' = "idle" /\ ev' = "none" /\ today' = date
       \/ file = "none" /\ pc' = "setup" /\ ev' = "start" /\ today' = date
       \/ file = "torn" /\ pc' = "bricked" /\ UNCHANGED <<ev, today>>
    /\ overdue' = TRUE
    /\ UNCHANGED <<date, datenow, yday, unc, disk, view, history>>

-----------------------------------------------------------------------------
(* The clock.                                                              *)

\* option sockettimeout seconds pass
TimePasses ==
    /\ pc = "idle"
    /\ ~overdue
    /\ overdue' = TRUE
    /\ UNCHANGED <<date, pc, ev, memory, disk, view, history, spent>>

\* A punctual process has reacted to one midnight before the next one: it
\* looks at the date every sockettimeout seconds.
Midnight ==
    /\ date < LastDate
    /\ Punctual /\ pc \in Running => today = date
    /\ date' = date + 1
    /\ UNCHANGED <<overdue, pc, ev, memory, disk, view, history, spent>>

-----------------------------------------------------------------------------
Init ==
    /\ date = 1 /\ overdue = FALSE
    /\ pc = "down" /\ ev = "none"
    /\ today = 0 /\ datenow = 0 /\ yday = 0 /\ unc = 0
    /\ file = "none" /\ live = Blank /\ view = Blank /\ yest = Blank
    /\ added = [d \in Dates |-> 0]
    /\ lost = [d \in Dates |-> 0]
    /\ removed = [d \in Dates |-> 0]
    /\ fails = 0
    /\ spent = [b \in Bounded |-> 0]

\* What the process does by itself once it is not waiting in select().
Handler ==
    \/ Begin \/ RelabelConflict \/ RelabelCommitted \/ RelabelFails
    \/ SealConflict \/ SealCommitted \/ SealFails \/ Unlink \/ Rename
    \/ Connect \/ Setup \/ SetupDone \/ AddRows \/ AddRowsInPart
    \/ CheckOverdue \/ CheckCount \/ TimedCommit \/ Exit

Environment ==
    \/ \E e \in Received : Receive(e)
    \/ SocketTimeout("timeout") \/ SocketTimeout("term")
    \/ DevelRollover \/ Crash \/ Start \/ TimePasses \/ Midnight

Next == Handler \/ Environment

Spec == Init /\ [][Next]_vars

\* The handler runs to its end, and select() returns after sockettimeout
\* seconds when nothing else wakes it.
FairSpec ==
    /\ Spec
    /\ WF_vars(Handler)
    /\ WF_vars(SocketTimeout("timeout"))

-----------------------------------------------------------------------------
(* Properties.                                                             *)

Contents == [rows : [Dates -> Nat], done : SUBSET Dates]

\* The state has the shape the actions rely on: counters are natural numbers,
\* files hold rows and sealed days, the program counter is a known step.
TypeOK ==
    /\ date \in 1 .. LastDate /\ overdue \in BOOLEAN
    /\ pc \in Running \cup Halted /\ ev \in Events
    /\ today \in Dates /\ datenow \in Dates /\ yday \in Dates
    /\ unc \in Nat
    /\ file \in {"none", "torn", "ready"}
    /\ live \in Contents /\ view \in Contents /\ yest \in Contents
    /\ added \in [Dates -> Int] /\ lost \in [Dates -> Int]
    /\ removed \in [Dates -> Nat]
    /\ fails \in Nat
    /\ spent \in [Bounded -> Nat]

\* Every row that was filed under a day is in exactly one place: the live
\* database, the ".yesterday" file, or among the rows that a rollback or the
\* deletion of an old file took away.  The rollover neither copies nor drops.
Conservation ==
    \A d \in Dates :
        added[d] = view.rows[d] + yest.rows[d] + removed[d] + lost[d]

\* A day the ".yesterday" file declares complete is complete: it holds every
\* row ever filed under that day, except those a rollback lost, and none is
\* filed later into the new live database (switch_to_next_day, add_datagram).
SealedComplete ==
    \A d \in yest.done : added[d] = yest.rows[d] + lost[d]

\* The rows of a day are deleted with an old ".yesterday" file at the second
\* midnight after that day at the earliest: the fetcher has a day to ask.
RetainedADay ==
    \A d \in Dates : removed[d] > 0 => d + 2 <= date

\* Without failed commits, interrupted datagrams and crashes no row is lost,
\* through any number of rollovers, orderly stops and restarts.
OrderlyKeepsAll ==
    (~Crashes /\ spent.busy = 0 /\ spent.full = 0 /\ spent.partial = 0) =>
        \A d \in Dates : lost[d] = 0

\* The number of datagrams at risk is bounded: between two events less than a
\* full batch plus RetryCount for every commit that failed since the last one
\* that succeeded (commit_after_n_datagrams).
UncommittedBound ==
    pc = "idle" => unc < MaxUncommitted + RetryCount * fails

\* A database that was only half set up when the process died, and that will
\* refuse every later start, holds no data: deleting it loses nothing.
TornHoldsNothing ==
    file # "ready" => live = Blank

\* A failed commit is retried with later datagrams, also when it is a commit
\* of the rollover: the daemon does not end with an uncaught exception.
NeverDies == pc # "died"

\* Counted datagrams do not stay uncommitted: the timed commit gets them.
Flushed == (pc = "idle" /\ unc > 0) ~> (unc = 0)

\* A change of the date is noticed without any traffic (socket_timeout), and
\* the process ends up in the current day unless it ends altogether.
RolledOver == (pc = "idle" /\ today < date) ~> (today = date \/ pc \in Halted)

-----------------------------------------------------------------------------
(* What the fetcher may rely on.                                           *)

\* Rows are filed only under the day a datagram is being filed under, or later.
Floor == IF pc \in {"setup", "ddl", "add"} THEN today ELSE date

Promise == INSTANCE SealedStore WITH
    count <- [d \in Dates |-> added[d] - lost[d]],
    next <- live.done,
    file <- [d \in yest.done |-> yest.rows[d]],
    floor <- Floor

\* Whatever the rollover goes through and wherever it breaks off: days are
\* sealed once, when they are over, in increasing order; a sealed day keeps all
\* its rows, those who read the ".yesterday" file see it as it was sealed, and
\* the file is deleted only when a newer sealed day is to take its place.
StoreKeepsPromise == Promise!Spec

-----------------------------------------------------------------------------
(* The inductive invariant behind SealedComplete, for a punctual process   *)
(* without development rollovers.                                          *)

\* The rows or the status of day d have left the live database.
Past(d) == yest.rows[d] # 0 \/ removed[d] # 0 \/ d \in yest.done

\* What has left the live database is older than the day being collected.
Collecting == IF pc \in Running \ {"connect"} THEN today ELSE date

\* No row is filed under a later day.
Newest == IF pc \in Running THEN today ELSE date

Rolling == {"begin", "seal", "unlink", "rename", "connect"}

\* A running process is at most one midnight behind, and exactly one while it
\* rolls over; the day it seals is then the day it was collecting.
KeepsPace ==
    /\ pc \in Running => today <= date /\ date <= today + 1
    /\ pc \in Rolling => today < date
    /\ pc \in {"seal", "unlink", "rename"} => yday = today
    /\ ev # "devel" /\ pc # "relabel"

\* A datagram is filed under the day being collected.
FilesToday ==
    /\ pc \in Rolling /\ ev \in Received => datenow = date
    /\ pc \in {"setup", "ddl", "add"} /\ ev \in Received => datenow = today
    /\ pc = "add" => ev \in Received

\* A day is in the live database or has left it, never both.
LiveAndPastApart ==
    \A d \in Dates :
        /\ Past(d) => d < Collecting
        /\ view.rows[d] # 0 => ~Past(d)
        /\ d \in view.done => ~Past(d) /\ d < date
        /\ view.rows[d] # 0 => d <= Newest

\* The connection sees at least what is committed, and exactly that while the
\* files are switched.
ViewExtendsLive ==
    /\ live.done \subseteq view.done
    /\ \A d \in Dates : live.rows[d] <= view.rows[d]
    /\ pc \in {"unlink", "rename"} => view = live
    /\ pc = "rename" => yest = Blank

SealedInv ==
    /\ TypeOK
    /\ Conservation
    /\ SealedComplete
    /\ KeepsPace
    /\ FilesToday
    /\ LiveAndPastApart
    /\ ViewExtendsLive

\* What the refinement needs besides: a day is declared when it is over, after
\* every other day declared; its rows are not touched any more, and there is one
\* when the old ".yesterday" file goes.
SealsInOrder ==
    /\ \A d \in view.done : d < Floor /\ \A e \in yest.done : e < d
    /\ \A d \in view.done \ live.done, e \in live.done : e < d
    /\ \A d \in live.done : view.rows[d] = live.rows[d]
    /\ pc \in {"unlink", "rename"} => live.done # {}
=============================================================================
