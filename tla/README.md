# A TLA+ model of tlsrpt-reporter

tlsrpt-reporter collects what mail servers report about the TLS sessions they
open (SMTP TLS reporting, RFC 8460) and sends a daily report to the owners of
the domains.  This directory holds TLA+ specifications of its three programs,
configurations of the model checker TLC, and proofs that the TLA+ proof system
TLAPS checks.  All line numbers are lines of
`src/tlsrpt_reporter/tlsrpt.py` unless another file is named; `PROJECT.json`
lists, definition by definition, the lines a definition models.

## 1. The system

| part | state | operations | talks to |
|---|---|---|---|
| **start and end of the daemons** (1419-1505, 1568-1585, 1613-1698) | socket, PID file, set-up of the databases, exit code | read options, enter `PidFile`, remove and bind the socket, open or set up each database, shut down | the next process, which finds what this one left |
| **options** (`config.py`) | none | command line, environment, configuration file, defaults | every program |
| **tlsrpt-collectd**, the daemon (`tlsrpt_collectd_daemon`, 1487-1611) | the datagram socket, the socket pair of the signal handler | one round of `select`: signals, one datagram, or a timeout | the mail servers' library; calls `add_datagram`, `socket_timeout`, `switch_to_next_day` of each storage |
| **tlsrpt-collectd**, an SQLite storage (`TLSRPTCollectdSQLite`, 439-609) | the live database and its open transaction, the file `.yesterday`, `today`, `uncommitted_datagrams`, `next_commit` | count a datagram, commit by number or by time, roll over at UTC midnight | leaves `.yesterday` to the fetcher |
| **tlsrpt-fetcher** (`TLSRPTFetcherSQLite`, 645-727) | the file it has opened, what it has still to print | the domain list of a day, the details of a domain | reads `.yesterday`; writes to a pipe of tlsrpt-reportd |
| **tlsrpt-reportd**, fetching and reporting (734-1192) | tables `fetchjobs`, `reportdata`, `reports` | `check_day`, `collect_domains`, `fetch_data`, `create_reports` | starts a fetcher for each list and each domain |
| **tlsrpt-reportd**, delivery (1058-1356) | table `destinations` | `render_report` books destinations, `send_out_reports` serves them | starts a mail or HTTP script for each attempt |
| **tlsrpt-reportd**, wake-up times (1358-1410) | `wakeuptime`, the `nexttry` columns | `wake_up_in`, `wake_up_at`, `run_loop` | |
| **RandPool** (`randpool.py`) | a pool of numbers | `get` | `schedule_report_delivery` |
| utilities, plugins (`utility.py`, `plugins.py`) | none | pure conversions; the lookup of a storage backend | |

Where it is hard:

* *Midnight.*  The rollover of the storage takes a dozen steps (two or three
  commits, close, delete, rename, connect, DDL).  A crash, a failed commit or
  the next midnight can come between any two of them, and the date is read
  several times.
* *Failing commits.*  Another connection to the live database (an
  administrator's, a backup's; the fetcher opens `.yesterday` only) makes a
  commit fail and leaves the transaction open; a full disk makes SQLite roll it
  back.  Some commits are inside `_db_commit`, which swallows the error, others
  not.
* *Partial work.*  A datagram can break after its first policy, a storage after
  the first of several, a domain list after its first lines, a report after its
  first destination.
* *Three programs without a protocol between them.*  The fetcher answers from
  whatever file `.yesterday` was when it opened it; the scripts go on when
  their timeout is over or the reportd is gone.
* *Restarts.*  Each table must allow the work to go on after a crash without
  a report being made twice or sent more often than necessary; a socket or a
  PID file that a killed process left must not keep the next one from working.
* *Time.*  Each round of the reportd forgets the wake-up times of the rounds
  before it.

What makes each part correct is stated as properties in its module; section 3
says which.  The hazards they are aimed at, each at its line, are listed in
`PROJECT.json`.

## 2. The modules

| module | models | state | actions |
|---|---|---|---|
| `SealedStore` | what a storage promises to those who fetch from it | the counts of each day, the sealed days that wait to be published, the `.yesterday` file, the first day still open | `Collect`, `Lose`, `Seal`, `Drop`, `Publish` |
| `CollectdSQLite` | one SQLite storage | database contents as the process sees them (`view`) and as committed (`live`), `.yesterday` (`yest`), `today`, `datenow`, `yday`, `unc`, `overdue`; history of rows added, lost, removed | one per step of a handler that a crash or another actor can follow: `Receive`, `Begin`, `SealCommitted`, `SealFails`, `Unlink`, `Rename`, `Connect`, `Setup`, `AddRows`, `CheckOverdue`, `CheckCount`, `TimedCommit`, ... |
| `CollectdDaemon` | the main loop of tlsrpt-collectd with several storages | socket, signals, ready keys, the current datagram and what is left of it, rows pending, saved and rolled back per storage, complete datagrams among the pending, the exit code | `Select`, `ReadDatagram`, `ReadSignal`, `Store`, `StoreInPart`, `StoreRaises`, `StoreMisshapen`, `Timeout`, `Rollover`, `Midnight`, `RolloverDies`, `SetupExits`, `Shutdown`, `Dump`, ... |
| `FetchDialogue` | the fetcher, its pipe, and the reading half of the reportd, line by line, while the collectd replaces the file | the file and the domains in it, what the fetcher has still to print, the pipe, what reportd reads next, its rows and jobs | `Unlink`, `Rename`, `AskList`, `Write`, `Exit`, `Perish`, `ReadHeader`, `ReadDay`, `ReadDomain`, `AskDetails`, `ReadDetails`, ... |
| `Reportd` | fetching data and creating reports | `view` and `db` of tables fetchjobs, reportdata, reports; the cursor of the running stage; the savepoint | `CheckDay`, `Accept`, `ReadDomain`, `ListEnds`, `ListBreaks`, `MarkJob`, `FetchDetails`, `Aggregate`, `RenderReport`, `TopicEnds`, ... |
| `Pipeline` | `Reportd` with a storage behind each fetcher | that of `Reportd`; per storage the days declared, the file, the sessions sealed; the sums in data and reports | those of `Reportd`; `Declare`, `Unlink`, `Rename`, `StartLate`, `Midnight` |
| `DeliveryPromise` | what the delivery promises to the outside | the outcome of each destination | `Publish`, `Deliver`, `Decide`, `Forget` |
| `ReportDelivery` | destinations and scripts | `view` and `db` of reports and destinations; the running script; scripts nobody waits for; copies delivered | `Render`, `BookDestination`, `ReportDone`, `StartScript`, `ScriptSucceeds`, `ScriptTimesOut`, `Record`, `OrphanEnds`, `Expire`, ... |
| `RandPool` | the pool behind `spread_out_delivery` | the pool | `Get` |
| `WakeUps` | when the reportd does what, on a clock | the clock, `wakeuptime`, the rows with their `nexttry`, a signal | `Wake`, `CheckDay`, `Succeed`, `Fail`, `Book`, `Stop`, `Tick`, ... |
| `Options` | `options_from` and its four sources | none (operators) | |
| `Startup` | both daemons before and after their loops | the processes, socket, PID file, databases, exit codes | `ReadOptions`, `Enter`, `Clear`, `Bind`, `Open`, `Setup`, `Stop`, `Flush`, `SetupExits`, `Leave`, `Kill`, ... |
| `MC...` | instances for TLC | | |
| `..._proofs` | theorems (section 5) | | |

How they are joined:

* `CollectdSQLite` implements `SealedStore` and `ReportDelivery` implements
  `DeliveryPromise`: `INSTANCE ... WITH` a mapping, checked by TLC and proved.
* `Pipeline` takes `Reportd` as an instance, with `avail`, what a fetcher
  announces, replaced by what is in the file of its storage, and implements it
  (section 5).  Its storages do
  what `SealedStore` allows, with the steps of the rollover that the fetcher
  can see kept apart.
* `WakeUps` extends `RandPool`: its bookings draw from the pool.  `Startup`
  extends `Options`: each process begins with what an invocation yields.
* `Reportd` and `ReportDelivery` are two views of one process.  Each keeps the
  whole main loop; in `Reportd` the stage `send` is one step, since it touches
  no other table, and in `ReportDelivery` the stages that gather data are the
  steps `CheckDay` and `Collect`, which may or may not complete a report.
  `WakeUps` is a third view, which keeps the times and drops the contents.

Conventions.  A process is a program counter `pc`; an action is the part of a
handler between two points where another actor can see a difference.  A
database has two values: as its connection sees it (`view`), and as a crash
leaves it (`live`, `db`); a commit copies one to the other and a crash the
other way.  Outside `WakeUps` time is never a number: a waiting row has the
flag `later`, the collectd's `next_commit` is the flag `overdue`, and dates are
small numbers.  Definitions whose comment begins with *faulty* are not part of
the model: each is a variant of the definition that follows it, with a bug that
would be plausible in this code, and is there to show that a property notices
it.

Data is abstracted to what decisions depend on.  A datagram of
`CollectdSQLite` is one unit of the row counter of its day; in
`CollectdDaemon` it is the sequence of its policies, because the storages
share it; in `FetchDialogue` it is a domain name in one of its notations.  A
report of `Reportd` is its day, domain, TLSRPT record, number and the set of
fetchers whose counters it sums; `Pipeline` keeps the sum as well.  A domain
name is elsewhere a model value, as are records and URIs; in `FetchDialogue` it
is its base, its case, the dots at its end and whether white space follows them,
because `normalize_domain_name` and `rstrip` (940) look at these and the
dialogue gives "." and the empty line a meaning; the constant `Dotted` says which
bases begin with a dot, since "." may be all that a dying fetcher prints of them.

What the storages of `CollectdDaemon` do with their transaction is what
`CollectdSQLite` does, without the steps: a failed commit leaves it open (a lock)
or rolls it back (a full disk), `uncommitted_datagrams` not knowing of the latter;
a rollover commits all there is, and may end the process, by an exception that
the loop does not catch (exit code 8 stands for all of these) or by `sys.exit` in
`_setup_database` (code 3).

## 3. The runs

All bounds are CONSTANTS that are named as such in the modules.

| run | asks | result |
|---|---|---|
| `CollectdFaults` | Does the rollover keep every row and seal only complete days, is there a day's time to fetch them, and does the storage implement `SealedStore`, with crashes, three starts, one lock held by another connection, one full disk, one broken datagram? | yes |
| `CollectdOrderly` | Without crashes: is anything lost, how much is at risk, is data flushed and midnight noticed at last (FairSpec)? | nothing lost; bounded; both happen |
| `CollectdBusyRollover` | Does a failed commit of the rollover leave the daemon alive? | no (4.1) |
| `DaemonFaults` | With three storages and every error path: is each datagram counted once and in order, does the first storage miss nothing, are all storages flushed at shutdown, is SIGTERM obeyed (FairSpec)? | yes; nothing but what SQLite rolls back; all but those after a failed set-up (exit code 3); yes |
| `DaemonStorages` | Do all storages get the data? | no (4.2) |
| `FetchDialogue` | Is what reportd stores the list and the data of the day it asked for, whichever file the fetcher had open and wherever it died; does each dialogue end (FairSpec)? | yes, but for names that begin with a dot or end in white space |
| `ReportdFaults` | Are reports made once, from complete, committed data, whatever the fetchers and crashes do? | yes |
| `ReportdHang` | Is a hanging fetcher given up? | no (4.3) |
| `Pipeline` | Are the numbers in a report those the collectds sealed; is a fetcher left out for a reason only; do sealed sessions get reported at last (FairSpec)? | yes |
| `DeliveryFaults` | Does the delivery implement `DeliveryPromise`; are reports committed whole; are duplicates only the unavoidable ones; is each destination decided at last (FairSpec)? | yes |
| `WakeUps` | Is a row ever served late because its wake-up time was overwritten; are midnight and signals noticed in time; does the loop spin; are the draws even? | in time, no spinning, even |
| `Startup` | Does a daemon come back whatever the one before left; do starts fail for a visible reason only; can a collectd lose its socket name unnoticed? | yes; yes; only to a second collectd |

The type invariants are proved (section 5), on their own or as part of an
inductive invariant; no run spends its time on them.

Why the bounds are enough:

* *CollectdSQLite.*  In `CollectdFaults` three dates give two rollovers, the
  least number for a `.yesterday` file to be replaced and its rows to be
  removed; batches of two, retried after two more, with three datagrams, reach
  a full batch, an overdue batch, and a batch that fails.  There is one fault
  of each kind, on any commit and in any order, and two restarts.
  `CollectdOrderly` has two dates, a fourth datagram, so that a batch that
  failed becomes due again, a restart, and a development rollover, so that
  `.yesterday` is replaced here too.
* *CollectdDaemon.*  A datagram of one good policy, one of a good, a broken
  and a good one, one without policies, one that is JSON of another shape, one
  that is no JSON: three of them, in any order; storages sqlite, dummy, sqlite;
  two signals waiting; one error of a database, a rollover or a set-up (an error
  ends the round or the process, and the next round starts from a state that is
  reachable without it but for the rows it left pending or took away).
* *FetchDialogue.*  Two days, so that the file is replaced while a list or
  details are read; two datagrams out of seven notations, among them one name
  in three, with a final dot and with white space, one that begins with a dot and
  one that ends in two, the dot and the empty name; a pipe of one line, the
  hardest case for both ends; one retry, two deaths, so that a job can be given
  up and can succeed after a death.
* *Reportd.*  Two fetchers that share one of two domains and one of two
  records: a report that sums two fetchers, a domain with two reports, and a
  fetcher without data for a domain.  Three dates with `keep_days` 2, so that
  days expire while others are open.  One retry, so that success after a
  retry and giving up both happen.  The file of the second fetcher may be
  missing for a while and then come with an older day (`CutShort`); that of the
  first only moves on.
* *Pipeline.*  Two fetchers and two rollovers with one mishap: a file that
  declares two days, a collectd that was down at midnight, a process that died
  after the day was declared or after the old file was deleted, each met by the
  other storage in good order.  `KeepDays` 4 keeps the
  clean-up, which `ReportdFaults` exercises, out of the three days.
* *ReportDelivery.*  Two reports: one for a mail address and for a URI of an
  unknown scheme, one with the same RUA twice.  One retry, two starts.
* *WakeUps.*  Thirteen ticks with an interval of three: a day's end, a job with
  a retry, three bookings out of a pool of two (so that it is refilled), waits
  of one and six, shorter and longer than the interval, and rounds of up to one
  tick.
* *Startup.*  All combinations of six command lines, six environments and
  seven configuration files at two places; two processes, two mishaps: a kill and
  a double start, a kill in the set-up and one after it, a rollover that ends
  the process and leaves its database torn or missing, and so on.  A log level
  that Python does not know, a log file that cannot be opened and an empty entry
  in the list of fetchers are among the values.

All runs switch deadlock checking off: the processes may stop (`stopped`,
`died`, `crashed`, `bricked`) with their starts used up, the days and the
clock end, and a configuration may be of no use.

Fairness.

* `WF_vars(Handler)`, `WF_vars(Loop)`, `WF_vars(RunLoop)`, and in `Pipeline`
  `WF_vars(Reporting)`: a process that is not waiting goes on; all of them are
  single threaded, and one action of theirs is enabled until they wait.  Among
  several enabled steps of `RunLoop` none is preferred: that a list is
  delivered or a script succeeds is never assumed.
* `WF_vars(SocketTimeout("timeout"))`: `select` returns after `sockettimeout`
  seconds.  `WF_vars(WakeUp)`: the reportd's sleep is bounded by
  `interval_main_loop`.  `SF_vars(TimePasses)` and `SF_vars(FallsDue(k))`: the
  time in `nexttry` is fixed and is reached although the process sleeps and
  wakes again in between, which interrupts the action's being enabled.
* `FetchDialogue`: `WF_vars(Fetcher)` and `WF_vars(Reader)`, the two processes
  at the ends of the pipe.  They are separate, so that waiting for one another
  for ever would be found.
* `Pipeline` adds that days pass and the collectds react, and
  `SF_vars(Reporting /\ \E r : FetchDetails(r))`: of the attempts at details,
  which the code repeats in each round, one succeeds.  This is an assumption
  on the fetchers, and it is needed: nothing else ends the questions (section 4).
* `Startup`: each process goes on, and a supervisor starts one when none is
  left.  No signal is assumed to come.

No fairness is assumed of crashes, signals, locks, errors or the operating
system: they may come or not, at any of the steps, as often as the bounds of the
run allow.  What is assumed of them is what the models are built on: SQLite's
transactions are atomic and durable and a commit fails in one of two ways; a file
is deleted or renamed at once or not at all; at midnight the clock goes to the
next day and not back.

## 4. Disagreements between the code and its documentation

Shown by a run that ends in a counterexample:

1. *A lock on the live database at midnight ends the collectd*
   (`CollectdBusyRollover`).  The commit at line 482 fails, the row of
   daystatus stays pending, and the next event inserts it again:
   IntegrityError, caught nowhere in the daemon.
2. *Only the first SQLite storage counts* (`DaemonStorages`).  `_add_policy`
   takes keys out of the dictionary that all storages get (555-557).
3. *A fetcher that hangs stops the reportd* (`ReportdHang`); option
   `max_collectd_timeout` is read nowhere.

Found by TLC when a constant of a configuration is changed:

* `KeepDays = 1` in `ReportdFaults`: `ReportedOnce` fails.  Line 832 deletes
  the jobs and reports of yesterday in each round, and they are made again.
  The theorem `NothingReportedTwice` assumes `KeepDays >= 2`.

Seen while modelling; the models do what the code does:

* *A failed commit is retried with the next datagram* when another connection
  holds its lock for long.  The comment at 517-518 ("this way we avoid retrying
  it after each datagram") and `doc/tlsrpt-collectd.adoc:57` promise otherwise.
  But `next_commit` is set before the commit (519), `sqlite3.connect` (366, 492)
  waits five seconds for a lock unless told otherwise, and `sockettimeout` is
  five by default: when the commit gives up, `next_commit` is past, and line 533
  tries again.  With the default options the promise is not kept; no property
  claims it.  The constant `BusyOutlastsTimeout` of `CollectdSQLite` has both
  cases, and the theorems hold for either.
* A full disk makes SQLite roll the transaction back (522-527): the rows of all
  datagrams since the last commit are gone, while `uncommitted_datagrams` goes on
  counting them.  Actions `CommitFails` and `RollBack`.
* A rollover whose new database cannot be set up calls `sys.exit` (383).  During
  shutdown SystemExit passes the handler at 1581, whose comment says "catch all
  exceptions to avoid interrupting shutdown": the later storages are not flushed,
  and the exit code is 3 instead of 6.  Actions `SetupExits`.
* JSON of another shape (a list, a policy that is a number) raises TypeError or
  AttributeError, which ends the daemon.  Action `StoreMisshapen`.
* A collectd that was not running at midnight keeps the rows of the old day in
  the live database under that day, but only the day before the next rollover is
  declared complete (469, 481): the rows of the day it missed are in the next
  `.yesterday` file and are never fetched.  `StartLate` of `Pipeline`.
* *The same RUA twice in one TLSRPT record ends the reportd, and every restart
  of it.*  The second
  INSERT into destinations (1140) is an IntegrityError; the transaction with the
  report is lost, so the next start renders the same report and ends the same
  way, before `send_out_reports` is reached: nothing is sent to anybody until
  the clean-up has deleted that day, `keep_days` days later (832).
  `BookDestination`; run `DeliveryFaults` has such a record.
* A name with white space at its end loses it on the way to reportd (940) but not
  in the database of the collectd: its details are asked for under another name
  and are empty.  `DetailsOfTheDay` says so.  A name of nothing but white space
  looks like the end of the file.
* A fetcher that dies after the first dot of a name leaves a line that looks like
  the end of the list (942): the list is stored, cut short, as complete.
  `ListIsTheDays` says so.
* A second SIGUSR2 on one day replaces the `.yesterday` file of the first.  The
  signal is for tests; the theorems about sealed days exclude it.
* Details that cannot be fetched are asked for in each round without an end;
  option `max_retries_domaindetails` (`doc/tlsrpt-reportd.adoc:110`) is read
  nowhere, nor are the waits that go with it.
* Options `max_retries_domainlist` and `max_retries_delivery` allow one
  attempt more than "give up after n failed attempts" (886, 1348);
  `BoundedRuns` and the type invariants state the bound the code keeps.
* Retries may come later than `max_wait_...` seconds
  (`doc/tlsrpt-reportd.adoc:96`, `:126`): each round overwrites the wake-up
  time with `interval_main_loop` (1391), so that a retry planned by an earlier
  round waits for the next one.  `NothingForgotten` states how much later.
* `doc/tlsrpt-reportd.adoc:104`: the reportd does not wait
  `max_collectd_timediff` seconds after midnight; it only compares the clocks
  and logs a warning (925).
* With `dump_path_for_invalid_datagram` unset, an invalid datagram ends the
  daemon: `Path('')` can not be written (1606, 1609).  Action `Dump`.
* A fetcher that breaks off after its first line ends the reportd: ValueError
  at line 921 is outside the try block.  Actions `Garble`, `ReadHeader`.
* A script that does not read its input blocks `stdin.write` before the
  timeout starts to count (1255, 1287).  Action `ScriptBlocks`.
* The rows of a datagram that broke in the middle are not counted as
  uncommitted and stay in the transaction until another datagram arrives
  (520).  Action `AddRowsInPart`.
* A commit that fails at SIGTERM is swallowed and the exit status is 0 (527,
  1570).  Action `Shutdown`.
* Any signal the reportd handles ends it, SIGUSR2 too (1404-1410).  Action `Stop`
  of `WakeUps`.
* A domain "." ends a list early, and an empty name makes it fail for ever
  (942): `ListIsTheDays` says so.
* `spread_out_delivery = 0` makes an empty pool, and `pop` raises IndexError
  in `render_report` (`randpool.py:46`).
* A fetcher command that is listed twice collides on the primary key of
  reportdata; the models have a set of fetchers.
* Exit status: `doc/tlsrpt-collectd.adoc:83` says 3 for a usage error, where
  the code has 2 (58) and 3 for a failed database set-up;
  `doc/tlsrpt-reportd.adoc:166` lists 0 and 1 only.  The example
  `--config-file` (`doc/tlsrpt-collectd.adoc:90`) is rejected: the option is
  `--config_file`, and abbreviations are off.

## 5. What is proved

The theorems hold for all values of the constants that the named assumptions
of the modules allow: any number of dates, datagrams, reports, destinations,
fetchers, storages and faults.

| module | theorems | argument |
|---|---|---|
| `CollectdSQLite_proofs` | `TypeCorrect`, `RowsAreConserved`, `SealedDayIsComplete` | `PlacedInv` for the second: each action moves rows between the places the sum of `Conservation` ranges over, and while the files are switched nothing is pending and the target is free.  `SealedInv` for the third |
| | `StorageKeepsItsPromise` (refinement of `SealedStore`), `ADayToFetch` | `SealedInv`, for the first with `SealsInOrder`; for the second, that the `.yesterday` file is older than the day being collected |
| | `TornDatabaseIsEmpty`, `OrderlyLifeKeepsAll`, `RiskIsBounded` | one invariant each: `TornInv`, `OrderlyInv`, `RiskInv` |
| `CollectdDaemon_proofs` | `DaemonTypeCorrect`, `CountedInOrder`, `FirstStorageComplete`, `ShutdownFlushesAll` | `DaemonInv` |
| `FetchDialogue_proofs` | `ListsAreComplete`, `DetailsBelong`, `NotationsAreOne` | `DialogueInv` |
| `Reportd_proofs` | `ReportdTypeCorrect`, `WholeListsOnly`, `ReportsSumTheData`, `NumbersTellReportsApart`, `NothingReportedTwice` | `ReportdInv`, and `OnceInv` for the last |
| `Pipeline_proofs` | `ReportsSayWhatWasCounted`, `NobodyIsForgotten` | `PipelineInv`, which contains `ReportdInv` of the instance |
| | `PipelineImplementsReportd` (refinement of `Reportd`), `PipelineReportsOnce` | `Files`, a part of `PipelineInv`; the theorems of `Reportd_proofs`, instantiated, for the second |
| `ReportDelivery_proofs` | `DeliveryTypeCorrect`, `ReportsAreWhole`, `SentIsDelivered`, `ReportDeliveryKeepsPromise` (refinement of `DeliveryPromise`) | `DeliveryInv` |
| | `CopiesAreExcused`, `RunsAreBounded` | `CopiesInv`, `RunsInv` on top of `DeliveryInv` |
| `WakeUps_proofs` | `NothingIsForgotten`, `TheDayIsNoticed`, `SignalsAreObeyed`, `TheLoopNeverSpins` (an action property) | `WakeUpsInv` |
| | `DrawsAreFlat` (of `RandPool` alone), `DeliveriesAreSpread` | `FlatInv`, for any pool size |
| `Startup_proofs` | `SocketIsOurs`, `FailuresHaveReasons`, `LeftoversHaveReasons` | `StartupInv` |

With these, every safety and action property that a passing run checks is also
a theorem.  `TornDatabaseIsEmpty` (a database that a crash left half set up, and
that keeps every later start out, holds no row) is proved only.

Why strengthening is needed:

* `SealedComplete` is not inductive: nothing in it keeps a row from being filed
  under a day after it was sealed.  `SealedInv` adds what does: the process is
  at most one midnight behind and seals the day it has been collecting
  (`KeepsPace`); a datagram is filed under that day (`FilesToday`); a day is in
  the live database or has left it, and what has left is older than what is
  collected (`LiveAndPastApart`); nothing is pending while the files are
  switched (`ViewExtendsLive`).
* `StorageKeepsItsPromise`: the commit of the row in daystatus is `Seal`, a
  rename `Publish`, the deletion of the old file `Drop`, a counted datagram
  `Collect`, a crash or rollback `Lose`; all other steps are invisible.  `Seal`
  and `Drop` have guards, and `SealsInOrder` gives them: what is declared is over
  and later than all that was declared before, and when the old file goes there
  is a newer sealed day to take its place.
* `DaemonInv`: the socket keeps the order of sending (`InboxInOrder`), what
  `select` reported is still there when its turn comes (`KeysReady`), the
  current datagram is the last one taken and the first storage sees it as it
  was sent (`CurrentIsLast`), a storage whose turn is to come has counted
  nothing of it (`CountedWasTaken`).  `FirstIsComplete` (counted, or
  rolled back by SQLite) and `FlushedSoFar` (with the exit of a failed set-up)
  carry the two other properties through the round and the shutdown.
* `ReportdInv`: every commit leaves a sound database (`Sound`: whole lists,
  data only under finished lists, reports numbered 1 to n with complete sums),
  and at each stage the open transaction differs from the last commit only in
  what that stage has written so far, so that a crash falls back to a sound
  database and the next commit reaches one.  `OnceInv` adds that a report
  that was made is still there, or its day has expired and has no job any more;
  `check_day` makes no job for such a day, and this is where `KeepDays >= 2` is
  needed.
* `DeliveryInv`: what can be pending in the transaction at each stage, and that
  the cursors hold only rows that are still open.  With it the commit of a
  report is `Publish`, the commit of an attempt `Decide` or a stutter, a script
  that delivers `Deliver`, a commit after a clean-up `Forget`; all else,
  crashes included, is invisible.

* `DialogueInv` looks along the wire.  `ListIsTheDays` speaks of the end of a
  dialogue; in its middle the names of the day are partly stored, partly in the
  pipe and partly with the fetcher.  `LineAt` puts pipe and fetcher in one line,
  and `ListAhead` says what reportd will read there: if the third header line
  names the day asked for (`RightDay`), only domains of that day follow, and a
  dot only after all of them; a half line, which a dying fetcher may leave, is
  the last.  `ListSoFar` says the same of what is inserted, `DetailsAhead` of
  details, which may be void if the collectd had sealed another day when the
  fetcher opened the file (`FileIsLatest`).
* `PipelineInv` is `ReportdInv` with the files of the storages as what the
  fetchers announce, and: a file holds days that are over with the sessions
  they were sealed with (`Files`); details that were stored are those sessions
  and stay so although the file goes (`Details`); each report was summed from
  them (`Summed`).  Every step of `Pipeline` is one of `Reportd` or
  invisible to it: `Unlink` is `FileGoes` and `Rename` is `FileComes`; `Declare` is
  invisible.  So the
  lemmas of `Reportd_proofs`, taken over through the instance `RP`, keep
  `ReportdInv`.  `NobodyForgotten` then follows from `Sound`:
  a report is made when no job and no row of its topic is open.
* `WakeUpsInv`: at each moment of a round every open row either had its turn,
  and is then not due before the round began, or has still to get it
  (`RowTimes`, `Seen`).  Since a round begins at most one interval or one
  overlong round after the one before (`RoundTimes`), the overwriting of the
  wake-up time costs that much and no more.  `DayTimes` is the same for the
  look at the date, where the round that finds the day not over has planned
  the next look.  `wakeup` later than `begun` is what keeps the loop from
  spinning.
* `FlatInv`: the values left in the pool were drawn once less than the others.
* `StartupInv` follows each process along its `Course` and says what it found
  or made on the way as long as nobody ran beside it and nothing failed: that a
  socket is its own from `bind` on (`SocketCourse`), which database it has set
  up (`DatabaseCourse`), whose PID file there is (`PidFileCourse`).  A reason
  for an exit code must outlive the start that had it: `Obstacle` is made of
  facts that no step takes back, hence `Stuck`, a database left half set up of
  which no process is at work.

Assumptions beyond those of the modules:

* `Punctual` (the process sees every date) and `MaxDevel = 0` for
  `SealedDayIsComplete`, `ADayToFetch` and `StorageKeepsItsPromise`.  Both are
  needed: a stall over two midnights or a second SIGUSR2 on one day seals a day
  twice.
* `KeepDays >= 2` for `NothingReportedTwice`: without it TLC has a
  counterexample (section 4).

Three assumptions of the modules are about data, and the code gives them:
`DialogueBounds` that a notation is a record of base, case, dots and white space;
`StartupAssumption` that a `storage` option that was accepted is a list of
databases, the dummy backend and what no plugin knows (`Urls`);
`ReportdOptions` that the options `Pipeline` hands to `Reportd` are numbers and
that there is a day.  TLC evaluates them in the runs.

Only model-checked: liveness (`Flushed`, `RolledOver`, `TerminationObeyed`,
`DialogueEnds`, `SessionsReported`, `EveryDestinationDecided`,
`ServiceReturns`), since TLAPS does not handle ENABLED and fairness; and that
the three runs of section 4 violate their properties.  Nothing is proved of what
`Options` computes but what the proofs of `Startup` use of it: its folds over
sources are for TLC, as induction over data is out of the provers' reach.  The
sums of `Pipeline` (`Total`) are never unfolded in a proof: that the same
function is summed is all it needs.

## 6. What is not modelled

* The text of reports and e-mails, compression, file names; the formatting of
  times.
* `parse_tlsrpt_record`: the RUAs of a record are the constant `Ruas` of
  `ReportDelivery`, with malformed records and repeated URIs among its values.
* Logging: output that no part reads.
* The lookup of a plugin, which depends on the Python installation; that it
  finds nothing is a backend of `Startup`.
* The rollover script: started and never looked at again.
* The generator of manual pages (`src/tools`), which is not part of the
  running system.
* SQLite itself: a transaction is atomic and durable, a commit fails in one of
  two ways, and a reader never sees an uncommitted row.
* Debugging options (`debug_send_file_dest`, `debug_send_mail_dest`).
* Two collectds at work on the same databases: `Startup` has the two processes
  and what becomes of socket and PID file, but not their rows.

## 7. What could come next

1. `parse_tlsrpt_record` and the aggregation of failures as operators against
   reference definitions.
2. Two processes of one daemon on one database, from `Startup` into the loops.
3. `Reportd` and `ReportDelivery` as one specification, whose destinations are
   those of the reports made.
4. The order of precedence of the four sources of options as a theorem about
   `options_from`.
