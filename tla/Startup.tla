------------------------------- MODULE Startup -------------------------------
(***************************************************************************)
(* How a daemon begins and ends: tlsrpt_collectd_main with the part of     *)
(* tlsrpt_collectd_daemon before and after its loop, tlsrpt_reportd_main   *)
(* with the set-up of TLSRPTReportd.  The processes of a daemon share the  *)
(* names of its socket, its PID file and its databases; each may be killed *)
(* at any step, leaving them behind, and the next one finds them.          *)
(*                                                                         *)
(* A supervisor starts a process again when none is left.  By mistake one  *)
(* may be started beside another.  What the loops do is CollectdDaemon,    *)
(* CollectdSQLite, Reportd; the storages' own part of a shutdown as well.  *)
(***************************************************************************)
EXTENDS Options, Integers, FiniteSets

CONSTANTS
    Processes,
    Givens,      \* the invocations: options_from's arguments
    Urls,        \* [texts -> Seq(Databases \cup {"dummy", "strange"})]: a comma-separated option
    LogLevels,   \* the texts that are names of a log level, in any case
    FetcherLists,\* the texts of option fetchers that are lists of commands, none empty
    Databases,   \* the database files
    Dbname,      \* the one that option dbname of reportd names
    MaxMishaps   \* bound: kills, double starts and errors of the operating system

ASSUME StartupAssumption ==
    /\ Dbname \in Databases
    /\ {"socketname", "storage", "fetchers", "log_level"} \subseteq Known
    /\ "none" \notin Processes /\ MaxMishaps \in Nat
    /\ \A given \in Givens :
           LET config_of == options_from_cmd_env_cfg(given) IN
           config_of.outcome = "fits" =>
               Urls[config_of.value["storage"]] \in Seq(Databases \cup {"dummy", "strange"})

VARIABLES
    daemon,   \* which daemon: "collectd" or "reportd"
    config,   \* what options_from returns to each process
    db,       \* each database file: missing, half set up, another's, or good
    socket,   \* the process that bound the socket at socketname, or "none"
    pidfile,  \* the process whose number is in the PID file, or "none"
    pc,       \* the step of each process, "off" when there is none
    at,       \* the storage it opens
    code,     \* its exit code, once it is known
    beside,   \* history: processes that were not alone
    failed,   \* history: processes that met an error of the operating system
    mishaps   \* how many mishaps there have been

settings == <<daemon, config>>
vars == <<settings, db, socket, pidfile, pc, at, code, beside, failed, mishaps>>

None == "none"
Never == -1    \* not yet
Killed == -9   \* SIGKILL

On == {p \in Processes : pc[p] # "off"}

Goto(p, step) == pc' = [pc EXCEPT ![p] = step]

Mishap == mishaps < MaxMishaps /\ mishaps' = mishaps + 1

\* An error of the operating system in process p
Error(p) == Mishap /\ failed' = failed \cup {p}

Smooth == UNCHANGED <<failed, mishaps>>

\* The process ends with exit code n and does nothing more.
QuitAtOnce(p, n) ==
    /\ Goto(p, "off")
    /\ code' = [code EXCEPT ![p] = n]

\* The process leaves the "with PidFile" block with exit code n.
Quit(p, n) ==
    /\ Goto(p, "leave")
    /\ code' = [code EXCEPT ![p] = n]

-----------------------------------------------------------------------------
(* main                                                                    *)

Begin(p) ==
    /\ pc[p] = "off"
    /\ IF On = {}
       THEN beside' = beside \ {p} /\ UNCHANGED mishaps
       ELSE beside' = beside \cup On \cup {p} /\ Mishap
    /\ failed' = failed \ {p}
    /\ Goto(p, "options")
    /\ code' = [code EXCEPT ![p] = Never]
    /\ UNCHANGED <<settings, db, socket, pidfile, at>>

ConfigFits == config.outcome = "fits" /\ config.value["log_level"] \in LogLevels

\* Before the PID file: options that do not fit end the process, and so do a
\* log file that cannot be opened and a log level of another name
\* (setup_logging), as exceptions that nobody catches.
ReadOptions(p) ==
    /\ pc[p] = "options"
    /\ \/ config.outcome = "usage" /\ QuitAtOnce(p, 2) /\ Smooth
       \/ config.outcome # "usage" /\ ~ConfigFits /\ QuitAtOnce(p, 1) /\ Smooth
       \/ config.outcome = "fits" /\ QuitAtOnce(p, 1) /\ Error(p)
       \/ ConfigFits /\ Goto(p, "pid") /\ Smooth /\ UNCHANGED code
    /\ UNCHANGED <<settings, db, socket, pidfile, at, beside>>

\* faulty: refuses to overwrite the file
EnterExclusively(p) ==
    /\ pc[p] = "pid"
    /\ IF pidfile = None
       THEN /\ pidfile' = p
            /\ Goto(p, IF daemon = "collectd" THEN "clear" ELSE "fetchers")
            /\ UNCHANGED code
       ELSE QuitAtOnce(p, 8) /\ UNCHANGED pidfile
    /\ Smooth
    /\ UNCHANGED <<settings, db, socket, at, beside>>

\* PidFile.__enter__ overwrites what is there; an error is logged only.
Enter(p) ==
    /\ pc[p] = "pid"
    /\ \/ pidfile' = p /\ Smooth
       \/ Error(p) /\ UNCHANGED pidfile
    /\ Goto(p, IF daemon = "collectd" THEN "clear" ELSE "fetchers")
    /\ UNCHANGED <<settings, db, socket, at, code, beside>>

\* PidFile.__exit__ removes the file, whoever wrote it.
Leave(p) ==
    /\ pc[p] = "leave"
    /\ \/ pidfile' = None /\ Smooth
       \/ Error(p) /\ UNCHANGED pidfile
    /\ Goto(p, "off")
    /\ UNCHANGED <<settings, db, socket, at, code, beside>>

-----------------------------------------------------------------------------
(* tlsrpt_collectd_daemon up to its loop                                   *)

\* faulty: leaves what it finds
Keep(p) ==
    /\ pc[p] = "clear"
    /\ Goto(p, "bind")
    /\ Smooth
    /\ UNCHANGED <<settings, db, socket, pidfile, at, code, beside>>

\* remove_datagram_socket: an error is logged only.
Clear(p) ==
    /\ pc[p] = "clear"
    /\ IF config.value["socketname"] = Empty THEN Smooth /\ UNCHANGED socket
       ELSE \/ socket' = None /\ Smooth
            \/ Error(p) /\ UNCHANGED socket
    /\ Goto(p, "bind")
    /\ UNCHANGED <<settings, db, pidfile, at, code, beside>>

\* faulty: takes an address in use for its own
BindOrGoOn(p) ==
    /\ pc[p] = "bind"
    /\ IF config.value["socketname"] = Empty
       THEN Quit(p, 2) /\ Smooth /\ UNCHANGED socket
       ELSE /\ Goto(p, "open")
            /\ socket' = IF socket = None THEN p ELSE socket
            /\ Smooth /\ UNCHANGED code
    /\ at' = [at EXCEPT ![p] = 1]
    /\ UNCHANGED <<settings, db, pidfile, beside>>

\* The name must be given and free.  What follows, the change of its owner and
\* its mode, may fail without consequences.
Bind(p) ==
    /\ pc[p] = "bind"
    /\ \/ config.value["socketname"] = Empty /\ Quit(p, 2) /\ Smooth /\ UNCHANGED socket
       \/ /\ config.value["socketname"] # Empty /\ socket = None
          /\ Goto(p, "open") /\ socket' = p /\ Smooth /\ UNCHANGED code
       \/ /\ config.value["socketname"] # Empty /\ socket # None
          /\ Quit(p, 7) /\ Smooth /\ UNCHANGED socket
       \/ config.value["socketname"] # Empty /\ Quit(p, 7) /\ Error(p) /\ UNCHANGED socket
    /\ at' = [at EXCEPT ![p] = 1]
    /\ UNCHANGED <<settings, db, pidfile, beside>>

\* TLSRPTReportd.__init__: no fetcher, or an empty one among them, is an
\* exception.
CheckFetchers(p) ==
    /\ pc[p] = "fetchers"
    /\ IF config.value["fetchers"] \in FetcherLists
       THEN Goto(p, "open") /\ UNCHANGED code
       ELSE Quit(p, 8)
    /\ at' = [at EXCEPT ![p] = 1]
    /\ UNCHANGED <<settings, db, socket, pidfile, beside, failed, mishaps>>

\* The backends in their order; reportd has the one of option dbname.
Backends == IF daemon = "collectd" THEN Urls[config.value["storage"]] ELSE <<Dbname>>

-----------------------------------------------------------------------------
(* The databases                                                           *)

Opened(p) ==
    /\ at' = [at EXCEPT ![p] = @ + 1]
    /\ Goto(p, IF at[p] < Len(Backends) THEN "open" ELSE "loop")
    /\ UNCHANGED code

\* What get_plugin, sqlite3.connect and _check_database make of backend "at".
\* A query that fails says that the database is still to be set up.
Open(p) ==
    /\ pc[p] = "open"
    /\ IF Backends = <<>>
       THEN Quit(p, 2) /\ Smooth /\ UNCHANGED at
       ELSE LET url == Backends[at[p]] IN
            \/ url = "dummy" /\ Opened(p) /\ Smooth
            \/ url = "strange" /\ Quit(p, 8) /\ Smooth /\ UNCHANGED at
            \/ url \in Databases /\ db[url] = "good" /\ Opened(p) /\ Smooth
            \/ url \in Databases /\ db[url] = "foreign" /\ Quit(p, 4) /\ Smooth /\ UNCHANGED at
            \/ /\ url \in Databases /\ db[url] \in {"missing", "torn"}
               /\ Goto(p, "setup") /\ Smooth /\ UNCHANGED <<at, code>>
            \/ url \in Databases /\ Goto(p, "setup") /\ Error(p) /\ UNCHANGED <<at, code>>
            \/ url \in Databases /\ Quit(p, 8) /\ Error(p) /\ UNCHANGED at
    /\ UNCHANGED <<settings, db, socket, pidfile, beside>>

\* _setup_database, first CREATE TABLE: it is committed at once, and it fails
\* when the table exists.
Setup(p) ==
    /\ pc[p] = "setup"
    /\ LET name == Backends[at[p]] IN
       \/ /\ db[name] = "missing"
          /\ db' = [db EXCEPT ![name] = "torn"]
          /\ Goto(p, "version") /\ Smooth /\ UNCHANGED code
       \/ db[name] # "missing" /\ Quit(p, 3) /\ Smooth /\ UNCHANGED db
       \/ Quit(p, 3) /\ Error(p) /\ UNCHANGED db
    /\ UNCHANGED <<settings, socket, pidfile, at, beside>>

\* The other statements, up to the commit of the row in dbversion
SetupDone(p) ==
    /\ pc[p] = "version"
    /\ \/ db' = [db EXCEPT ![Backends[at[p]]] = "good"] /\ Opened(p) /\ Smooth
       \/ Quit(p, 3) /\ Error(p) /\ UNCHANGED <<db, at>>
    /\ UNCHANGED <<settings, socket, pidfile, beside>>

-----------------------------------------------------------------------------
(* The end                                                                 *)

\* A signal: collectd closes its socket and removes what has its name; reportd
\* commits.
Stop(p) ==
    /\ pc[p] = "loop"
    /\ IF daemon = "collectd"
       THEN /\ \/ socket' = None /\ Smooth /\ code' = [code EXCEPT ![p] = 0]
               \/ Error(p) /\ UNCHANGED socket /\ code' \in {[code EXCEPT ![p] = n] : n \in {0, 5}}
            /\ Goto(p, "flush")
       ELSE /\ \/ Quit(p, 0) /\ Smooth
               \/ Quit(p, 8) /\ Error(p)
            /\ UNCHANGED socket
    /\ UNCHANGED <<settings, db, pidfile, at, beside>>

\* A rollover in the loop or at the end replaces a database.  One that does
\* not get to its end leaves none, or one that is half set up.
CutShort ==
    /\ daemon = "collectd"
    /\ \E i \in DOMAIN Backends, left \in {"missing", "torn"} :
           /\ Backends[i] \in Databases /\ db[Backends[i]] = "good"
           /\ db' = [db EXCEPT ![Backends[i]] = left]

\* The last socket_timeout of the storages
Flush(p) ==
    /\ pc[p] = "flush"
    /\ \/ Smooth /\ UNCHANGED <<code, db>>
       \/ Error(p) /\ code' = [code EXCEPT ![p] = 6] /\ (UNCHANGED db \/ CutShort)
    /\ Goto(p, "leave")
    /\ UNCHANGED <<settings, socket, pidfile, at, beside>>

\* The set-up of a rollover fails: its sys.exit is no Exception, which the loop
\* or the end would catch or log, and what was still to be flushed is not.
SetupExits(p) ==
    /\ pc[p] \in {"loop", "flush"}
    /\ Quit(p, 3) /\ Error(p) /\ CutShort
    /\ UNCHANGED <<settings, socket, pidfile, at, beside>>

\* An exception leaves the loop: nothing is closed or removed but the PID file.
Die(p) ==
    /\ pc[p] = "loop"
    /\ Quit(p, 8) /\ Error(p)
    /\ UNCHANGED db \/ CutShort
    /\ UNCHANGED <<settings, socket, pidfile, at, beside>>

Kill(p) ==
    /\ p \in On /\ Mishap
    /\ Goto(p, "off")
    /\ code' = [code EXCEPT ![p] = Killed]
    /\ UNCHANGED db \/ (pc[p] \in {"loop", "flush"} /\ CutShort)
    /\ UNCHANGED <<settings, socket, pidfile, at, beside, failed>>

-----------------------------------------------------------------------------
Init ==
    /\ daemon \in {"collectd", "reportd"}
    /\ config \in {options_from_cmd_env_cfg(given) : given \in Givens}
    /\ db \in [Databases -> {"missing", "good", "foreign"}]
    /\ socket = None /\ pidfile = None
    /\ pc = [p \in Processes |-> "off"]
    /\ at = [p \in Processes |-> 1]
    /\ code = [p \in Processes |-> Never]
    /\ beside = {} /\ failed = {} /\ mishaps = 0

Step(p) ==
    \/ ReadOptions(p) \/ Enter(p) \/ Leave(p)
    \/ Clear(p) \/ Bind(p) \/ CheckFetchers(p)
    \/ Open(p) \/ Setup(p) \/ SetupDone(p) \/ Flush(p)

Next ==
    \E p \in Processes :
        Step(p) \/ Begin(p) \/ Stop(p) \/ SetupExits(p) \/ Die(p) \/ Kill(p)

Spec == Init /\ [][Next]_vars

\* Processes go on, and the supervisor starts one when there is none.  No
\* signal need ever come.
FairSpec ==
    /\ Spec
    /\ \A p \in Processes : WF_vars(Step(p))
    /\ WF_vars(\E p \in Processes : Begin(p) /\ On = {})

-----------------------------------------------------------------------------
(* Properties.                                                             *)

\* A collectd in its loop gets the datagrams that are sent to socketname: only
\* a process that ran beside it can have taken the name away.
Reachable ==
    \A p \in Processes :
        daemon = "collectd" /\ pc[p] = "loop" /\ p \notin beside => socket = p

\* A process that is killed takes nothing from those after it: each start
\* succeeds but for a reason that can be seen, a configuration or a database
\* that is not in order, a process beside it, or an error of its own.
StartsFailForAReason ==
    \A p \in Processes :
        code[p] \in 1 .. 8 =>
            \/ ~ConfigFits
            \/ daemon = "collectd" /\ (config.value["socketname"] = Empty \/ Backends = <<>>)
            \/ daemon = "reportd" /\ config.value["fetchers"] \notin FetcherLists
            \/ \E i \in DOMAIN Backends : Backends[i] = "strange"
            \/ \E name \in Databases : db[name] \in {"torn", "foreign"}
            \/ p \in beside \cup failed

\* A PID file that names no process was left by one that was killed, and a
\* socket nobody reads by one that did not end with exit code 0; or the
\* operating system refused to remove them.
LeftoversExplained ==
    /\ pidfile # None /\ pidfile \notin On => code[pidfile] = Killed \/ pidfile \in failed
    /\ socket # None /\ socket \notin On => code[socket] # 0 \/ socket \in failed

Usable ==
    /\ ConfigFits
    /\ daemon = "collectd" =>
           config.value["socketname"] # Empty /\ Backends # <<>>
    /\ daemon = "reportd" => config.value["fetchers"] \in FetcherLists
    /\ \A i \in DOMAIN Backends : Backends[i] # "strange"
    /\ \A name \in Databases : db[name] \notin {"torn", "foreign"}

\* Whatever has happened, as long as the configuration and the databases are
\* usable a daemon comes back to its loop.
ServiceReturns == Usable ~> (~Usable \/ \E p \in Processes : pc[p] = "loop")
-----------------------------------------------------------------------------
(* The inductive invariant behind the safety properties.                   *)

Steps ==
    {"off", "options", "pid", "clear", "fetchers", "bind", "open", "setup", "version",
     "loop", "flush", "leave"}

Opening == {"open", "setup", "version"}

Codes == {Never, Killed, 0, 1, 2, 3, 4, 5, 6, 7, 8}

TypeOK ==
    /\ daemon \in {"collectd", "reportd"}
    /\ config.outcome = "fits" => Backends \in Seq(Databases \cup {"dummy", "strange"})
    /\ db \in [Databases -> {"missing", "torn", "good", "foreign"}]
    /\ socket \in Processes \cup {None}
    /\ pidfile \in Processes \cup {None}
    /\ pc \in [Processes -> Steps]
    /\ at \in [Processes -> Nat \ {0}]
    /\ code \in [Processes -> Codes]
    /\ beside \subseteq Processes
    /\ failed \subseteq Processes

\* Two processes that run at the same time are beside each other.
Alone == \A p \in On \ beside : On = {p}

\* Where a process is says which options it was given, and that nothing has
\* decided its exit code before the end.
Course ==
    \A p \in Processes :
        /\ pc[p] \notin {"off", "options"} => ConfigFits
        /\ pc[p] \in {"clear", "bind", "flush"} => daemon = "collectd"
        /\ pc[p] = "fetchers" => daemon = "reportd"
        /\ pc[p] = "open" /\ Backends # <<>> => at[p] \in DOMAIN Backends
        /\ pc[p] \in {"setup", "version"} =>
               at[p] \in DOMAIN Backends /\ Backends[at[p]] \in Databases
        /\ pc[p] \notin {"off", "flush", "leave"} => code[p] = Never

\* What a process finds or makes, as long as it is alone and nothing fails
SocketCourse ==
    /\ daemon = "reportd" => socket = None
    /\ \A p \in Processes \ beside :
           /\ daemon = "collectd" /\ pc[p] \in Opening \cup {"loop"} => socket = p
           /\ pc[p] = "bind" /\ p \notin failed /\ config.value["socketname"] # Empty =>
                  socket = None
    /\ \A p \in Processes : socket = p /\ code[p] = 0 => p \in failed

DatabaseCourse ==
    \A p \in Processes :
        /\ pc[p] = "version" => db[Backends[at[p]]] # "foreign"
        /\ pc[p] = "setup" /\ p \notin beside \cup failed =>
               db[Backends[at[p]]] \in {"missing", "torn"}

PidFileCourse ==
    /\ pidfile # None => ConfigFits
    /\ pidfile # None /\ pidfile \notin On => code[pidfile] = Killed \/ pidfile \in failed

\* No process will set this database up: it is another's, or it was left half
\* set up.
Stuck(name) ==
    \/ db[name] = "foreign"
    \/ /\ db[name] = "torn"
       /\ \A p \in Processes : pc[p] = "version" => Backends[at[p]] # name

\* What keeps a process from its loop stays true.
Obstacle ==
    \/ ~ConfigFits
    \/ daemon = "collectd" /\ (config.value["socketname"] = Empty \/ Backends = <<>>)
    \/ daemon = "reportd" /\ config.value["fetchers"] \notin FetcherLists
    \/ \E i \in DOMAIN Backends : Backends[i] = "strange"
    \/ \E name \in Databases : Stuck(name)

ExplainedForGood ==
    \A p \in Processes : code[p] \in 1 .. 8 => Obstacle \/ p \in beside \cup failed

StartupInv ==
    /\ TypeOK
    /\ Alone
    /\ Course
    /\ SocketCourse
    /\ DatabaseCourse
    /\ PidFileCourse
    /\ ExplainedForGood
=============================================================================
