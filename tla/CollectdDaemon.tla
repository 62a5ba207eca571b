---------------------------- MODULE CollectdDaemon ----------------------------
(***************************************************************************)
(* The main loop of tlsrpt-collectd (tlsrpt_collectd_daemon): it selects on*)
(* the datagram socket and on the socket the signal handler writes to, and *)
(* hands each datagram to every configured storage, one after the other.   *)
(*                                                                         *)
(* A datagram is the sequence of its policies; of a policy only matters    *)
(* whether it (still) has its key "f", which _add_policy takes out.  What  *)
(* a storage does with its rows, and when it commits, is CollectdSQLite;   *)
(* here a commit may happen after each datagram, or fail and be logged, and *)
(* the date may change before each handler.                                *)
(***************************************************************************)
EXTENDS Naturals, Sequences, FiniteSets

CONSTANTS
    Datagrams,
    Policies,    \* [Datagrams -> Seq(BOOLEAN)]: has the policy its key "f"?
    Garbage,     \* the datagrams that are not JSON
    Misshapen,   \* those that are JSON of another shape
    Storages,    \* the backends of option storage: a sequence of "sqlite", "dummy"
    DumpPathSet, \* TRUE iff option dump_path_for_invalid_datagram is set
    MaxSent,     \* bound: datagrams sent
    MaxErrors,   \* bound: errors of databases and rollovers
    MaxSignals   \* bound: signals received

ASSUME DatagramAssumption ==
    /\ Policies \in [Datagrams -> Seq(BOOLEAN)]
    /\ Garbage \subseteq Datagrams /\ Misshapen \subseteq Datagrams \ Garbage
ASSUME StorageAssumption == Storages \in Seq({"sqlite", "dummy"}) /\ Storages # <<>>
ASSUME DaemonOptions ==
    DumpPathSet \in BOOLEAN /\ MaxSent \in Nat /\ MaxErrors \in Nat /\ MaxSignals \in Nat

Index == DOMAIN Storages
Parts == {part \in Datagrams \X Nat : part[2] \in DOMAIN Policies[part[1]]}

VARIABLES
    pc,       \* the stage of the loop, or how the process ended
    inbox,    \* the datagrams waiting in the socket
    signals,  \* the signal numbers waiting in the socket pair
    keys,     \* what select returned and is still to be served
    haddata,  \* the loop has read a datagram
    cur,      \* the datagram being processed
    fields,   \* which of its policies still have "f"
    at,       \* the storage whose turn it is
    pending,  \* [Index -> Seq(Parts)]: policies counted but not committed
    saved,    \* [Index -> Seq(Parts)]: policies committed
    full,     \* [Index -> Nat]: uncommitted_datagrams
    lost,     \* history, [Index -> SUBSET Parts]: policies a roll-back took away
    exitcode, \* what the process returns (EXIT_OTHER for an exception)
    sent,     \* history: the datagrams sent so far, in order
    hit,      \* history: datagrams whose processing met a database error
    failed,   \* history: storages whose last commit or other write failed
    errors    \* history: database errors so far

vars == <<pc, inbox, signals, keys, haddata, cur, fields, at, pending, saved,
          full, lost, exitcode, sent, hit, failed, errors>>
sources == <<inbox, signals, sent>>
storage == <<pending, saved, full, lost, failed, errors>>
datagram == <<cur, fields, hit>>

Ended == {"stopped", "aborted", "died"}

-----------------------------------------------------------------------------
(* The sender and the signals                                              *)

Send(d) ==
    /\ pc \notin Ended \cup {"shutdown"}
    /\ Len(sent) < MaxSent
    /\ \A i \in DOMAIN sent : sent[i] # d
    /\ inbox' = Append(inbox, d)
    /\ sent' = Append(sent, d)
    /\ UNCHANGED <<pc, signals, keys, haddata, datagram, at, storage, exitcode>>

Signal(s) ==
    /\ pc \notin Ended
    /\ Len(signals) < MaxSignals
    /\ signals' = Append(signals, s)
    /\ UNCHANGED <<pc, inbox, keys, haddata, datagram, at, storage, exitcode, sent>>

-----------------------------------------------------------------------------
(* The loop                                                                *)

Ready == {key \in {"interrupt", "socket"} :
             IF key = "interrupt" THEN signals # <<>> ELSE inbox # <<>>}

\* The ready keys in any order.  Nothing ready is a timeout of select.
Select ==
    /\ pc = "select"
    /\ keys' \in {q \in [1 .. Cardinality(Ready) -> Ready] :
                     \A i, j \in DOMAIN q : q[i] = q[j] => i = j}
    /\ haddata' = FALSE
    /\ pc' = "keys"
    /\ UNCHANGED <<sources, datagram, at, storage, exitcode>>

\* One datagram is read per round; json.loads may reject it.
ReadDatagram ==
    /\ pc = "keys" /\ keys # <<>> /\ Head(keys) = "socket"
    /\ cur' = Head(inbox)
    /\ fields' = Policies[cur']
    /\ inbox' = Tail(inbox)
    /\ keys' = Tail(keys)
    /\ haddata' = TRUE
    /\ at' = 1
    /\ pc' = IF cur' \in Garbage THEN "dump" ELSE "store"
    /\ UNCHANGED <<signals, sent, hit, storage, exitcode>>

\* faulty: reads all the signals that are waiting, and looks at the first
ReadSignalsAtOnce ==
    /\ pc = "keys" /\ keys # <<>> /\ Head(keys) = "interrupt"
    /\ signals' = <<>>
    /\ keys' = Tail(keys)
    /\ at' = 1
    /\ pc' = IF Head(signals) = "USR2" THEN "rollover" ELSE "shutdown"
    /\ inbox' = IF Head(signals) = "USR2" THEN inbox ELSE <<>>
    /\ UNCHANGED <<haddata, datagram, storage, exitcode, sent>>

\* One signal is read per round.  Any but SIGUSR2 closes and removes the socket.
ReadSignal ==
    /\ pc = "keys" /\ keys # <<>> /\ Head(keys) = "interrupt"
    /\ signals' = Tail(signals)
    /\ keys' = Tail(keys)
    /\ at' = 1
    /\ pc' = IF Head(signals) = "USR2" THEN "rollover" ELSE "shutdown"
    /\ inbox' = IF Head(signals) = "USR2" THEN inbox ELSE <<>>
    /\ UNCHANGED <<haddata, datagram, storage, exitcode, sent>>

KeysDone ==
    /\ pc = "keys" /\ keys = <<>>
    /\ at' = 1
    /\ pc' = IF haddata THEN "select" ELSE "timeout"
    /\ UNCHANGED <<sources, keys, haddata, datagram, storage, exitcode>>

-----------------------------------------------------------------------------
(* The storages                                                            *)

Counted(i) == saved[i] \o pending[i]

Elements(q) == {q[k] : k \in DOMAIN q}

\* policies 1 to n of the current datagram
Prefix(n) == [k \in 1 .. n |-> <<cur, k>>]

\* how many policies come before the first without "f"
Usable(q) == Cardinality({n \in DOMAIN q : \A k \in 1 .. n : q[k]})

\* the keys "f" of the first n policies are taken out
Popped(q, n) == [k \in DOMAIN q |-> q[k] /\ k > n]

NextStorage(stage) ==
    /\ at' = at + 1
    /\ pc' = IF at < Len(Storages) THEN stage ELSE "keys"

\* add_datagram of a storage that only looks at the datagram
StoreDummy ==
    /\ pc = "store" /\ Storages[at] = "dummy"
    /\ NextStorage("store")
    /\ UNCHANGED <<sources, keys, haddata, datagram, storage, exitcode>>

\* What becomes of the open transaction of storage "at" when rows q have been
\* put into it, and with them n datagrams are complete: it stays open, it is
\* committed, or SQLite rolls it back.
Keep(q, n) ==
    /\ pending' = [pending EXCEPT ![at] = @ \o q]
    /\ full' = [full EXCEPT ![at] = @ + n]
    /\ UNCHANGED <<saved, lost>>

Commit(q) ==
    /\ saved' = [saved EXCEPT ![at] = @ \o (pending[at] \o q)]
    /\ pending' = [pending EXCEPT ![at] = <<>>]
    /\ full' = [full EXCEPT ![at] = 0]
    /\ failed' = failed \ {at}
    /\ UNCHANGED <<lost, errors>>

RollBack(q) ==
    /\ pending' = [pending EXCEPT ![at] = <<>>]
    /\ lost' = [lost EXCEPT ![at] = @ \cup Elements(pending[at] \o q)]
    /\ UNCHANGED saved

Error ==
    /\ errors < MaxErrors
    /\ errors' = errors + 1
    /\ failed' = failed \cup {at}

\* sqlite3.OperationalError: another connection holds a lock and the transaction
\* stays open, or the disk is full and it is rolled back, which
\* uncommitted_datagrams does not hear of.
Fail(q, n) ==
    /\ Error
    /\ \/ Keep(q, n)
       \/ RollBack(q) /\ full' = [full EXCEPT ![at] = @ + n]

\* A second commit, which has nothing left to write, succeeds after a roll-back.
Emptied(q) == Error /\ RollBack(q) /\ full' = [full EXCEPT ![at] = 0]

\* add_datagram: all policies are counted; one or two commits may be due.
Store ==
    /\ pc = "store" /\ Storages[at] = "sqlite" /\ cur \notin Misshapen
    /\ Usable(fields) = Len(fields)
    /\ fields' = Popped(fields, Len(fields))
    /\ LET q == Prefix(Len(fields)) IN
       \/ Keep(q, 1) /\ UNCHANGED <<failed, errors>>
       \/ Commit(q)
       \/ Fail(q, 1)
       \/ Emptied(q)
    /\ NextStorage("store")
    /\ UNCHANGED <<sources, keys, haddata, cur, hit, exitcode>>

\* add_datagram raises KeyError at the first policy without "f": the policies
\* before it stay counted, and the next storage is served.
StoreInPart ==
    /\ pc = "store" /\ Storages[at] = "sqlite" /\ cur \notin Misshapen
    /\ Usable(fields) < Len(fields)
    /\ Keep(Prefix(Usable(fields)), 0)
    /\ fields' = Popped(fields, Usable(fields))
    /\ NextStorage("store")
    /\ UNCHANGED <<sources, keys, haddata, cur, hit, failed, errors, exitcode>>

\* faulty: starts over with the first storage after a database error
StoreRaisesAgain ==
    /\ pc = "store" /\ Storages[at] = "sqlite" /\ cur \notin Misshapen
    /\ Error
    /\ hit' = hit \cup {cur}
    /\ at' = 1
    /\ fields' = Policies[cur]
    /\ UNCHANGED <<sources, keys, haddata, pc, cur, pending, saved, full, lost, exitcode>>

\* sqlite3.OperationalError while policy n + 1 is counted: the rest of the
\* datagram, of the storages and of the keys is dropped.
StoreRaises ==
    /\ pc = "store" /\ Storages[at] = "sqlite" /\ cur \notin Misshapen
    /\ \E n \in 0 .. Usable(fields) : Fail(Prefix(n), 0)
    /\ hit' = hit \cup {cur}
    /\ pc' = "select"
    /\ UNCHANGED <<sources, keys, haddata, cur, fields, at, exitcode>>

\* JSON of another shape is a TypeError or AttributeError, which leaves the loop.
StoreMisshapen ==
    /\ pc = "store" /\ Storages[at] = "sqlite" /\ cur \in Misshapen
    /\ exitcode' = 8
    /\ pc' = "died"
    /\ UNCHANGED <<sources, keys, haddata, datagram, at, storage>>

\* _db_commit of storage "at", which has nothing to do without complete datagrams
DbCommit ==
    IF full[at] = 0 THEN UNCHANGED storage ELSE Commit(<<>>) \/ Fail(<<>>, 0)

\* socket_timeout of each storage in turn
Timeout ==
    /\ pc = "timeout"
    /\ DbCommit
    /\ at' = at + 1
    /\ pc' = IF at < Len(Storages) THEN "timeout" ELSE "select"
    /\ UNCHANGED <<sources, keys, haddata, datagram, exitcode>>

\* faulty: relies on _db_commit, and closes the connection without a commit of
\* the row in daystatus and of what else is pending
SwitchesByDbCommit ==
    \/ full[at] # 0 /\ Commit(<<>>)
    \/ /\ full[at] = 0
       /\ pending' = [pending EXCEPT ![at] = <<>>]
       /\ UNCHANGED <<saved, full, lost, failed, errors>>

\* switch_to_next_day commits all there is, complete datagram or not.
Switches == Commit(<<>>) \/ Emptied(<<>>)

\* SIGUSR2: each storage in turn
Rollover ==
    /\ pc = "rollover"
    /\ Switches
    /\ NextStorage("rollover")
    /\ UNCHANGED <<sources, keys, haddata, datagram, exitcode>>

\* A handler finds that the date has changed, and goes on when all is switched.
Midnight ==
    /\ pc \in {"store", "timeout", "shutdown"} /\ Storages[at] = "sqlite"
    /\ Switches
    /\ UNCHANGED <<pc, sources, keys, haddata, datagram, at, exitcode>>

\* The other storages and keys are dropped for this round.
TimeoutOrRolloverRaises ==
    /\ pc \in {"timeout", "rollover"} /\ Storages[at] = "sqlite"
    /\ Fail(<<>>, 0)
    /\ pc' = "select"
    /\ UNCHANGED <<sources, keys, haddata, datagram, at, exitcode>>

\* The rollover raises what the loop does not catch: IntegrityError for a day
\* that is inserted twice, OSError when the files can not be switched.
RolloverDies ==
    /\ pc \in {"store", "timeout", "rollover"} /\ Storages[at] = "sqlite"
    /\ Error
    /\ exitcode' = 8
    /\ pc' = "died"
    /\ UNCHANGED <<sources, keys, haddata, datagram, at, pending, saved, full, lost>>

\* _setup_database of the new day fails, when all is committed, and calls
\* sys.exit: SystemExit is no Exception, and passes all handlers.
SetupExits ==
    /\ pc \in {"store", "timeout", "rollover", "shutdown"} /\ Storages[at] = "sqlite"
    /\ pending[at] = <<>> /\ full[at] = 0
    /\ Error
    /\ exitcode' = 3
    /\ pc' = IF pc = "shutdown" THEN "aborted" ELSE "died"
    /\ UNCHANGED <<sources, keys, haddata, datagram, at, pending, saved, full, lost>>

\* faulty: an exception ends the shutdown at once
ShutdownCutShort ==
    /\ pc = "shutdown"
    /\ \/ /\ DbCommit
          /\ at' = at + 1
          /\ pc' = IF at < Len(Storages) THEN "shutdown" ELSE "stopped"
          /\ UNCHANGED exitcode
       \/ /\ Storages[at] = "sqlite" /\ Fail(<<>>, 0)
          /\ exitcode' = 6
          /\ pc' = "stopped"
          /\ UNCHANGED at
    /\ UNCHANGED <<sources, keys, haddata, datagram>>

\* Each storage gets its last socket_timeout, whatever Exception the others
\* raise: OperationalError, IntegrityError or OSError of a rollover.
Shutdown ==
    /\ pc = "shutdown"
    /\ \/ DbCommit /\ UNCHANGED exitcode
       \/ Storages[at] = "sqlite" /\ Fail(<<>>, 0) /\ exitcode' = 6
    /\ at' = at + 1
    /\ pc' = IF at < Len(Storages) THEN "shutdown" ELSE "stopped"
    /\ UNCHANGED <<sources, keys, haddata, datagram>>

\* The invalid datagram is written to the dump path.  Without one the path is
\* the working directory: the exception leaves the loop.
Dump ==
    /\ pc = "dump"
    /\ \/ DumpPathSet /\ pc' = "select" /\ UNCHANGED exitcode
       \/ ~DumpPathSet /\ pc' = "died" /\ exitcode' = 8
    /\ UNCHANGED <<sources, keys, haddata, datagram, at, storage>>

-----------------------------------------------------------------------------
Init ==
    /\ pc = "select"
    /\ inbox = <<>> /\ signals = <<>> /\ keys = <<>> /\ sent = <<>>
    /\ haddata = FALSE
    /\ cur = <<>> /\ fields = <<>> /\ at = 1
    /\ pending = [i \in Index |-> <<>>]
    /\ saved = [i \in Index |-> <<>>]
    /\ full = [i \in Index |-> 0]
    /\ lost = [i \in Index |-> {}]
    /\ exitcode = 0
    /\ hit = {} /\ failed = {} /\ errors = 0

Loop ==
    \/ Select \/ ReadDatagram \/ ReadSignal \/ KeysDone
    \/ StoreDummy \/ Store \/ StoreInPart \/ StoreRaises \/ StoreMisshapen
    \/ Timeout \/ Rollover \/ Midnight \/ TimeoutOrRolloverRaises
    \/ RolloverDies \/ SetupExits \/ Shutdown \/ Dump

Next ==
    \/ Loop
    \/ \E d \in Datagrams : Send(d)
    \/ \E s \in {"USR2", "TERM"} : Signal(s)

Spec == Init /\ [][Next]_vars

\* The process keeps running.
FairSpec == Spec /\ WF_vars(Loop)

-----------------------------------------------------------------------------
(* Properties.                                                             *)

\* The shape of the state; a storage is at work only while it has its turn.
TypeOK ==
    /\ pc \in {"select", "keys", "store", "dump", "timeout", "rollover",
               "shutdown"} \cup Ended
    /\ inbox \in Seq(Datagrams) /\ sent \in Seq(Datagrams)
    /\ signals \in Seq({"USR2", "TERM"})
    /\ keys \in Seq({"interrupt", "socket"})
    /\ pc \in {"store", "timeout", "rollover", "shutdown"} => at \in Index
    /\ pending \in [Index -> Seq(Parts)] /\ saved \in [Index -> Seq(Parts)]
    /\ full \in [Index -> Nat]
    /\ lost \in [Index -> SUBSET Parts]
    /\ exitcode \in {0, 3, 6, 8}

\* Where datagram d stands in the order of sending
Position(d) == CHOOSE i \in DOMAIN sent : sent[i] = d

\* No policy is counted twice, and each storage counts in the order of
\* arrival: nothing is processed again after an error, a signal or a timeout.
InOrderOnce ==
    \A i \in Index :
        \A m, n \in DOMAIN Counted(i) :
            m < n =>
                LET x == Counted(i)[m]
                    y == Counted(i)[n]
                IN \/ Position(x[1]) < Position(y[1])
                   \/ x[1] = y[1] /\ x[2] < y[2]

Handled(d) ==
    /\ \E i \in DOMAIN sent : sent[i] = d
    /\ \A i \in DOMAIN inbox : inbox[i] # d
    /\ d \notin Garbage \cup hit
    /\ ~(pc = "store" /\ cur = d)

\* Policy x is counted by storage i, or went with a transaction that SQLite
\* rolled back.
Accounted(i, x) == x \in lost[i] \/ \E m \in DOMAIN Counted(i) : Counted(i)[m] = x

CountsAllOf(i, d) == \A n \in 1 .. Usable(Policies[d]) : Accounted(i, <<d, n>>)

\* The first storage counts every datagram that was read without a database
\* error, up to the policy that is broken, whatever happens to others; what it
\* has counted is committed or pending, through timeouts, signals, rollovers
\* and failed commits, unless a full disk makes SQLite roll back a commit.
FirstStorageMissesNothing ==
    \A d \in Datagrams :
        /\ Handled(d) /\ Storages[1] = "sqlite"
        /\ pc \notin Ended \cup {"shutdown"}
        => CountsAllOf(1, d)

\* After a signal to end, no storage is left with complete datagrams it could
\* have committed, even when another storage fails.  Only the exit of a failed
\* set-up, with its own exit code, cuts the storages after it off.
ShutdownFlushes ==
    pc \in {"stopped", "aborted"} =>
        \A i \in Index :
            \/ full[i] = 0 \/ i \in failed
            \/ exitcode = 3 /\ pc = "aborted" /\ i > at

\* A signal to end the process is obeyed.
TerminationObeyed ==
    (\E i \in DOMAIN signals : signals[i] = "TERM") ~> pc \in Ended

\* Each of the configured storages gets the data.
EveryStorageCounts ==
    \A d \in Datagrams, i \in Index :
        /\ Handled(d) /\ Storages[i] = "sqlite"
        /\ pc \notin Ended \cup {"shutdown"}
        => CountsAllOf(i, d)

-----------------------------------------------------------------------------
(* The inductive invariant behind the safety properties.                   *)

\* how many of the datagrams sent are not in the socket any more
Taken == Len(sent) - Len(inbox)

\* The socket keeps the order of sending.
InboxInOrder ==
    /\ \A i, j \in DOMAIN sent : sent[i] = sent[j] => i = j
    /\ Len(inbox) <= Len(sent)
    /\ \A i \in DOMAIN inbox : inbox[i] = sent[Taken + i]

\* What select found is still there when its turn comes.
KeysReady ==
    pc \in {"keys", "store", "rollover"} =>
        /\ \A i, j \in DOMAIN keys : keys[i] = keys[j] => i = j
        /\ \A i \in DOMAIN keys :
               IF keys[i] = "socket" THEN inbox # <<>> ELSE signals # <<>>

\* The current datagram is the last one taken; the first storage sees it as sent.
CurrentIsLast ==
    pc = "store" =>
        /\ cur \in Datagrams /\ fields \in Seq(BOOLEAN)
        /\ Len(fields) = Len(Policies[cur])
        /\ Taken >= 1 /\ cur = sent[Taken]
        /\ at = 1 => fields = Policies[cur]

\* Everything counted was taken; a storage whose turn is to come has counted
\* nothing of the current datagram.
CountedWasTaken ==
    \A i \in Index : \A m \in DOMAIN Counted(i) :
        \E k \in 1 .. Taken :
            /\ Counted(i)[m][1] = sent[k]
            /\ pc = "store" /\ i >= at => k < Taken

FirstIsComplete ==
    Storages[1] = "sqlite" /\ pc \notin Ended \cup {"shutdown"} =>
        \A k \in 1 .. Taken :
            \/ sent[k] \in Garbage \cup hit
            \/ pc = "store" /\ at = 1 /\ k = Taken
            \/ CountsAllOf(1, sent[k])

FlushedSoFar ==
    /\ pc \in {"shutdown", "aborted", "stopped"} =>
           \A i \in Index :
               \/ full[i] = 0 \/ i \in failed
               \/ pc = "shutdown" /\ i >= at
               \/ pc = "aborted" /\ i > at
    /\ pc = "aborted" => exitcode = 3

DaemonInv ==
    /\ TypeOK /\ InboxInOrder /\ KeysReady /\ CurrentIsLast
    /\ CountedWasTaken /\ InOrderOnce /\ FirstIsComplete /\ FlushedSoFar
=============================================================================
