-------------------------------- MODULE WakeUps --------------------------------
(***************************************************************************)
(* When tlsrpt-reportd does what: wake_up_in, the sleep of run_loop, and   *)
(* the times in the nexttry columns, on a clock of whole ticks.  The       *)
(* fetch jobs of a day appear at midnight; when they are done the reports  *)
(* are created, whose destinations are to be served after a time drawn     *)
(* from RandPool.  What a job fetches is module Reportd, what a delivery   *)
(* does is module ReportDelivery.                                          *)
(*                                                                         *)
(* A round takes at most MaxRound ticks, wherever it spends them.  Within  *)
(* a tick, later steps come later: nexttry < now in the code is <= here.   *)
(***************************************************************************)
EXTENDS RandPool

CONSTANTS
    Jobs,        \* the fetch jobs of the day that ends
    Bookings,    \* the destinations of its reports
    Interval,    \* option interval_main_loop
    CheckWait,   \* the five minutes of check_day
    Waits,       \* from min_wait_... to max_wait_..., in ticks
    MaxRetries,  \* options max_retries_domainlist, max_retries_delivery
    Midnight,    \* the time at which the day ends
    MaxRound,    \* bound: the time a round takes
    EndTime      \* bound: the last tick

ASSUME WaitsAssumption ==
    /\ Interval \in Nat \ {0} /\ CheckWait \in Nat \ {0} /\ Waits \subseteq Nat \ {0}
    /\ Waits # {} /\ MaxRetries \in Nat
ASSUME TimeBounds == Midnight \in Nat /\ MaxRound \in Nat /\ EndTime \in Nat

VARIABLES
    now,     \* the clock
    pc,      \* the stage of run_loop
    wakeup,  \* wakeuptime
    begun,   \* when the round began
    todo,    \* what the cursor of the stage has still to return
    rows,    \* fetchjobs and destinations: the columns status, nexttry, retries
    signal   \* when the signal came that waits in the socket pair, or -1

loop == <<pc, wakeup, begun, todo>>
vars == <<now, loop, rows, signal, poolVars>>

Rows == Jobs \cup Bookings
Ended(status) == [status |-> status, next |-> 0, retries |-> 0]
Absent == Ended("absent")
Open(time) == [status |-> "open", next |-> time, retries |-> 0]
Later(row, time) == [status |-> row.status, next |-> time, retries |-> row.retries + 1]

Bigger(m, n) == IF m >= n THEN m ELSE n

\* faulty: the later of two wake-up times wins
LastWakeUp(time) == IF wakeup <= time THEN time ELSE wakeup

\* wake_up_at without force
WakeUpAt(time) == IF wakeup > time THEN time ELSE wakeup

Due(some) == {i \in some : rows[i].status = "open" /\ rows[i].next <= now}

\* faulty: a wake-up time that is over is kept
WakeUnforced ==
    /\ pc = "sleep" /\ now >= wakeup /\ signal = -1
    /\ wakeup' = WakeUpAt(now + Interval)
    /\ begun' = now
    /\ pc' = "check"
    /\ UNCHANGED <<now, todo, rows, signal, poolVars>>

\* faulty: no select when there is no time left to sleep
WakeOverdue ==
    /\ pc = "sleep" /\ now >= wakeup
    /\ wakeup' = now + Interval
    /\ begun' = now
    /\ pc' = "check"
    /\ UNCHANGED <<now, todo, rows, signal, poolVars>>

\* select times out.  The round begins with a forced wake-up time: what was
\* planned by earlier rounds is forgotten.
Wake ==
    /\ pc = "sleep" /\ now >= wakeup /\ signal = -1
    /\ wakeup' = now + Interval
    /\ begun' = now
    /\ pc' = "check"
    /\ UNCHANGED <<now, todo, rows, signal, poolVars>>

NewDay == now >= Midnight /\ \A j \in Jobs : rows[j].status = "absent"

\* faulty: does not look for the next day any earlier
CheckDayIdly ==
    /\ pc = "check"
    /\ rows' = IF NewDay THEN [i \in Rows |-> IF i \in Jobs THEN Open(now) ELSE rows[i]]
               ELSE rows
    /\ todo' = {j \in Jobs : rows'[j].status = "open" /\ rows'[j].next <= now}
    /\ pc' = "collect"
    /\ UNCHANGED <<now, wakeup, begun, signal, poolVars>>

\* The jobs of yesterday are created, and due at once; or they exist.
CheckDay ==
    /\ pc = "check"
    /\ IF NewDay
       THEN /\ rows' = [i \in Rows |-> IF i \in Jobs THEN Open(now) ELSE rows[i]]
            /\ UNCHANGED wakeup
       ELSE /\ wakeup' = WakeUpAt(now + CheckWait)
            /\ UNCHANGED rows
    /\ todo' = {j \in Jobs : rows'[j].status = "open" /\ rows'[j].next <= now}
    /\ pc' = "collect"
    /\ UNCHANGED <<now, begun, signal, poolVars>>

Attempt(i) == pc \in {"collect", "send"} /\ i \in todo /\ todo' = todo \ {i}

\* The list is fetched, the report delivered or its destination given up.
Succeed(i) ==
    /\ Attempt(i)
    /\ rows' = [rows EXCEPT ![i] = Ended("done")]
    /\ UNCHANGED <<now, pc, wakeup, begun, signal, poolVars>>

\* A retry in wait_domainlist or wait_retry_report_delivery seconds.
Fail(i) ==
    /\ Attempt(i)
    /\ IF rows[i].retries < MaxRetries
       THEN \E wait \in Waits :
              /\ rows' = [rows EXCEPT ![i] = Later(@, now + wait)]
              /\ wakeup' = WakeUpAt(now + wait)
       ELSE rows' = [rows EXCEPT ![i] = Ended("timedout")] /\ UNCHANGED wakeup
    /\ UNCHANGED <<now, pc, begun, signal, poolVars>>

CollectEnds ==
    /\ pc = "collect" /\ todo = {}
    /\ pc' = "create"
    /\ UNCHANGED <<now, wakeup, begun, todo, rows, signal, poolVars>>

\* render_report, for a day that is fetched: schedule_report_delivery asks
\* for no wake-up.
Book(i, secs) ==
    /\ pc = "create"
    /\ \A j \in Jobs : rows[j].status \notin {"absent", "open"}
    /\ rows[i].status = "absent"
    /\ Get(secs)
    /\ rows' = [rows EXCEPT ![i] = Open(now + secs)]
    /\ UNCHANGED <<now, loop, signal>>

\* Data that could not be fetched leaves reports to a later round.
CreateEnds ==
    /\ pc = "create"
    /\ pc' = "send"
    /\ todo' = Due(Bookings)
    /\ UNCHANGED <<now, wakeup, begun, rows, signal, poolVars>>

SendEnds ==
    /\ pc = "send" /\ todo = {}
    /\ pc' = "sleep"
    /\ UNCHANGED <<now, wakeup, begun, todo, rows, signal, poolVars>>

\* select reports the socket pair, whichever signal it was (SIGUSR2 too), even
\* when it is given no time at all.
Stop ==
    /\ pc = "sleep" /\ signal # -1
    /\ pc' = "stopped"
    /\ UNCHANGED <<now, wakeup, begun, todo, rows, signal, poolVars>>

Signal ==
    /\ signal = -1 /\ pc # "stopped"
    /\ signal' = now
    /\ UNCHANGED <<now, loop, rows, poolVars>>

\* Time passes in a round, or in the sleep until something ends it.
Tick ==
    /\ now < EndTime
    /\ IF pc = "sleep" THEN now < wakeup /\ signal = -1
       ELSE pc # "stopped" /\ now < begun + MaxRound
    /\ now' = now + 1
    /\ UNCHANGED <<loop, rows, signal, poolVars>>

Init ==
    /\ now = 0
    /\ pc = "check" /\ wakeup = Interval /\ begun = 0 /\ todo = {}
    /\ rows = [i \in Rows |-> Absent]
    /\ signal = -1
    /\ PoolInit

Next ==
    \/ Wake \/ CheckDay \/ CollectEnds \/ CreateEnds \/ SendEnds
    \/ \E i \in Rows : Succeed(i) \/ Fail(i)
    \/ \E i \in Bookings, secs \in Values : Book(i, secs)
    \/ Stop \/ Signal \/ Tick

Spec == Init /\ [][Next]_vars

-----------------------------------------------------------------------------
(* Properties.  Flat, of RandPool, holds for the draws of Book.            *)

\* Although each round forgets the wake-up times of the rounds before, no row
\* that is due is left waiting for longer than a sleep and the round after it.
NothingForgotten ==
    \A i \in Rows :
        rows[i].status = "open" =>
            now <= rows[i].next + Bigger(Interval, MaxRound) + MaxRound

\* The end of the day is noticed within the five minutes of check_day, or as
\* soon as the round that is running allows.
DayNoticed ==
    now > Midnight + Bigger(CheckWait, MaxRound) + MaxRound =>
        \A j \in Jobs : rows[j].status # "absent"

\* A signal ends the process when the running round ends.
SignalObeyed == signal # -1 => now <= signal + MaxRound

\* The loop never spins: each round begins later than the one before, however
\* the wake-up times, the retries and the overlong rounds meet.
NoSpin == [][pc = "sleep" /\ pc' = "check" => now > begun]_vars
-----------------------------------------------------------------------------
(* The inductive invariant behind the safety properties.                   *)

Round == {"check", "collect", "create", "send"}

TypeOK ==
    /\ now \in Nat /\ begun \in Nat /\ wakeup \in Nat
    /\ pc \in Round \cup {"sleep", "stopped"}
    /\ signal \in Nat \cup {-1}
    /\ rows \in [Rows -> [status : {"absent", "open", "done", "timedout"},
                          next : Nat, retries : Nat]]
    /\ todo \subseteq Rows

\* A round is as long as a round may be, and the sleep after it ends at the
\* wake-up time, which is after the beginning of the round.
RoundTimes ==
    /\ begun <= now
    /\ begun < wakeup /\ wakeup <= begun + Interval
    /\ now <= IF pc \in Round THEN begun + MaxRound ELSE Bigger(wakeup, begun + MaxRound)

\* A signal that waits came in this round, or in the sleep that it ended.
SignalTimes ==
    signal # -1 =>
        /\ signal <= now /\ now <= signal + MaxRound
        /\ pc \in Round => begun <= signal

\* The row had its turn in this round, if it was due.
Seen(i) ==
    \/ pc \in {"sleep", "stopped"}
    \/ i \in Jobs /\ pc \in {"create", "send"}
    \/ i \in Jobs /\ pc = "collect" /\ i \notin todo
    \/ i \in Bookings /\ pc = "send" /\ i \notin todo

\* A row was not due when the last round that had a turn for it began.
RowTimes ==
    /\ \A i \in todo : rows[i].status = "open"
    /\ \A i \in Rows :
           rows[i].status = "open" =>
               /\ begun <= rows[i].next + Bigger(Interval, MaxRound)
               /\ Seen(i) => begun <= rows[i].next

\* Before the jobs of the day exist each round has found that it is not over,
\* and has set the time of the next look.
DayTimes ==
    \A j \in Jobs :
        rows[j].status = "absent" =>
            /\ \A k \in Jobs : rows[k].status = "absent"
            /\ IF pc = "check" THEN begun <= Midnight + Bigger(CheckWait, MaxRound)
               ELSE begun < Midnight /\ wakeup < Midnight + CheckWait

WakeUpsInv ==
    /\ TypeOK
    /\ RoundTimes
    /\ SignalTimes
    /\ RowTimes
    /\ DayTimes
=============================================================================
