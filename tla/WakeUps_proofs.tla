---------------------------- MODULE WakeUps_proofs ----------------------------
(***************************************************************************)
(* When tlsrpt-reportd does what, for all numbers of jobs and deliveries   *)
(* and all waiting times, and how even the draws of RandPool are for every *)
(* size of the pool.                                                       *)
(***************************************************************************)
EXTENDS WakeUps, TLAPS

-----------------------------------------------------------------------------
(* RandPool.                                                               *)

LEMMA FlatInvInit == PoolInit => FlatInv
BY DEF PoolInit, FlatInv, Values

LEMMA FlatInvStep == FlatInv /\ [PoolNext]_poolVars => FlatInv'
<1> SUFFICES ASSUME FlatInv, [PoolNext]_poolVars PROVE FlatInv'
  OBVIOUS
<1>1. CASE UNCHANGED poolVars
  BY <1>1 DEF poolVars, FlatInv
<1>2. ASSUME NEW value \in Values, Get(value) PROVE FlatInv'
  <2> DEFINE f == Filled(pool)
  <2>1. /\ f \subseteq Values
        /\ \A v, w \in f : counts[v] = counts[w]
        /\ \A v, w \in Values \ f : counts[v] = counts[w]
        /\ \A v \in Values \ f, w \in f : counts[v] = counts[w] + 1
    BY DEF FlatInv, Filled
  <2>2. /\ value \in f
        /\ pool' = f \ {value}
        /\ counts' = [counts EXCEPT ![value] = @ + 1]
    BY <1>2 DEF Get
  <2>3. counts \in [Values -> Nat]
    BY DEF FlatInv
  <2> HIDE DEF f
  <2>4. counts' \in [Values -> Nat]
    BY <2>2, <2>3
  <2>5. \A v \in Values : counts'[v] = IF v = value THEN counts[v] + 1 ELSE counts[v]
    BY <2>2, <2>3
  <2>6. \A v, w \in pool' : counts'[v] = counts'[w]
    BY <2>1, <2>2, <2>5
  <2>7. ASSUME NEW v \in Values \ pool', NEW w \in Values \ pool'
        PROVE  counts'[v] = counts'[w]
    <3>1. v \notin f \/ v = value
      BY <2>2
    <3>2. w \notin f \/ w = value
      BY <2>2
    <3> QED BY <2>1, <2>2, <2>3, <2>5, <3>1, <3>2
  <2>8. ASSUME NEW v \in Values \ pool', NEW w \in pool'
        PROVE  counts'[v] = counts'[w] + 1
    <3>1. v \notin f \/ v = value
      BY <2>2
    <3> QED BY <2>1, <2>2, <2>3, <2>5, <3>1
  <2> QED BY <2>1, <2>2, <2>4, <2>6, <2>7, <2>8 DEF FlatInv
<1> QED BY <1>1, <1>2 DEF PoolNext

\* What the pool holds tells how often every value was drawn (RandPool.get).
THEOREM PoolTellsCounts == PoolSpec => []FlatInv
BY FlatInvInit, FlatInvStep, PTL DEF PoolSpec

LEMMA FlatFollows == FlatInv => Flat
<1> SUFFICES ASSUME FlatInv PROVE Flat
  OBVIOUS
<1>1. ASSUME NEW v \in Values, NEW w \in Values PROVE counts[v] <= counts[w] + 1
  <2>1. counts[v] \in Nat /\ counts[w] \in Nat
    BY DEF FlatInv
  <2> QED BY <2>1 DEF FlatInv
<1> QED BY <1>1 DEF Flat, FlatInv

\* The counts of the values drawn are flat after each round of the pool and
\* differ by at most one in between, as the docstring of RandPool says.
THEOREM DrawsAreFlat == PoolSpec => []Flat
BY FlatFollows, PoolTellsCounts, PTL

-----------------------------------------------------------------------------
(* Times.                                                                  *)

LEMMA BiggerType ==
    ASSUME NEW m \in Nat, NEW n \in Nat
    PROVE  Bigger(m, n) \in Nat /\ m <= Bigger(m, n) /\ n <= Bigger(m, n)
BY DEF Bigger

LEMMA WakeUpAtType ==
    ASSUME wakeup \in Nat, NEW time \in Nat
    PROVE  /\ WakeUpAt(time) \in Nat
           /\ WakeUpAt(time) <= wakeup /\ WakeUpAt(time) <= time
           /\ WakeUpAt(time) = wakeup \/ WakeUpAt(time) = time
BY DEF WakeUpAt

\* The round that begins after a sleep begins soon after the one before.
LEMMA SleepIsShort ==
    ASSUME WakeUpsInv, pc = "sleep"
    PROVE  /\ now <= begun + Bigger(Interval, MaxRound)
           /\ begun < Midnight /\ wakeup < Midnight + CheckWait
                 => now <= Midnight + Bigger(CheckWait, MaxRound)
<1>1. /\ begun \in Nat /\ wakeup \in Nat /\ now \in Nat
      /\ wakeup <= begun + Interval
      /\ now <= Bigger(wakeup, begun + MaxRound)
  BY DEF WakeUpsInv, TypeOK, RoundTimes, Round
<1> QED BY <1>1, WaitsAssumption, TimeBounds DEF Bigger

\* One row is written (the UPDATE statements on fetchjobs and destinations).
LEMMA OneRow ==
    ASSUME TypeOK, NEW i \in Rows,
           NEW row \in [status : {"absent", "open", "done", "timedout"},
                        next : Nat, retries : Nat],
           rows' = [rows EXCEPT ![i] = row]
    PROVE  /\ rows' \in [Rows -> [status : {"absent", "open", "done", "timedout"},
                                 next : Nat, retries : Nat]]
           /\ \A k \in Rows : rows'[k] = IF k = i THEN row ELSE rows[k]
BY DEF TypeOK

LEMMA OpenRow ==
    ASSUME NEW time \in Nat
    PROVE  /\ Open(time) \in [status : {"absent", "open", "done", "timedout"},
                              next : Nat, retries : Nat]
           /\ Open(time).status = "open" /\ Open(time).next = time
BY DEF Open

LEMMA LaterRow ==
    ASSUME NEW time \in Nat,
           NEW row \in [status : {"absent", "open", "done", "timedout"},
                        next : Nat, retries : Nat]
    PROVE  /\ Later(row, time) \in [status : {"absent", "open", "done", "timedout"},
                                    next : Nat, retries : Nat]
           /\ Later(row, time).status = row.status /\ Later(row, time).next = time
BY DEF Later

LEMMA EndedRow ==
    ASSUME NEW status \in {"absent", "done", "timedout"}
    PROVE  /\ Ended(status) \in [status : {"absent", "open", "done", "timedout"},
                                 next : Nat, retries : Nat]
           /\ Ended(status).status = status
BY DEF Ended

-----------------------------------------------------------------------------
(* The steps.                                                              *)

LEMMA WakeStep ==
    ASSUME WakeUpsInv, Wake
    PROVE  WakeUpsInv'
<1> USE DEF WakeUpsInv, Wake, loop
<1>1. TypeOK'
  BY WaitsAssumption, TimeBounds DEF TypeOK, Round
<1>2. RoundTimes'
  BY WaitsAssumption, TimeBounds, BiggerType DEF TypeOK, RoundTimes, Round, Bigger
<1>3. SignalTimes'
  BY WaitsAssumption, TimeBounds DEF TypeOK, SignalTimes, RoundTimes, Round
<1>4. RowTimes'
  <2>1. todo' = todo /\ rows' = rows /\ pc' = "check" /\ begun' = now
    OBVIOUS
  <2>2. \A i \in todo' : rows'[i].status = "open"
    BY <2>1 DEF RowTimes
  <2>3. ASSUME NEW i \in Rows, rows[i].status = "open"
        PROVE  now <= rows[i].next + Bigger(Interval, MaxRound)
    <3>1. begun <= rows[i].next
      BY <2>3 DEF RowTimes, Seen
    <3>2. now <= begun + Bigger(Interval, MaxRound)
      BY SleepIsShort
    <3>3. rows[i].next \in Nat /\ begun \in Nat /\ now \in Nat
      BY DEF TypeOK
    <3>4. Bigger(Interval, MaxRound) \in Nat
      BY WaitsAssumption, TimeBounds, BiggerType
    <3> QED BY ONLY <3>1, <3>2, <3>3, <3>4
  <2>4. \A i \in Rows : ~Seen(i)'
    BY <2>1 DEF Seen
  <2> QED BY <2>1, <2>2, <2>3, <2>4 DEF RowTimes
<1>5. DayTimes'
  <2>1. rows' = rows /\ pc' = "check" /\ begun' = now /\ pc = "sleep"
    OBVIOUS
  <2>2. ASSUME NEW j \in Jobs, rows[j].status = "absent"
        PROVE  now <= Midnight + Bigger(CheckWait, MaxRound)
    <3>1. begun < Midnight /\ wakeup < Midnight + CheckWait
      BY <2>1, <2>2 DEF DayTimes
    <3> QED BY <3>1, <2>1, SleepIsShort
  <2> QED BY <2>1, <2>2 DEF DayTimes
<1> QED BY <1>1, <1>2, <1>3, <1>4, <1>5

LEMMA CheckDayStep ==
    ASSUME WakeUpsInv, CheckDay
    PROVE  WakeUpsInv'
<1> DEFINE RowType == [status : {"absent", "open", "done", "timedout"},
                       next : Nat, retries : Nat]
<1> USE DEF WakeUpsInv, CheckDay, loop
<1>a. /\ now \in Nat /\ wakeup \in Nat /\ begun \in Nat
      /\ rows \in [Rows -> RowType]
      /\ CheckWait \in Nat /\ 0 < CheckWait /\ Midnight \in Nat
      /\ begun <= now
  BY WaitsAssumption, TimeBounds DEF TypeOK, RoundTimes
<1>b. /\ wakeup' \in Nat /\ wakeup' <= wakeup
      /\ wakeup' = wakeup \/ wakeup' = now + CheckWait
      /\ ~NewDay => wakeup' <= now + CheckWait
  <2>1. now + CheckWait \in Nat
    BY <1>a
  <2> QED BY <1>a, <2>1, WakeUpAtType
<1>c. /\ rows' \in [Rows -> RowType]
      /\ \A i \in Rows : rows'[i] = IF NewDay /\ i \in Jobs THEN Open(now) ELSE rows[i]
  <2>1. Open(now) \in RowType
    BY <1>a, OpenRow
  <2> QED BY <1>a, <2>1
<1>1. TypeOK'
  <2>1. todo' \subseteq Rows
    BY DEF Rows
  <2>2. /\ now' \in Nat /\ begun' \in Nat /\ pc' \in Round \cup {"sleep", "stopped"}
        /\ signal' \in Nat \cup {-1}
    BY DEF TypeOK, Round
  <2> QED BY <1>b, <1>c, <2>1, <2>2 DEF TypeOK
<1>2. RoundTimes'
  <2>1. now' = now /\ begun' = begun /\ pc' = "collect" /\ pc = "check"
    OBVIOUS
  <2>2. begun < wakeup /\ wakeup <= begun + Interval /\ now <= begun + MaxRound
    BY <2>1 DEF RoundTimes, Round
  <2>3. begun < wakeup' /\ wakeup' <= begun + Interval
    <3>1. Interval \in Nat
      BY WaitsAssumption
    <3> QED BY ONLY <1>a, <1>b, <2>2, <3>1
  <2> QED BY <1>a, <2>1, <2>2, <2>3 DEF RoundTimes, Round
<1>3. SignalTimes'
  BY WaitsAssumption, TimeBounds DEF TypeOK, SignalTimes, RoundTimes, Round
<1>4. RowTimes'
  <2>1. /\ now' = now /\ begun' = begun /\ pc' = "collect" /\ pc = "check"
        /\ todo' = {j \in Jobs : rows'[j].status = "open" /\ rows'[j].next <= now}
    OBVIOUS
  <2>2. \A i \in todo' : rows'[i].status = "open"
    BY <2>1
  <2>3. ASSUME NEW i \in Rows, rows'[i].status = "open"
        PROVE  /\ begun <= rows'[i].next + Bigger(Interval, MaxRound)
               /\ Seen(i)' => begun <= rows'[i].next
    <3>1. rows'[i].next \in Nat
      BY <1>c
    <3>2. Bigger(Interval, MaxRound) \in Nat
      BY WaitsAssumption, TimeBounds, BiggerType
    <3>3. begun <= rows'[i].next + Bigger(Interval, MaxRound)
      <4>1. CASE NewDay /\ i \in Jobs
        <5>1. rows'[i].next = now
          BY <4>1, <1>a, <1>c, OpenRow
        <5> QED BY ONLY <5>1, <1>a, <3>2
      <4>2. CASE ~(NewDay /\ i \in Jobs)
        <5>1. rows'[i] = rows[i]
          BY <4>2, <1>c
        <5> QED BY <5>1, <2>3 DEF RowTimes
      <4> QED BY <4>1, <4>2
    <3>4. ASSUME Seen(i)' PROVE begun <= rows'[i].next
      <4>1. i \in Jobs /\ i \notin todo'
        BY <3>4, <2>1 DEF Seen
      <4>2. ~(rows'[i].next <= now)
        BY <4>1, <2>1, <2>3
      <4> QED BY ONLY <4>2, <1>a, <3>1
    <3> QED BY <3>3, <3>4
  <2> QED BY <2>1, <2>2, <2>3 DEF RowTimes
<1>5. DayTimes'
  <2>1. /\ now' = now /\ begun' = begun /\ pc' = "collect"
    OBVIOUS
  <2>2. Jobs \subseteq Rows
    BY DEF Rows
  <2>3. ASSUME NEW j \in Jobs, rows'[j].status = "absent"
        PROVE  /\ \A k \in Jobs : rows'[k].status = "absent"
               /\ begun < Midnight /\ wakeup' < Midnight + CheckWait
    <3>1. ~NewDay
      BY <2>2, <2>3, <1>a, <1>c, OpenRow
    <3>2. \A k \in Jobs : rows'[k] = rows[k]
      BY <3>1, <2>2, <1>c
    <3>3. \A k \in Jobs : rows[k].status = "absent"
      BY <3>2, <2>3 DEF DayTimes
    <3>4. ~(now >= Midnight)
      BY <3>1, <3>3 DEF NewDay
    <3>5. begun < Midnight /\ wakeup' < Midnight + CheckWait
      BY ONLY <3>1, <3>4, <1>a, <1>b
    <3> QED BY <3>2, <3>3, <3>5
  <2> QED BY <2>1, <2>3 DEF DayTimes
<1> QED BY <1>1, <1>2, <1>3, <1>4, <1>5

LEMMA CollectEndsStep ==
    ASSUME WakeUpsInv, CollectEnds
    PROVE  WakeUpsInv'
<1> USE DEF WakeUpsInv, CollectEnds, loop
<1>1. TypeOK'
  BY WaitsAssumption, TimeBounds DEF TypeOK, Round
<1>2. RoundTimes'
  BY WaitsAssumption, TimeBounds, BiggerType DEF TypeOK, RoundTimes, Round, Bigger
<1>3. SignalTimes'
  BY WaitsAssumption, TimeBounds DEF TypeOK, SignalTimes, RoundTimes, Round
<1>4. RowTimes'
  BY WaitsAssumption, TimeBounds, BiggerType DEF TypeOK, RowTimes, RoundTimes, Round, Seen, Rows, Due
<1>5. DayTimes'
  BY WaitsAssumption, TimeBounds, BiggerType DEF TypeOK, DayTimes, RowTimes, RoundTimes, Round, Rows
<1> QED BY <1>1, <1>2, <1>3, <1>4, <1>5

LEMMA CreateEndsStep ==
    ASSUME WakeUpsInv, CreateEnds
    PROVE  WakeUpsInv'
<1> USE DEF WakeUpsInv, CreateEnds, loop
<1>1. TypeOK'
  <2>1. todo' \subseteq Rows
    BY DEF Due, Rows
  <2> QED BY <2>1 DEF TypeOK, Round
<1>2. RoundTimes'
  BY WaitsAssumption, TimeBounds, BiggerType DEF TypeOK, RoundTimes, Round, Bigger
<1>3. SignalTimes'
  BY WaitsAssumption, TimeBounds DEF TypeOK, SignalTimes, RoundTimes, Round
<1>4. RowTimes'
  BY WaitsAssumption, TimeBounds, BiggerType DEF TypeOK, RowTimes, RoundTimes, Round, Seen, Rows, Due
<1>5. DayTimes'
  BY WaitsAssumption, TimeBounds, BiggerType DEF TypeOK, DayTimes, RowTimes, RoundTimes, Round, Rows
<1> QED BY <1>1, <1>2, <1>3, <1>4, <1>5

LEMMA SendEndsStep ==
    ASSUME WakeUpsInv, SendEnds
    PROVE  WakeUpsInv'
<1> USE DEF WakeUpsInv, SendEnds, loop
<1>1. TypeOK'
  BY WaitsAssumption, TimeBounds DEF TypeOK, Round
<1>2. RoundTimes'
  BY WaitsAssumption, TimeBounds, BiggerType DEF TypeOK, RoundTimes, Round, Bigger
<1>3. SignalTimes'
  BY WaitsAssumption, TimeBounds DEF TypeOK, SignalTimes, RoundTimes, Round
<1>4. RowTimes'
  BY WaitsAssumption, TimeBounds, BiggerType DEF TypeOK, RowTimes, RoundTimes, Round, Seen, Rows, Due
<1>5. DayTimes'
  BY WaitsAssumption, TimeBounds, BiggerType DEF TypeOK, DayTimes, RowTimes, RoundTimes, Round, Rows
<1> QED BY <1>1, <1>2, <1>3, <1>4, <1>5

LEMMA StopStep ==
    ASSUME WakeUpsInv, Stop
    PROVE  WakeUpsInv'
<1> USE DEF WakeUpsInv, Stop, loop
<1>1. TypeOK'
  BY WaitsAssumption, TimeBounds DEF TypeOK, Round
<1>2. RoundTimes'
  BY WaitsAssumption, TimeBounds, BiggerType DEF TypeOK, RoundTimes, Round, Bigger
<1>3. SignalTimes'
  BY WaitsAssumption, TimeBounds DEF TypeOK, SignalTimes, RoundTimes, Round
<1>4. RowTimes'
  BY WaitsAssumption, TimeBounds, BiggerType DEF TypeOK, RowTimes, RoundTimes, Round, Seen, Rows, Due
<1>5. DayTimes'
  BY WaitsAssumption, TimeBounds, BiggerType DEF TypeOK, DayTimes, RowTimes, RoundTimes, Round, Rows
<1> QED BY <1>1, <1>2, <1>3, <1>4, <1>5

LEMMA SignalStep ==
    ASSUME WakeUpsInv, Signal
    PROVE  WakeUpsInv'
<1> USE DEF WakeUpsInv, Signal, loop
<1>1. TypeOK'
  BY WaitsAssumption, TimeBounds DEF TypeOK, Round
<1>2. RoundTimes'
  BY WaitsAssumption, TimeBounds, BiggerType DEF TypeOK, RoundTimes, Round, Bigger
<1>3. SignalTimes'
  BY WaitsAssumption, TimeBounds DEF TypeOK, SignalTimes, RoundTimes, Round
<1>4. RowTimes'
  BY WaitsAssumption, TimeBounds, BiggerType DEF TypeOK, RowTimes, RoundTimes, Round, Seen, Rows, Due
<1>5. DayTimes'
  BY WaitsAssumption, TimeBounds, BiggerType DEF TypeOK, DayTimes, RowTimes, RoundTimes, Round, Rows
<1> QED BY <1>1, <1>2, <1>3, <1>4, <1>5

LEMMA TickStep ==
    ASSUME WakeUpsInv, Tick
    PROVE  WakeUpsInv'
<1> USE DEF WakeUpsInv, Tick, loop
<1>1. TypeOK'
  BY WaitsAssumption, TimeBounds DEF TypeOK, Round
<1>2. RoundTimes'
  BY WaitsAssumption, TimeBounds, BiggerType DEF TypeOK, RoundTimes, Round, Bigger
<1>3. SignalTimes'
  BY WaitsAssumption, TimeBounds DEF TypeOK, SignalTimes, RoundTimes, Round
<1>4. RowTimes'
  BY WaitsAssumption, TimeBounds, BiggerType DEF TypeOK, RowTimes, RoundTimes, Round, Seen, Rows, Due
<1>5. DayTimes'
  BY WaitsAssumption, TimeBounds, BiggerType DEF TypeOK, DayTimes, RowTimes, RoundTimes, Round, Rows
<1> QED BY <1>1, <1>2, <1>3, <1>4, <1>5

LEMMA SucceedStep ==
    ASSUME WakeUpsInv, NEW i \in Rows, Succeed(i)
    PROVE  WakeUpsInv'
<1> USE DEF WakeUpsInv, Succeed, loop, Attempt
<1>a. /\ \A k \in Rows : rows'[k] = IF k = i THEN Ended("done") ELSE rows[k]
      /\ rows' \in [Rows -> [status : {"absent", "open", "done", "timedout"},
                             next : Nat, retries : Nat]]
      /\ Ended("done").status = "done"
  <2>1. /\ Ended("done") \in [status : {"absent", "open", "done", "timedout"},
                              next : Nat, retries : Nat]
        /\ Ended("done").status = "done"
    BY EndedRow
  <2> QED BY <2>1, OneRow
<1>1. TypeOK'
  <2>1. todo' \subseteq Rows
    BY DEF TypeOK
  <2> QED BY <1>a, <2>1 DEF TypeOK, Round
<1>2. RoundTimes'
  BY WaitsAssumption, TimeBounds, BiggerType DEF TypeOK, RoundTimes, Round, Bigger
<1>3. SignalTimes'
  BY WaitsAssumption, TimeBounds DEF TypeOK, SignalTimes, RoundTimes, Round
<1>4. RowTimes'
  <2>1. begun' = begun /\ pc' = pc /\ todo' = todo \ {i}
    OBVIOUS
  <2>2. \A k \in todo' : rows'[k].status = "open"
    BY <1>a, <2>1 DEF RowTimes, TypeOK
  <2>3. ASSUME NEW k \in Rows, rows'[k].status = "open"
        PROVE  rows'[k] = rows[k] /\ (Seen(k)' => Seen(k))
    BY <1>a, <2>1, <2>3 DEF Seen
  <2> QED BY <2>1, <2>2, <2>3 DEF RowTimes
<1>5. DayTimes'
  <2>1. begun' = begun /\ pc' = pc /\ wakeup' = wakeup /\ Jobs \subseteq Rows
    BY DEF Rows
  <2>2. pc # "check" /\ rows[i].status = "open"
    BY DEF RowTimes
  <2>3. ASSUME NEW j \in Jobs, rows'[j].status = "absent"
        PROVE  /\ \A k \in Jobs : rows'[k].status = "absent"
               /\ begun < Midnight /\ wakeup < Midnight + CheckWait
    <3>1. rows[j].status = "absent"
      BY <1>a, <2>1, <2>3
    <3>2. \A k \in Jobs : rows[k].status = "absent"
      BY <3>1 DEF DayTimes
    <3>3. i \notin Jobs
      BY <2>2, <3>2
    <3> QED BY <1>a, <2>1, <2>2, <3>1, <3>2, <3>3 DEF DayTimes
  <2> QED BY <2>1, <2>2, <2>3 DEF DayTimes
<1> QED BY <1>1, <1>2, <1>3, <1>4, <1>5

LEMMA FailStep ==
    ASSUME WakeUpsInv, NEW i \in Rows, Fail(i)
    PROVE  WakeUpsInv'
<1> DEFINE RowType == [status : {"absent", "open", "done", "timedout"},
                       next : Nat, retries : Nat]
<1> USE DEF WakeUpsInv, Fail, loop, Attempt
<1>a. /\ now \in Nat /\ wakeup \in Nat /\ begun \in Nat /\ begun <= now
      /\ rows \in [Rows -> RowType] /\ rows[i] \in RowType /\ rows[i].status = "open"
      /\ pc \in {"collect", "send"}
  BY DEF TypeOK, RoundTimes, RowTimes
<1>b. /\ wakeup' \in Nat /\ wakeup' <= wakeup
      /\ begun < wakeup => begun < wakeup'
      /\ \E row \in RowType :
            /\ rows' = [rows EXCEPT ![i] = row]
            /\ row.status # "absent"
            /\ row.status = "open" => begun <= row.next
  <2>1. CASE rows[i].retries < MaxRetries
    <3>1. PICK wait \in Waits : /\ rows' = [rows EXCEPT ![i] = Later(rows[i], now + wait)]
                               /\ wakeup' = WakeUpAt(now + wait)
      <4>1. PICK wait \in Waits : /\ rows' = [rows EXCEPT ![i] = Later(@, now + wait)]
                                 /\ wakeup' = WakeUpAt(now + wait)
        BY <2>1
      <4> QED BY <4>1, <1>a
    <3> DEFINE time == now + wait
    <3>2. time \in Nat /\ begun < time
      <4>1. wait \in Nat /\ wait # 0
        BY WaitsAssumption
      <4> QED BY ONLY <4>1, <1>a
    <3>3. rows' = [rows EXCEPT ![i] = Later(rows[i], time)] /\ wakeup' = WakeUpAt(time)
      BY <3>1
    <3> HIDE DEF time
    <3>4. /\ Later(rows[i], time) \in RowType
          /\ Later(rows[i], time).status = "open" /\ Later(rows[i], time).next = time
      BY <3>2, <1>a, LaterRow
    <3>5. /\ wakeup' \in Nat /\ wakeup' <= wakeup
          /\ wakeup' = wakeup \/ wakeup' = time
      BY <3>2, <3>3, <1>a, WakeUpAtType
    <3>6. begun < wakeup => begun < wakeup'
      BY <3>2, <3>5
    <3>7. begun <= time
      BY <3>2, <1>a
    <3> QED BY <3>3, <3>4, <3>5, <3>6, <3>7
  <2>2. CASE ~(rows[i].retries < MaxRetries)
    <3>1. rows' = [rows EXCEPT ![i] = Ended("timedout")] /\ wakeup' = wakeup
      BY <2>2
    <3>2. Ended("timedout") \in RowType /\ Ended("timedout").status = "timedout"
      BY EndedRow
    <3>3. \E row \in RowType :
            /\ rows' = [rows EXCEPT ![i] = row]
            /\ row.status # "absent"
            /\ row.status = "open" => begun <= row.next
      <4> DEFINE ended == Ended("timedout")
      <4>1. ended \in RowType /\ ended.status = "timedout"
        BY <3>2
      <4>2. rows' = [rows EXCEPT ![i] = ended]
        BY <3>1
      <4> HIDE DEF ended
      <4> QED BY ONLY <4>1, <4>2
    <3>4. wakeup' \in Nat /\ wakeup' <= wakeup /\ (begun < wakeup => begun < wakeup')
      BY ONLY <3>1, <1>a
    <3> QED BY ONLY <3>3, <3>4, Zenon
  <2> QED BY <2>1, <2>2
<1>c. PICK row \in RowType :
          /\ rows' = [rows EXCEPT ![i] = row]
          /\ row.status # "absent"
          /\ row.status = "open" => begun <= row.next
  BY <1>b
<1>d. /\ \A k \in Rows : rows'[k] = IF k = i THEN row ELSE rows[k]
      /\ rows' \in [Rows -> RowType]
  BY <1>c, OneRow
<1>1. TypeOK'
  <2>1. todo' \subseteq Rows
    BY DEF TypeOK
  <2> QED BY <1>b, <1>d, <2>1 DEF TypeOK, Round
<1>2. RoundTimes'
  <2>1. now' = now /\ begun' = begun /\ pc' = pc /\ pc \in Round
    BY <1>a DEF Round
  <2>2. begun < wakeup /\ wakeup <= begun + Interval /\ now <= begun + MaxRound
    BY <2>1 DEF RoundTimes
  <2>3. begun < wakeup' /\ wakeup' <= begun + Interval
    <3>1. Interval \in Nat
      BY WaitsAssumption
    <3> QED BY ONLY <1>a, <1>b, <2>2, <3>1
  <2> QED BY <1>a, <2>1, <2>2, <2>3 DEF RoundTimes
<1>3. SignalTimes'
  BY WaitsAssumption, TimeBounds DEF TypeOK, SignalTimes, RoundTimes, Round
<1>4. RowTimes'
  <2>1. begun' = begun /\ pc' = pc /\ todo' = todo \ {i} /\ todo \subseteq Rows
    BY DEF TypeOK
  <2>2. \A k \in todo' : rows'[k].status = "open"
    BY <1>d, <2>1 DEF RowTimes
  <2>3. ASSUME NEW k \in Rows, rows'[k].status = "open"
        PROVE  /\ begun <= rows'[k].next + Bigger(Interval, MaxRound)
               /\ Seen(k)' => begun <= rows'[k].next
    <3>1. CASE k = i
      <4>1. begun <= rows'[k].next /\ rows'[k].next \in Nat
        BY <3>1, <1>c, <1>d, <2>3
      <4>2. Bigger(Interval, MaxRound) \in Nat
        BY WaitsAssumption, TimeBounds, BiggerType
      <4>3. begun <= rows'[k].next + Bigger(Interval, MaxRound)
        BY ONLY <4>1, <4>2, <1>a
      <4> QED BY <4>1, <4>3
    <3>2. CASE k # i
      <4>1. rows'[k] = rows[k] /\ (Seen(k)' => Seen(k))
        BY <3>2, <1>d, <2>1 DEF Seen
      <4> QED BY <4>1, <2>3 DEF RowTimes
    <3> QED BY <3>1, <3>2
  <2> QED BY <2>1, <2>2, <2>3 DEF RowTimes
<1>5. DayTimes'
  <2>1. begun' = begun /\ pc' = pc /\ pc # "check" /\ Jobs \subseteq Rows
    BY <1>a DEF Rows
  <2>2. ASSUME NEW j \in Jobs, rows'[j].status = "absent"
        PROVE  /\ \A k \in Jobs : rows'[k].status = "absent"
               /\ begun < Midnight /\ wakeup' < Midnight + CheckWait
    <3>1. rows[j].status = "absent"
      BY <1>c, <1>d, <2>1, <2>2
    <3>2. \A k \in Jobs : rows[k].status = "absent"
      BY <3>1 DEF DayTimes
    <3>3. i \notin Jobs
      BY <1>a, <3>2
    <3>4. begun < Midnight /\ wakeup < Midnight + CheckWait
      BY <2>1, <3>1 DEF DayTimes
    <3>5. wakeup' < Midnight + CheckWait
      <4>1. Midnight + CheckWait \in Nat
        BY WaitsAssumption, TimeBounds
      <4> QED BY <4>1, <3>4, <1>a, <1>b
    <3> QED BY <1>d, <2>1, <3>2, <3>3, <3>4, <3>5
  <2> QED BY <2>1, <2>2 DEF DayTimes
<1> QED BY <1>1, <1>2, <1>3, <1>4, <1>5

LEMMA BookStep ==
    ASSUME WakeUpsInv, NEW i \in Bookings, NEW secs \in Values, Book(i, secs)
    PROVE  WakeUpsInv'
<1> DEFINE RowType == [status : {"absent", "open", "done", "timedout"},
                       next : Nat, retries : Nat]
<1> USE DEF WakeUpsInv, Book, loop
<1>a. /\ now \in Nat /\ begun \in Nat /\ begun <= now /\ now + secs \in Nat
      /\ i \in Rows /\ i \notin Jobs /\ rows[i].status = "absent"
  BY SizeAssumption DEF TypeOK, RoundTimes, Rows, Values
<1>b. /\ \A k \in Rows : rows'[k] = IF k = i THEN Open(now + secs) ELSE rows[k]
      /\ rows' \in [Rows -> RowType]
      /\ Open(now + secs).next = now + secs
  <2>1. Open(now + secs) \in RowType /\ Open(now + secs).next = now + secs
    BY <1>a, OpenRow
  <2> QED BY <1>a, <2>1, OneRow
<1>1. TypeOK'
  BY <1>b DEF TypeOK, Round
<1>2. RoundTimes'
  BY WaitsAssumption, TimeBounds, BiggerType DEF TypeOK, RoundTimes, Round, Bigger
<1>3. SignalTimes'
  BY WaitsAssumption, TimeBounds DEF TypeOK, SignalTimes, RoundTimes, Round
<1>4. RowTimes'
  <2>1. begun' = begun /\ pc' = pc /\ todo' = todo /\ pc = "create"
    OBVIOUS
  <2>2. \A k \in todo' : rows'[k].status = "open"
    <3>1. i \notin todo /\ todo \subseteq Rows
      BY <1>a DEF RowTimes, TypeOK
    <3> QED BY <1>b, <2>1, <3>1 DEF RowTimes
  <2>3. ASSUME NEW k \in Rows, rows'[k].status = "open"
        PROVE  /\ begun <= rows'[k].next + Bigger(Interval, MaxRound)
               /\ Seen(k)' => begun <= rows'[k].next
    <3>1. CASE k = i
      <4>1. rows'[k].next = now + secs /\ secs \in Nat
        BY <3>1, <1>a, <1>b, SizeAssumption DEF Values
      <4>2. Bigger(Interval, MaxRound) \in Nat
        BY WaitsAssumption, TimeBounds, BiggerType
      <4> QED BY ONLY <4>1, <4>2, <1>a
    <3>2. CASE k # i
      <4>1. rows'[k] = rows[k] /\ (Seen(k)' => Seen(k))
        BY <3>2, <1>b, <2>1 DEF Seen
      <4> QED BY <4>1, <2>3 DEF RowTimes
    <3> QED BY <3>1, <3>2
  <2> QED BY <2>1, <2>2, <2>3 DEF RowTimes
<1>5. DayTimes'
  <2>1. \A k \in Jobs : rows'[k] = rows[k]
    BY <1>a, <1>b DEF Rows
  <2> QED BY <2>1 DEF DayTimes
<1> QED BY <1>1, <1>2, <1>3, <1>4, <1>5

-----------------------------------------------------------------------------
(* The draws of Book are those of RandPool.                                *)

LEMMA DrawStep ==
    ASSUME Next
    PROVE  [PoolNext]_poolVars
<1>1. ASSUME NEW i \in Bookings, NEW secs \in Values, Book(i, secs)
      PROVE  PoolNext
  BY <1>1 DEF Book, PoolNext
<1>2. ASSUME NEW i \in Rows, Succeed(i) \/ Fail(i)
      PROVE  UNCHANGED poolVars
  BY <1>2 DEF Succeed, Fail, Attempt
<1>3. ASSUME \/ Wake \/ CheckDay \/ CollectEnds \/ CreateEnds \/ SendEnds
             \/ Stop \/ Signal \/ Tick
      PROVE  UNCHANGED poolVars
  BY <1>3 DEF Wake, CheckDay, CollectEnds, CreateEnds, SendEnds, Stop, Signal, Tick
<1> QED BY <1>1, <1>2, <1>3 DEF Next

-----------------------------------------------------------------------------
(* The theorems.                                                           *)

LEMMA WakeUpsInit == Init => WakeUpsInv
<1> SUFFICES ASSUME Init PROVE WakeUpsInv
  OBVIOUS
<1>1. TypeOK
  <2>1. Absent \in [status : {"absent", "open", "done", "timedout"},
                   next : Nat, retries : Nat]
    BY EndedRow DEF Absent
  <2> QED BY <2>1, WaitsAssumption DEF Init, TypeOK, Round
<1>2. \A i \in Rows : rows[i].status = "absent"
  BY EndedRow DEF Init, Absent
<1>3. RoundTimes
  BY WaitsAssumption, TimeBounds DEF Init, RoundTimes, Round
<1>4. SignalTimes
  BY DEF Init, SignalTimes
<1>5. RowTimes
  BY <1>2 DEF Init, RowTimes
<1>6. DayTimes
  <2>1. Bigger(CheckWait, MaxRound) \in Nat
    BY WaitsAssumption, TimeBounds, BiggerType
  <2>2. 0 <= Midnight + Bigger(CheckWait, MaxRound)
    BY ONLY <2>1, TimeBounds
  <2> QED BY <1>2, <2>2 DEF Init, DayTimes, Rows
<1> QED BY <1>1, <1>3, <1>4, <1>5, <1>6 DEF WakeUpsInv

LEMMA WakeUpsStep == WakeUpsInv /\ [Next]_vars => WakeUpsInv'
<1> SUFFICES ASSUME WakeUpsInv, [Next]_vars PROVE WakeUpsInv'
  OBVIOUS
<1>1. CASE UNCHANGED vars
  BY <1>1 DEF vars, loop, WakeUpsInv, TypeOK, RoundTimes, SignalTimes, RowTimes,
              Seen, DayTimes
<1>2. CASE Next
  BY <1>2, WakeStep, CheckDayStep, CollectEndsStep, CreateEndsStep, SendEndsStep,
     StopStep, SignalStep, TickStep, SucceedStep, FailStep, BookStep DEF Next
<1> QED BY <1>1, <1>2

\* The times of the loop, of its rows and of its signals are bound together as
\* WakeUpsInv says (run_loop, wake_up_at, check_day, the nexttry columns).
THEOREM WakeUpsInvariance == Spec => []WakeUpsInv
BY WakeUpsInit, WakeUpsStep, PTL DEF Spec

LEMMA WakeUpsInvFollows == WakeUpsInv => NothingForgotten /\ DayNoticed /\ SignalObeyed
<1> SUFFICES ASSUME WakeUpsInv PROVE NothingForgotten /\ DayNoticed /\ SignalObeyed
  OBVIOUS
<1>1. /\ now \in Nat /\ begun \in Nat /\ wakeup \in Nat
      /\ begun <= now /\ wakeup <= begun + Interval
      /\ now <= IF pc \in Round THEN begun + MaxRound ELSE Bigger(wakeup, begun + MaxRound)
      /\ pc \in Round \cup {"sleep", "stopped"}
  BY DEF WakeUpsInv, TypeOK, RoundTimes
<1>2. /\ Bigger(Interval, MaxRound) \in Nat /\ Bigger(CheckWait, MaxRound) \in Nat
      /\ Interval \in Nat /\ CheckWait \in Nat /\ MaxRound \in Nat /\ Midnight \in Nat
  BY WaitsAssumption, TimeBounds, BiggerType
<1>3. NothingForgotten
  <2> SUFFICES ASSUME NEW i \in Rows, rows[i].status = "open"
               PROVE  now <= rows[i].next + Bigger(Interval, MaxRound) + MaxRound
    BY DEF NothingForgotten
  <2>1. /\ rows[i].next \in Nat
        /\ begun <= rows[i].next + Bigger(Interval, MaxRound)
        /\ pc \notin Round => begun <= rows[i].next
    BY <1>1 DEF WakeUpsInv, TypeOK, RowTimes, Seen
  <2>2. CASE pc \in Round
    <3>1. now <= begun + MaxRound
      BY <1>1, <2>2
    <3> QED BY ONLY <1>1, <1>2, <2>1, <3>1
  <2>3. CASE pc \notin Round
    <3>1. now <= begun + Bigger(Interval, MaxRound)
      BY <1>1, <1>2, <2>3 DEF Bigger
    <3>2. begun <= rows[i].next
      BY <2>1, <2>3
    <3> QED BY ONLY <1>1, <1>2, <2>1, <3>1, <3>2
  <2> QED BY <2>2, <2>3
<1>4. DayNoticed
  <2> SUFFICES ASSUME NEW j \in Jobs, rows[j].status = "absent"
               PROVE  now <= Midnight + Bigger(CheckWait, MaxRound) + MaxRound
    BY <1>1, <1>2 DEF DayNoticed
  <2>1. IF pc = "check" THEN begun <= Midnight + Bigger(CheckWait, MaxRound)
        ELSE begun < Midnight /\ wakeup < Midnight + CheckWait
    BY DEF WakeUpsInv, DayTimes
  <2>2. begun <= Midnight + Bigger(CheckWait, MaxRound)
    BY <1>1, <1>2, <2>1
  <2>3. CASE pc \in Round
    <3>1. now <= begun + MaxRound
      BY <1>1, <2>3
    <3> QED BY ONLY <1>1, <1>2, <2>2, <3>1
  <2>4. CASE pc \notin Round
    <3>1. now <= Bigger(wakeup, begun + MaxRound)
      BY <1>1, <2>4
    <3>2. begun < Midnight /\ wakeup < Midnight + CheckWait
      BY <2>1, <2>4 DEF Round
    <3> QED BY ONLY <1>1, <1>2, <3>1, <3>2 DEF Bigger
  <2> QED BY <2>3, <2>4
<1>5. SignalObeyed
  BY DEF WakeUpsInv, SignalTimes, SignalObeyed
<1> QED BY <1>3, <1>4, <1>5

\* No row that is due waits for longer than a sleep and the round after it
\* (wake_up_at with force in run_loop), whatever the wake-up times planned.
THEOREM NothingIsForgotten == Spec => []NothingForgotten
BY WakeUpsInvariance, WakeUpsInvFollows, PTL

\* The end of the day is noticed within the wait of check_day or an overlong
\* round, and the round in which the look is due (check_day).
THEOREM TheDayIsNoticed == Spec => []DayNoticed
BY WakeUpsInvariance, WakeUpsInvFollows, PTL

\* A signal is obeyed when the running round is over (select in run_loop).
THEOREM SignalsAreObeyed == Spec => []SignalObeyed
BY WakeUpsInvariance, WakeUpsInvFollows, PTL

\* Each round begins later than the one before (run_loop, wake_up_at).
THEOREM TheLoopNeverSpins == Spec => NoSpin
<1>1. WakeUpsInv /\ [Next]_vars => [pc = "sleep" /\ pc' = "check" => now > begun]_vars
  <2> SUFFICES ASSUME WakeUpsInv, Next, pc = "sleep", pc' = "check"
               PROVE  now > begun
    BY DEF vars
  <2>1. Wake
    BY DEF Next, Wake, CheckDay, CollectEnds, CreateEnds, SendEnds, Stop, Signal, Tick,
           Succeed, Fail, Book, Attempt, loop
  <2> QED BY <2>1 DEF Wake, WakeUpsInv, TypeOK, RoundTimes
<1> QED BY <1>1, WakeUpsInvariance, PTL DEF Spec, NoSpin

\* The seconds after which the reports are delivered are drawn evenly, also by
\* the rounds of the daemon (schedule_report_delivery, RandPool.get).
THEOREM DeliveriesAreSpread == Spec => []Flat
<1>1. Init => FlatInv
  BY FlatInvInit DEF Init
<1>2. FlatInv /\ [Next]_vars => FlatInv'
  BY FlatInvStep, DrawStep DEF vars, poolVars
<1> QED BY <1>1, <1>2, FlatFollows, PTL DEF Spec

=============================================================================
