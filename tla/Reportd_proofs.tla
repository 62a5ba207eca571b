---------------------------- MODULE Reportd_proofs ----------------------------
(***************************************************************************)
(* Reportd keeps ReportdInv: its database is sound at every commit, for    *)
(* all fetchers, domains, records and options, whatever breaks off,        *)
(* crashes or restarts.                                                    *)
(***************************************************************************)
EXTENDS Reportd, FiniteSetTheorems, TLAPS

LEMMA KeyFacts ==
    /\ \A r \in Rows : /\ r = <<r[1], r[2], r[3]>> /\ r[1] \in Days /\ r[2] \in Fetchers
                       /\ r[3] \in Domains /\ <<r[1], r[2]>> \in Jobs
    /\ \A j \in Jobs : j = <<j[1], j[2]>> /\ j[1] \in Days /\ j[2] \in Fetchers
    /\ \A t \in Topics : t = <<t[1], t[2]>> /\ t[1] \in Days /\ t[2] \in Domains
    /\ \A d \in Days, f \in Fetchers : <<d, f>> \in Jobs
    /\ \A d \in Days, f \in Fetchers, dom \in Domains : <<d, f, dom>> \in Rows
    /\ \A d \in Days, dom \in Domains : <<d, dom>> \in Topics
BY DEF Rows, Jobs, Topics

LEMMA DbFacts ==
    ASSUME NEW v \in Databases
    PROVE  /\ v.jobs \in [Jobs -> JobStates] /\ v.rows \in [Rows -> RowStates]
           /\ v.reports \in SUBSET ReportRows
           /\ v = [jobs |-> v.jobs, rows |-> v.rows, reports |-> v.reports]
           /\ \A x \in [Jobs -> JobStates] :
                  /\ [v EXCEPT !.jobs = x] \in Databases
                  /\ [v EXCEPT !.jobs = x].jobs = x
                  /\ [v EXCEPT !.jobs = x].rows = v.rows
                  /\ [v EXCEPT !.jobs = x].reports = v.reports
           /\ \A x \in [Rows -> RowStates] :
                  /\ [v EXCEPT !.rows = x] \in Databases
                  /\ [v EXCEPT !.rows = x].rows = x
                  /\ [v EXCEPT !.rows = x].jobs = v.jobs
                  /\ [v EXCEPT !.rows = x].reports = v.reports
           /\ \A x \in SUBSET ReportRows :
                  /\ [v EXCEPT !.reports = x] \in Databases
                  /\ [v EXCEPT !.reports = x].reports = x
                  /\ [v EXCEPT !.reports = x].jobs = v.jobs
                  /\ [v EXCEPT !.reports = x].rows = v.rows
BY DEF Databases

LEMMA ReportFacts ==
    ASSUME NEW v \in Databases
    PROVE  \A rep \in v.reports : /\ rep.day \in Days /\ rep.dom \in Domains
                                  /\ rep.rec \in Records /\ rep.uniqid \in Nat
                                  /\ <<rep.day, rep.dom>> \in Topics
                                  /\ rep \in ReportsOf(v, <<rep.day, rep.dom>>)
BY DEF Databases, ReportRows, Topics, ReportsOf

-----------------------------------------------------------------------------
(* What keeps a database sound.                                            *)

\* A topic that has its reports belongs to a day that all fetchers are done with.
LEMMA ReportedDayDone ==
    ASSUME NEW v \in Databases, DataWhenDone(v), Matching(v),
           NEW t \in Topics, ReportsOf(v, t) # {}
    PROVE  /\ t[1] \notin OpenDays(v)
           /\ \E f \in Fetchers : v.rows[<<t[1], f, t[2]>>] = "full"
<1>1. PICK rep \in ReportsOf(v, t) : TRUE
  OBVIOUS
<1>2. rep.rec \in RecordsOf(v, t)
  BY <1>1 DEF Matching
<1>3. PICK f \in Fetchers : v.rows[<<t[1], f, t[2]>>] = "full"
  BY <1>2 DEF RecordsOf, Parts
<1>4. <<t[1], f, t[2]>> \in Rows
  BY KeyFacts
<1> QED BY <1>3, <1>4 DEF DataWhenDone

\* Reports and the data they sum are untouched.
LEMMA SameData ==
    ASSUME NEW v \in Databases, NEW w \in Databases, w.reports = v.reports,
           \A r \in Rows : w.rows[r] = "full" <=> v.rows[r] = "full"
    PROVE  /\ \A t \in Topics : /\ ReportsOf(w, t) = ReportsOf(v, t)
                                /\ RecordsOf(w, t) = RecordsOf(v, t)
                                /\ \A rec \in Records : Parts(w, t, rec) = Parts(v, t, rec)
           /\ Matching(v) => Matching(w)
           /\ Numbered(v) => Numbered(w)
<1>1. \A t : ReportsOf(w, t) = ReportsOf(v, t)
  BY DEF ReportsOf
<1>2. \A t \in Topics, rec \in Records : Parts(w, t, rec) = Parts(v, t, rec)
  BY KeyFacts DEF Parts
<1>3. \A t \in Topics : RecordsOf(w, t) = RecordsOf(v, t)
  BY <1>2 DEF RecordsOf
<1>4. \A t \in Topics : \A rep \in ReportsOf(v, t) : rep.rec \in Records
  BY ReportFacts DEF ReportsOf
<1>5. Matching(v) => Matching(w)
  BY <1>1, <1>2, <1>3, <1>4 DEF Matching
<1>6. Numbered(v) => Numbered(w)
  BY <1>1 DEF Numbered
<1> QED BY <1>1, <1>2, <1>3, <1>5, <1>6

\* Open jobs may be closed, those with a whole list also as "ok".
LEMMA JobsMoved ==
    ASSUME NEW v \in Databases, NEW w \in Databases, Sound(v),
           w.rows = v.rows, w.reports = v.reports,
           \A j \in Jobs :
               \/ w.jobs[j].status = v.jobs[j].status
               \/ /\ v.jobs[j].status = "open"
                  /\ \/ w.jobs[j].status = "timedout"
                     \/ /\ w.jobs[j].status = "ok"
                        /\ Present(v, j[1], j[2]) = Listed(j[2])
    PROVE  Sound(w)
<1>1. \A d \in Days, f \in Fetchers : Present(w, d, f) = Present(v, d, f)
  BY DEF Present
<1>2. WholeLists(w)
  <2> SUFFICES ASSUME NEW d \in Days, NEW f \in Fetchers
               PROVE  /\ Present(w, d, f) \in {{}, Listed(f)}
                      /\ w.jobs[<<d, f>>].status = "ok" => Present(w, d, f) = Listed(f)
    BY DEF WholeLists
  <2>1. <<d, f>> \in Jobs /\ <<d, f>>[1] = d /\ <<d, f>>[2] = f
    BY KeyFacts
  <2> QED BY <1>1, <2>1 DEF Sound, WholeLists
<1>3. JobsTogether(w)
  BY KeyFacts DEF Sound, JobsTogether
<1>4. RowsHaveJobs(w)
  BY KeyFacts DEF Sound, RowsHaveJobs
<1>5. OpenDays(w) \subseteq OpenDays(v)
  BY KeyFacts DEF OpenDays
<1>6. DataWhenDone(w)
  BY <1>5 DEF Sound, DataWhenDone
<1>7. NothingAwaited(w)
  BY SameData DEF Sound, NothingAwaited, RowsOf
<1>8. Matching(w) /\ Numbered(w)
  BY SameData DEF Sound
<1> QED BY <1>2, <1>3, <1>4, <1>6, <1>7, <1>8 DEF Sound

\* The jobs of a day appear together, before there are any rows of that day.
LEMMA JobsAppear ==
    ASSUME NEW v \in Databases, NEW w \in Databases, Sound(v), NEW day,
           w.rows = v.rows, w.reports = v.reports,
           \A j \in Jobs : IF j[1] = day THEN /\ v.jobs[j].status = "absent"
                                              /\ w.jobs[j].status = "open"
                           ELSE w.jobs[j].status = v.jobs[j].status
    PROVE  Sound(w)
<1>j. \A d \in Days, f \in Fetchers :
          /\ d = day => /\ v.jobs[<<d, f>>].status = "absent"
                        /\ w.jobs[<<d, f>>].status = "open"
          /\ d # day => w.jobs[<<d, f>>].status = v.jobs[<<d, f>>].status
  BY KeyFacts
<1>1. \A d \in Days, f \in Fetchers : Present(w, d, f) = Present(v, d, f)
  BY DEF Present
<1>2. WholeLists(w)
  BY <1>1, <1>j DEF Sound, WholeLists
<1>3. JobsTogether(w)
  BY <1>j DEF Sound, JobsTogether
<1>4. \A r \in Rows : r[1] = day => v.rows[r] = "absent"
  BY <1>j, KeyFacts DEF Sound, RowsHaveJobs
<1>5. RowsHaveJobs(w)
  BY <1>4, <1>j, KeyFacts DEF Sound, RowsHaveJobs
<1>6. \A d \in OpenDays(w) : d = day \/ d \in OpenDays(v)
  BY <1>j DEF OpenDays
<1>7. DataWhenDone(w)
  BY <1>4, <1>6, KeyFacts DEF Sound, DataWhenDone
<1>8. NothingAwaited(w)
  BY SameData DEF Sound, NothingAwaited, RowsOf
<1>9. Matching(w) /\ Numbered(w)
  BY SameData DEF Sound
<1> QED BY <1>2, <1>3, <1>5, <1>7, <1>8, <1>9 DEF Sound

\* db_clean_up takes whole days away.
LEMMA CleanUpSound ==
    ASSUME NEW v \in Databases, Sound(v)
    PROVE  CleanedUp(v) \in Databases /\ Sound(CleanedUp(v))
<1> DEFINE w == CleanedUp(v)
<1>w. /\ w \in Databases
      /\ \A j \in Jobs : w.jobs[j] = IF Expired(j[1]) THEN NoJob ELSE v.jobs[j]
      /\ \A r \in Rows : w.rows[r] = IF Expired(r[1]) THEN "absent" ELSE v.rows[r]
      /\ w.reports = {rep \in v.reports : ~Expired(rep.day)}
  <2>1. NoJob \in JobStates /\ "absent" \in RowStates
    BY OptionAssumption DEF NoJob, JobStates, RowStates
  <2>2. /\ v.jobs \in [Jobs -> JobStates] /\ v.rows \in [Rows -> RowStates]
        /\ v.reports \in SUBSET ReportRows
    BY DEF Databases
  <2>3. /\ w.jobs = [j \in Jobs |-> IF Expired(j[1]) THEN NoJob ELSE v.jobs[j]]
        /\ w.rows = [r \in Rows |-> IF Expired(r[1]) THEN "absent" ELSE v.rows[r]]
        /\ w.reports = {rep \in v.reports : ~Expired(rep.day)}
    BY DEF CleanedUp
  <2>4. /\ w.jobs \in [Jobs -> JobStates] /\ w.rows \in [Rows -> RowStates]
        /\ w.reports \in SUBSET ReportRows
    BY <2>1, <2>2, <2>3
  <2>5. w \in Databases
    BY <2>3, <2>4 DEF CleanedUp, Databases
  <2> QED BY <2>3, <2>5
<1> HIDE DEF w
<1>n. NoJob.status = "absent"
  BY DEF NoJob
<1>p. \A d \in Days, f \in Fetchers :
          /\ Expired(d) => /\ Present(w, d, f) = {}
                           /\ w.jobs[<<d, f>>].status = "absent"
          /\ ~Expired(d) => /\ Present(w, d, f) = Present(v, d, f)
                            /\ w.jobs[<<d, f>>] = v.jobs[<<d, f>>]
  <2>1. \A d \in Days, f \in Fetchers : w.jobs[<<d, f>>] =
            IF Expired(d) THEN NoJob ELSE v.jobs[<<d, f>>]
    BY <1>w, KeyFacts
  <2>2. \A d \in Days, f \in Fetchers, dom \in Domains : w.rows[<<d, f, dom>>] =
            IF Expired(d) THEN "absent" ELSE v.rows[<<d, f, dom>>]
    BY <1>w, KeyFacts
  <2>3. ASSUME NEW d \in Days, NEW f \in Fetchers, Expired(d)
        PROVE  Present(w, d, f) = {} /\ w.jobs[<<d, f>>].status = "absent"
    BY <1>n, <2>1, <2>2, <2>3 DEF Present
  <2>4. ASSUME NEW d \in Days, NEW f \in Fetchers, ~Expired(d)
        PROVE  Present(w, d, f) = Present(v, d, f) /\ w.jobs[<<d, f>>] = v.jobs[<<d, f>>]
    BY <2>1, <2>2, <2>4 DEF Present
  <2> QED BY <2>3, <2>4
<1>t. \A t \in Topics :
          /\ Expired(t[1]) => ReportsOf(w, t) = {}
          /\ ~Expired(t[1]) => /\ ReportsOf(w, t) = ReportsOf(v, t)
                               /\ \A rec : Parts(w, t, rec) = Parts(v, t, rec)
                               /\ RecordsOf(w, t) = RecordsOf(v, t)
  <2>1. ASSUME NEW t \in Topics, Expired(t[1]) PROVE ReportsOf(w, t) = {}
    BY <1>w, <2>1 DEF ReportsOf
  <2>2. ASSUME NEW t \in Topics, ~Expired(t[1])
        PROVE  /\ ReportsOf(w, t) = ReportsOf(v, t)
               /\ \A rec : Parts(w, t, rec) = Parts(v, t, rec)
    BY <1>w, <2>2, KeyFacts DEF ReportsOf, Parts
  <2> QED BY <2>1, <2>2 DEF RecordsOf
<1>1. WholeLists(w)
  BY <1>p DEF Sound, WholeLists
<1>2. JobsTogether(w)
  BY <1>p DEF Sound, JobsTogether
<1>3. RowsHaveJobs(w)
  BY <1>w, <1>p, KeyFacts DEF Sound, RowsHaveJobs
<1>4. \A d \in OpenDays(w) : d \in OpenDays(v)
  BY <1>p DEF OpenDays
<1>5. DataWhenDone(w)
  BY <1>w, <1>4 DEF Sound, DataWhenDone
<1>6. NothingAwaited(w)
  BY <1>w, <1>t DEF Sound, NothingAwaited, RowsOf
<1>7. Matching(w)
  BY <1>t DEF Sound, Matching
<1>8. Numbered(w)
  <2>1. IsFiniteSet(w.reports)
    BY <1>w, FS_Subset DEF Sound, Numbered
  <2>2. \A rep \in w.reports : ReportsOf(w, <<rep.day, rep.dom>>)
                                   = ReportsOf(v, <<rep.day, rep.dom>>)
    BY <1>w, <1>t, ReportFacts
  <2> QED BY <1>w, <2>1, <2>2 DEF Sound, Numbered
<1> QED BY <1>w, <1>1, <1>2, <1>3, <1>5, <1>6, <1>7, <1>8 DEF Sound, w

\* The details of one row arrive.
LEMMA DetailsSound ==
    ASSUME NEW v \in Databases, NEW w \in Databases, Sound(v), NEW r \in ToFetch(v),
           w.jobs = v.jobs, w.reports = v.reports,
           NEW x \in {"full", "void"}, w.rows = [v.rows EXCEPT ![r] = x]
    PROVE  Sound(w)
<1>r. /\ r \in Rows /\ v.rows[r] = "listed" /\ r[1] \notin OpenDays(v)
      /\ \A q \in Rows : w.rows[q] = IF q = r THEN x ELSE v.rows[q]
  BY DbFacts DEF ToFetch
<1>o. OpenDays(w) = OpenDays(v)
  BY DEF OpenDays
<1>1. \A d \in Days, f \in Fetchers : Present(w, d, f) = Present(v, d, f)
  BY <1>r, KeyFacts DEF Present
<1>2. WholeLists(w) /\ JobsTogether(w)
  BY <1>1 DEF Sound, WholeLists, JobsTogether
<1>3. RowsHaveJobs(w)
  BY <1>r DEF Sound, RowsHaveJobs
<1>4. DataWhenDone(w)
  BY <1>r, <1>o DEF Sound, DataWhenDone
<1>5. \A t : ReportsOf(w, t) = ReportsOf(v, t)
  BY DEF ReportsOf
<1>6. NothingAwaited(w)
  BY <1>r, <1>5 DEF Sound, NothingAwaited, RowsOf
<1>7. Matching(w)
  <2> SUFFICES ASSUME NEW t \in Topics, ReportsOf(v, t) # {}
               PROVE  /\ \A rec : Parts(w, t, rec) = Parts(v, t, rec)
                      /\ RecordsOf(w, t) = RecordsOf(v, t)
    BY <1>5 DEF Sound, Matching
  <2>1. r \notin RowsOf(v, t)
    BY <1>r DEF Sound, NothingAwaited
  <2>2. \A f \in Fetchers : w.rows[<<t[1], f, t[2]>>] = v.rows[<<t[1], f, t[2]>>]
    BY <1>r, <2>1, KeyFacts DEF RowsOf
  <2>3. \A rec : Parts(w, t, rec) = Parts(v, t, rec)
    BY <2>2 DEF Parts
  <2> QED BY <2>3 DEF RecordsOf
<1>8. Numbered(w)
  BY <1>5 DEF Sound, Numbered
<1> QED BY <1>2, <1>3, <1>4, <1>6, <1>7, <1>8 DEF Sound

\* The list of one fetcher, whole: its job is open, so nothing of the day has
\* been reported yet.
LEMMA ListSound ==
    ASSUME NEW v \in Databases, NEW w \in Databases, Sound(v), NEW j \in Jobs,
           v.jobs[j].status = "open", w.jobs = v.jobs, w.reports = v.reports,
           \A r \in Rows : w.rows[r] =
               IF v.rows[r] = "absent" /\ <<r[1], r[2]>> = j /\ r[3] \in Listed(j[2])
               THEN "listed" ELSE v.rows[r]
    PROVE  Sound(w) /\ Present(w, j[1], j[2]) = Listed(j[2])
<1>o. OpenDays(w) = OpenDays(v) /\ j[1] \in OpenDays(v)
  BY KeyFacts DEF OpenDays
<1>1. Present(w, j[1], j[2]) = Listed(j[2])
  <2>1. Present(v, j[1], j[2]) \in {{}, Listed(j[2])} /\ Listed(j[2]) \subseteq Domains
    BY KeyFacts DEF Sound, WholeLists, Listed
  <2> QED BY <2>1, KeyFacts DEF Present
<1>2. \A d \in Days, f \in Fetchers :
          <<d, f>> # j => Present(w, d, f) = Present(v, d, f)
  BY KeyFacts DEF Present
<1>3. WholeLists(w)
  <2> SUFFICES ASSUME NEW d \in Days, NEW f \in Fetchers
               PROVE  /\ Present(w, d, f) \in {{}, Listed(f)}
                      /\ w.jobs[<<d, f>>].status = "ok" => Present(w, d, f) = Listed(f)
    BY DEF WholeLists
  <2>1. CASE <<d, f>> = j
    BY <1>1, <2>1
  <2>2. CASE <<d, f>> # j
    BY <1>2, <2>2 DEF Sound, WholeLists
  <2> QED BY <2>1, <2>2
<1>4. JobsTogether(w)
  BY DEF Sound, JobsTogether
<1>5. RowsHaveJobs(w)
  BY DEF Sound, RowsHaveJobs
<1>6. DataWhenDone(w)
  BY <1>o DEF Sound, DataWhenDone
<1>7. NothingAwaited(w)
  <2> SUFFICES ASSUME NEW t \in Topics, ReportsOf(w, t) # {}, NEW r \in RowsOf(w, t)
               PROVE  w.rows[r] # "listed"
    BY DEF NothingAwaited
  <2>1. ReportsOf(v, t) # {} /\ r \in RowsOf(v, t)
    BY DEF ReportsOf, RowsOf
  <2>2. t[1] \notin OpenDays(v)
    BY <2>1, ReportedDayDone DEF Sound
  <2>3. r \in Rows /\ r[1] = t[1]
    BY DEF RowsOf
  <2>4. w.rows[r] = v.rows[r]
    BY <1>o, <2>2, <2>3
  <2> QED BY <2>1, <2>4 DEF Sound, NothingAwaited
<1>8. Matching(w) /\ Numbered(w)
  <2>1. \A r \in Rows : w.rows[r] = "full" <=> v.rows[r] = "full"
    OBVIOUS
  <2> QED BY <2>1, SameData DEF Sound
<1> QED BY <1>1, <1>3, <1>4, <1>5, <1>6, <1>7, <1>8 DEF Sound

-----------------------------------------------------------------------------
(* The steps.                                                              *)

\* A new database is sound, whatever the fetchers have to offer.
LEMMA FreshInv ==
    ASSUME Fresh, avail \in [Fetchers -> Days \cup {-1}], \A f \in Fetchers : avail[f] < date
    PROVE  ReportdInv
<1> USE DEF Fresh
<1>1. /\ Empty \in Databases
      /\ \A j \in Jobs : Empty.jobs[j] = NoJob
      /\ \A r \in Rows : Empty.rows[r] = "absent"
      /\ Empty.reports = {}
  <2>1. NoJob \in JobStates /\ "absent" \in RowStates
    BY OptionAssumption DEF NoJob, JobStates, RowStates
  <2> QED BY <2>1 DEF Empty, Databases
<1>2. TypeOK
  BY <1>1, BoundAssumption DEF TypeOK, Running, Halted, Days
<1>3. \A t : ReportsOf(Empty, t) = {}
  BY <1>1 DEF ReportsOf
<1>4. \A d \in Days, f \in Fetchers : /\ Present(Empty, d, f) = {}
                                      /\ Empty.jobs[<<d, f>>].status = "absent"
  <2>1. \A d \in Days, f \in Fetchers : Empty.jobs[<<d, f>>] = NoJob
    BY <1>1, KeyFacts
  <2>2. \A d \in Days, f \in Fetchers, dom \in Domains :
            Empty.rows[<<d, f, dom>>] = "absent"
    BY <1>1, KeyFacts
  <2>3. NoJob.status = "absent"
    BY DEF NoJob
  <2>4. ASSUME NEW d \in Days, NEW f \in Fetchers PROVE Present(Empty, d, f) = {}
    BY <2>2 DEF Present
  <2> QED BY <2>1, <2>3, <2>4
<1>5. Numbered(Empty)
  BY <1>1, FS_EmptySet DEF Numbered
<1>6. WholeLists(Empty) /\ JobsTogether(Empty)
  BY <1>4 DEF WholeLists, JobsTogether
<1>7. RowsHaveJobs(Empty) /\ DataWhenDone(Empty)
  BY <1>1 DEF RowsHaveJobs, DataWhenDone
<1>8. NothingAwaited(Empty) /\ Matching(Empty)
  BY <1>3 DEF NothingAwaited, Matching
<1> QED BY <1>2, <1>5, <1>6, <1>7, <1>8 DEF ReportdInv, Sound, NothingPending,
        CollectPending, ListPending, FetchCursor, CreateCursor, RenderPending

LEMMA InitInv == Init => ReportdInv
<1> SUFFICES ASSUME Init PROVE ReportdInv
  OBVIOUS
<1>1. PICK late \in SUBSET CutShort : avail = [f \in Fetchers |-> IF f \in late THEN -1 ELSE 0]
  BY DEF Init
<1>2. date = 1 /\ 0 \in Days
  BY BoundAssumption DEF Init, Fresh, Days
<1>3. avail \in [Fetchers -> Days \cup {-1}] /\ \A f \in Fetchers : avail[f] < date
  BY <1>1, <1>2
<1> QED BY <1>3, FreshInv DEF Init

\* Outside the transactions of collect_domains and create_report_for, the
\* connection sees what is committed.
LEMMA SettledView ==
    ASSUME ReportdInv,
           pc \in Halted \cup {"check", "collect", "mark", "fetch", "create", "send", "sleep"}
    PROVE  Sound(view)
BY DEF ReportdInv, NothingPending, CollectPending

\* The steps that leave the database as it is.
LEMMA QuietStep ==
    ASSUME ReportdInv,
           \/ \E j \in Jobs : Refuse(j) \/ Garble(j)
           \/ \E r \in Rows : FetchFails(r)
           \/ FetcherHangs \/ FetchEnds \/ CreateEnds \/ SendEnds \/ WakeUp \/ Start
           \/ Midnight
    PROVE  ReportdInv'
<1> USE DEF Refuse, Garble, FetchFails, FetcherHangs, FetchEnds, CreateEnds, SendEnds,
            WakeUp, Start, Midnight, world, locals
<1>0. view' = view /\ db' = db /\ made' = made
  OBVIOUS
<1>1. TypeOK'
  <2>1. TypeOK
    BY DEF ReportdInv
  <2>2. pc' \in Running \cup Halted
    BY <2>1 DEF TypeOK, Running, Halted
  <2>3. date \in 1 .. LastDate /\ starts \in 0 .. MaxStarts /\ LastDate \in Nat
        /\ MaxStarts \in Nat /\ avail \in [Fetchers -> Days \cup {-1}]
        /\ \A f \in Fetchers : avail[f] < date
    BY <2>1, BoundAssumption DEF TypeOK
  <2>4. /\ date' = date \/ (date < LastDate /\ date' = date + 1)
        /\ starts' = starts \/ (starts < MaxStarts /\ starts' = starts + 1)
        /\ avail' = avail
    OBVIOUS
  <2>5. date' \in 1 .. LastDate /\ date <= date' /\ starts' \in 0 .. MaxStarts
    BY ONLY <2>3, <2>4
  <2>6. avail' \in [Fetchers -> Days \cup {-1}] /\ \A f \in Fetchers : avail'[f] < date'
    BY ONLY <2>3, <2>4, <2>5 DEF Days
  <2> QED BY <1>0, <2>1, <2>2, <2>5, <2>6 DEF TypeOK
<1>2. Sound(db)' /\ Numbered(view)'
  BY <1>0 DEF ReportdInv
<1>3. NothingPending'
  BY <1>0 DEF ReportdInv, NothingPending, Halted
<1>4. CollectPending'
  <2>1. CollectPending
    BY DEF ReportdInv
  <2>2. CASE \E j \in Jobs : Refuse(j)
    <3>1. PICK j \in todo : /\ cur' = <<j, FALSE>> /\ todo' = todo /\ view' = view
                            /\ pc = "collect" /\ pc' = "mark"
      BY <1>0, <2>2
    <3>2. cur' \in todo \X BOOLEAN /\ ~cur'[2]
      BY ONLY <3>1
    <3> QED BY ONLY <2>1, <3>1, <3>2 DEF CollectPending
  <2>3. CASE UNCHANGED <<pc, cur, todo>> \/ pc' \notin {"collect", "list", "mark"}
    BY ONLY <1>0, <2>1, <2>3 DEF CollectPending
  <2> QED BY <2>2, <2>3 DEF Halted
<1>5. ListPending'
  <2>1. ListPending
    BY DEF ReportdInv
  <2>2. pc' = "list" => pc = "list" /\ UNCHANGED <<cur, save, read, view>>
    BY <1>0 DEF Halted
  <2>3. save' = save => RolledBack(view)' = RolledBack(view)
    BY <1>0 DEF RolledBack
  <2> QED BY ONLY <2>1, <2>2, <2>3 DEF ListPending
<1>6. FetchCursor'
  BY <1>0 DEF ReportdInv, FetchCursor, Halted
<1>7. CreateCursor'
  BY <1>0 DEF ReportdInv, CreateCursor, NothingPending, Halted
<1>8. RenderPending'
  BY <1>0 DEF ReportdInv, RenderPending, Halted
<1> QED BY <1>1, <1>2, <1>3, <1>4, <1>5, <1>6, <1>7, <1>8 DEF ReportdInv

\* The shape of the state after a step of the process.
LEMMA StepTyped ==
    ASSUME TypeOK, view' \in Databases, db' \in Databases, pc' \in Running \cup Halted,
           made' \in [Days \X Domains \X Records -> Nat], UNCHANGED world
    PROVE  TypeOK'
BY DEF TypeOK, world

\* After a commit the invariant is about the cursor of the next stage only.
LEMMA Committed ==
    ASSUME TypeOK', db' = view', Sound(view'),
           pc' \notin {"collect", "list", "mark", "render"},
           FetchCursor', CreateCursor'
    PROVE  ReportdInv'
<1>1. Numbered(view') /\ Numbered(view)'
  BY DEF Sound
<1>2. Sound(db)'
  OBVIOUS
<1> QED BY <1>1, <1>2 DEF ReportdInv, NothingPending, CollectPending, ListPending,
        RenderPending

\* Within collect_domains the marks of the jobs may be pending.
LEMMA Collecting ==
    ASSUME TypeOK', Sound(db'), Sound(view'), pc' \in {"collect", "mark"}, CollectPending'
    PROVE  ReportdInv'
<1>1. Numbered(view') /\ Numbered(view)'
  BY DEF Sound
<1>2. Sound(db)'
  OBVIOUS
<1> QED BY <1>1, <1>2 DEF ReportdInv, NothingPending, Halted, ListPending, FetchCursor,
        CreateCursor, RenderPending

LEMMA CheckDayStep == ReportdInv /\ CheckDay => ReportdInv'
<1> SUFFICES ASSUME ReportdInv, CheckDay PROVE ReportdInv'
  OBVIOUS
<1> DEFINE cleaned == CleanedUp(view)
           yesterday == {j \in Jobs : j[1] = date - 1}
           new == [j \in Jobs |-> IF j \in yesterday THEN NewJob ELSE cleaned.jobs[j]]
<1>1. TypeOK /\ Sound(db) /\ Sound(view) /\ view \in Databases /\ db \in Databases
  BY SettledView DEF CheckDay, ReportdInv, TypeOK
<1>2. cleaned \in Databases /\ Sound(cleaned)
  BY <1>1, CleanUpSound
<1>3. NewJob \in JobStates /\ NewJob.status = "open"
  <2>1. NoJob \in JobStates
    BY OptionAssumption DEF NoJob, JobStates
  <2> QED BY <2>1 DEF NewJob, JobStates
<1>4. view' \in Databases /\ Sound(view') /\ db' \in {db, view'}
  <2>1. CASE \E j \in yesterday : cleaned.jobs[j].status # "absent"
    BY <1>2, <2>1 DEF CheckDay
  <2>2. CASE ~\E j \in yesterday : cleaned.jobs[j].status # "absent"
    <3>1. view' = [cleaned EXCEPT !.jobs = new] /\ db' = view'
      BY <2>2 DEF CheckDay
    <3>2. new \in [Jobs -> JobStates]
      BY <1>2, <1>3, DbFacts
    <3>3. \A j \in Jobs : new[j] = IF j[1] = date - 1 THEN NewJob ELSE cleaned.jobs[j]
      OBVIOUS
    <3> HIDE DEF cleaned, new
    <3>4. /\ view' \in Databases /\ view'.jobs = new
          /\ view'.rows = cleaned.rows /\ view'.reports = cleaned.reports
      BY <1>2, <3>1, <3>2, DbFacts
    <3>5. \A j \in Jobs : IF j[1] = date - 1 THEN /\ cleaned.jobs[j].status = "absent"
                                                  /\ view'.jobs[j].status = "open"
                          ELSE view'.jobs[j].status = cleaned.jobs[j].status
      BY <1>3, <2>2, <3>3, <3>4
    <3>6. Sound(view')
      BY ONLY <1>2, <3>4, <3>5, JobsAppear
    <3> QED BY <3>1, <3>4, <3>6
  <2> QED BY <2>1, <2>2
<1>5. /\ pc' = "collect" /\ todo' = Due(view') /\ UNCHANGED <<world, made>>
  BY DEF CheckDay
<1>6. TypeOK'
  <2>1. made' \in [Days \X Domains \X Records -> Nat] /\ pc' \in Running \cup Halted
    BY <1>1, <1>5 DEF TypeOK, Running
  <2> QED BY <1>1, <1>4, <1>5, <2>1, StepTyped
<1>7. CollectPending'
  BY <1>4, <1>5 DEF CollectPending, Due
<1> QED BY <1>1, <1>4, <1>5, <1>6, <1>7, Collecting

\* What holds while a list is read.
LEMMA WithinList ==
    ASSUME ReportdInv, pc = "list"
    PROVE  /\ TypeOK /\ Sound(db) /\ Numbered(view) /\ view \in Databases
           /\ save \in [Rows -> RowStates]
           /\ RolledBack(view) \in Databases /\ Sound(RolledBack(view))
           /\ RolledBack(view).rows = save /\ RolledBack(view).jobs = view.jobs
           /\ RolledBack(view).reports = view.reports
           /\ cur[1] \in todo /\ cur[1] \in Jobs
           /\ cur \in todo \X BOOLEAN
           /\ todo \subseteq {j \in Jobs : view.jobs[j].status = "open"}
           /\ read \subseteq Listed(cur[1][2])
           /\ view.rows = [r \in Rows |->
                  IF save[r] = "absent" /\ <<r[1], r[2]>> = cur[1] /\ r[3] \in read
                  THEN "listed" ELSE save[r]]
<1>1. TypeOK /\ Sound(db) /\ Numbered(view) /\ CollectPending /\ ListPending
  BY DEF ReportdInv
<1>2. view \in Databases
  BY <1>1 DEF TypeOK
<1>3. /\ save \in [Rows -> RowStates] /\ Sound(RolledBack(view))
      /\ read \subseteq Listed(cur[1][2])
      /\ view.rows = [r \in Rows |->
             IF save[r] = "absent" /\ <<r[1], r[2]>> = cur[1] /\ r[3] \in read
             THEN "listed" ELSE save[r]]
  BY <1>1 DEF ListPending
<1>4. /\ cur \in todo \X BOOLEAN
      /\ todo \subseteq {j \in Jobs : view.jobs[j].status = "open"}
  BY <1>1 DEF CollectPending
<1>5. /\ RolledBack(view) \in Databases
      /\ RolledBack(view).rows = save /\ RolledBack(view).jobs = view.jobs
      /\ RolledBack(view).reports = view.reports
  BY <1>2, <1>3, DbFacts DEF RolledBack
<1> QED BY <1>1, <1>2, <1>3, <1>4, <1>5

LEMMA AcceptStep == ASSUME ReportdInv, NEW j \in Jobs, Accept(j) PROVE ReportdInv'
<1>1. /\ TypeOK /\ Sound(db) /\ Sound(view) /\ view \in Databases /\ db \in Databases
      /\ todo \subseteq {i \in Jobs : view.jobs[i].status = "open"}
  BY SettledView DEF Accept, ReportdInv, TypeOK, CollectPending
<1>2. /\ j \in todo /\ cur' = <<j, TRUE>> /\ save' = view.rows /\ read' = {}
      /\ pc' = "list" /\ todo' = todo /\ view' = view /\ db' = db
      /\ UNCHANGED <<world, made>>
  BY DEF Accept
<1>3. TypeOK'
  <2>1. made' \in [Days \X Domains \X Records -> Nat] /\ pc' \in Running \cup Halted
    BY <1>1, <1>2 DEF TypeOK, Running
  <2> QED BY <1>1, <1>2, <2>1, StepTyped
<1>4. CollectPending'
  <2>1. cur' \in todo \X BOOLEAN
    BY <1>2
  <2> QED BY <1>1, <1>2, <2>1 DEF CollectPending
<1>5. ListPending'
  <2>1. RolledBack(view)' = view
    <3>1. view = [jobs |-> view.jobs, rows |-> view.rows, reports |-> view.reports]
      BY <1>1, DbFacts
    <3>2. [view EXCEPT !.rows = view.rows] = view
      BY <3>1
    <3> QED BY <1>2, <3>2 DEF RolledBack
  <2>2. view.rows \in [Rows -> RowStates]
    BY <1>1, DbFacts
  <2>3. view.rows = [r \in Rows |->
            IF view.rows[r] = "absent" /\ <<r[1], r[2]>> = cur'[1] /\ r[3] \in read'
            THEN "listed" ELSE view.rows[r]]
    BY <1>2, <2>2
  <2>4. Sound(RolledBack(view)')
    BY <1>1, <2>1
  <2> QED BY <1>2, <2>2, <2>3, <2>4 DEF ListPending
<1>6. Sound(db)' /\ Numbered(view)'
  BY <1>1, <1>2 DEF Sound
<1> QED BY <1>2, <1>3, <1>4, <1>5, <1>6 DEF ReportdInv, NothingPending, Halted, FetchCursor,
        CreateCursor, RenderPending

LEMMA ReadDomainStep ==
    ASSUME ReportdInv, NEW dom \in Domains, ReadDomain(dom) PROVE ReportdInv'
<1> DEFINE r == <<cur[1][1], cur[1][2], dom>>
           rows == [view.rows EXCEPT ![r] = IF @ = "absent" THEN "listed" ELSE @]
<1>1. /\ pc = "list" /\ dom \in Listed(cur[1][2]) /\ read' = read \cup {dom}
      /\ UNCHANGED <<world, pc, todo, cur, save, db, made>>
  BY DEF ReadDomain
<1>2. view' = [view EXCEPT !.rows[r] = IF @ = "absent" THEN "listed" ELSE @]
  BY DEF ReadDomain
<1>3. /\ TypeOK /\ Sound(db) /\ Numbered(view) /\ view \in Databases
      /\ save \in [Rows -> RowStates] /\ Sound(RolledBack(view))
      /\ cur[1] \in Jobs /\ cur \in todo \X BOOLEAN
      /\ todo \subseteq {j \in Jobs : view.jobs[j].status = "open"}
      /\ read \subseteq Listed(cur[1][2])
      /\ view.rows = [q \in Rows |->
             IF save[q] = "absent" /\ <<q[1], q[2]>> = cur[1] /\ q[3] \in read
             THEN "listed" ELSE save[q]]
  BY <1>1, WithinList
<1>4. r \in Rows /\ <<r[1], r[2]>> = cur[1] /\ r[3] = dom
  BY <1>3, KeyFacts
<1>5. rows \in [Rows -> RowStates] /\ view.rows \in [Rows -> RowStates]
  <2>1. view.rows \in [Rows -> RowStates] /\ "listed" \in RowStates
    BY <1>3, DbFacts DEF RowStates
  <2> QED BY <1>4, <2>1
<1>6. rows = [q \in Rows |->
          IF save[q] = "absent" /\ <<q[1], q[2]>> = cur[1] /\ q[3] \in read'
          THEN "listed" ELSE save[q]]
  <2> SUFFICES ASSUME NEW q \in Rows
               PROVE  rows[q] =
                   IF save[q] = "absent" /\ <<q[1], q[2]>> = cur[1] /\ q[3] \in read'
                   THEN "listed" ELSE save[q]
    BY <1>5
  <2>1. CASE q = r
    BY <1>1, <1>3, <1>4, <1>5, <2>1
  <2>2. CASE q # r
    <3>1. rows[q] = view.rows[q]
      BY <1>5, <2>2
    <3>2. <<q[1], q[2]>> = cur[1] => q[3] # dom
      BY <1>4, <2>2, KeyFacts
    <3> QED BY <1>1, <1>3, <3>1, <3>2
  <2> QED BY <2>1, <2>2
<1>7. view' = [view EXCEPT !.rows = rows]
  BY <1>2
<1> HIDE DEF rows
<1>8. /\ view' \in Databases /\ view'.rows = rows /\ view'.jobs = view.jobs
      /\ view'.reports = view.reports
  BY <1>3, <1>5, <1>7, DbFacts
<1>9. TypeOK'
  <2>1. /\ made' \in [Days \X Domains \X Records -> Nat] /\ pc' \in Running \cup Halted
        /\ db' \in Databases
    BY <1>1, <1>3 DEF TypeOK
  <2> QED BY <1>1, <1>3, <1>8, <2>1, StepTyped
<1>10. CollectPending'
  BY <1>1, <1>3, <1>8 DEF CollectPending
<1>11. RolledBack(view)' = RolledBack(view)
  <2>1. view = [jobs |-> view.jobs, rows |-> view.rows, reports |-> view.reports]
    BY <1>3, DbFacts
  <2>2. view' = [jobs |-> view.jobs, rows |-> rows, reports |-> view.reports]
    BY <1>7, <2>1
  <2>3. [view EXCEPT !.rows = save]
            = [jobs |-> view.jobs, rows |-> save, reports |-> view.reports]
    BY <2>1
  <2>4. [view' EXCEPT !.rows = save]
            = [jobs |-> view.jobs, rows |-> save, reports |-> view.reports]
    BY <2>2
  <2> QED BY <1>1, <2>3, <2>4 DEF RolledBack
<1>12. ListPending'
  <2>1. read' \subseteq Listed(cur'[1][2])
    BY <1>1, <1>3
  <2>2. Sound(RolledBack(view)')
    BY <1>3, <1>11
  <2> QED BY <1>1, <1>3, <1>6, <1>8, <2>1, <2>2 DEF ListPending
<1>13. Sound(db)' /\ Numbered(view)'
  BY <1>1, <1>3, <1>8 DEF Numbered, ReportsOf
<1> QED BY <1>1, <1>9, <1>10, <1>12, <1>13 DEF ReportdInv, NothingPending, Halted,
        FetchCursor, CreateCursor, RenderPending

LEMMA ListEndsStep == ReportdInv /\ ListEnds => ReportdInv'
<1> SUFFICES ASSUME ReportdInv, ListEnds PROVE ReportdInv'
  OBVIOUS
<1>1. /\ pc = "list" /\ read = Listed(cur[1][2]) /\ db' = view /\ pc' = "mark"
      /\ UNCHANGED <<world, todo, cur, view, made>>
  BY DEF ListEnds, Commit
<1>2. /\ TypeOK /\ view \in Databases
      /\ RolledBack(view) \in Databases /\ Sound(RolledBack(view))
      /\ RolledBack(view).rows = save /\ RolledBack(view).jobs = view.jobs
      /\ RolledBack(view).reports = view.reports
      /\ cur[1] \in Jobs /\ cur \in todo \X BOOLEAN
      /\ todo \subseteq {j \in Jobs : view.jobs[j].status = "open"}
      /\ view.rows = [r \in Rows |->
             IF save[r] = "absent" /\ <<r[1], r[2]>> = cur[1] /\ r[3] \in read
             THEN "listed" ELSE save[r]]
  BY <1>1, WithinList
<1>3. Sound(view) /\ Present(view, cur[1][1], cur[1][2]) = Listed(cur[1][2])
  <2>1. cur[1] \in Jobs /\ RolledBack(view).jobs[cur[1]].status = "open"
    BY <1>2
  <2>2. \A r \in Rows : view.rows[r] =
            IF RolledBack(view).rows[r] = "absent" /\ <<r[1], r[2]>> = cur[1]
               /\ r[3] \in Listed(cur[1][2])
            THEN "listed" ELSE RolledBack(view).rows[r]
    BY <1>1, <1>2
  <2> QED BY ONLY <1>2, <2>1, <2>2, ListSound
<1>4. TypeOK'
  <2>1. made' \in [Days \X Domains \X Records -> Nat] /\ pc' \in Running \cup Halted
    BY <1>1, <1>2 DEF TypeOK, Running
  <2> QED BY <1>1, <1>2, <2>1, StepTyped
<1>5. CollectPending'
  BY <1>1, <1>2, <1>3 DEF CollectPending
<1> QED BY <1>1, <1>3, <1>4, <1>5, Collecting

LEMMA ListBreaksStep == ReportdInv /\ ListBreaks => ReportdInv'
<1> SUFFICES ASSUME ReportdInv, ListBreaks PROVE ReportdInv'
  OBVIOUS
<1>1. /\ pc = "list" /\ view' = RolledBack(view) /\ db' = view' /\ pc' = "mark"
      /\ cur' = <<cur[1], FALSE>> /\ UNCHANGED <<world, todo, made>>
  BY DEF ListBreaks
<1>2. /\ TypeOK /\ RolledBack(view) \in Databases /\ Sound(RolledBack(view))
      /\ RolledBack(view).jobs = view.jobs /\ cur[1] \in todo
      /\ todo \subseteq {j \in Jobs : view.jobs[j].status = "open"}
  BY <1>1, WithinList
<1>3. TypeOK'
  <2>1. made' \in [Days \X Domains \X Records -> Nat] /\ pc' \in Running \cup Halted
    BY <1>1, <1>2 DEF TypeOK, Running
  <2> QED BY <1>1, <1>2, <2>1, StepTyped
<1>4. CollectPending'
  <2>1. cur' \in todo \X BOOLEAN /\ ~cur'[2]
    BY ONLY <1>1, <1>2
  <2> QED BY <1>1, <1>2, <2>1 DEF CollectPending
<1> QED BY <1>1, <1>2, <1>3, <1>4, Collecting

LEMMA MarkJobStep == ReportdInv /\ MarkJob => ReportdInv'
<1> SUFFICES ASSUME ReportdInv, MarkJob PROVE ReportdInv'
  OBVIOUS
<1> DEFINE j == cur[1]
           job == IF cur[2] THEN [view.jobs[j] EXCEPT !.status = "ok"]
                  ELSE AfterFailure(view.jobs[j])
           jobs == [view.jobs EXCEPT ![j] = job]
<1>1. /\ pc = "mark" /\ view' = [view EXCEPT !.jobs = jobs] /\ todo' = todo \ {j}
      /\ pc' = "collect" /\ UNCHANGED <<world, db, made>>
  BY DEF MarkJob
<1>2. /\ TypeOK /\ Sound(db) /\ Sound(view) /\ view \in Databases /\ db \in Databases
      /\ todo \subseteq {i \in Jobs : view.jobs[i].status = "open"}
      /\ cur \in todo \X BOOLEAN
      /\ cur[2] => Present(view, j[1], j[2]) = Listed(j[2])
  BY <1>1, SettledView DEF ReportdInv, TypeOK, CollectPending
<1>3. j \in todo /\ j \in Jobs /\ view.jobs[j] \in JobStates /\ view.jobs[j].status = "open"
  BY <1>2, DbFacts
<1>4. /\ job \in JobStates
      /\ \/ job.status = "open"
         \/ job.status = "timedout"
         \/ job.status = "ok" /\ cur[2]
  <2>1. CASE cur[2]
    BY <1>3, <2>1 DEF JobStates
  <2>2. CASE ~cur[2]
    <3> DEFINE old == view.jobs[j]
    <3>1. job = AfterFailure(old) /\ old \in JobStates /\ old.status = "open"
      BY <1>3, <2>2
    <3> HIDE DEF job, old
    <3>2. CASE old.retries < MaxRetries
      <4>1. job = [old EXCEPT !.retries = @ + 1, !.later = TRUE]
        BY <3>1, <3>2 DEF AfterFailure
      <4>2. /\ old.status \in {"absent", "open", "ok", "timedout"}
            /\ old.retries + 1 \in 0 .. MaxRetries
            /\ old = [status |-> old.status, retries |-> old.retries, later |-> old.later]
        BY <3>1, <3>2, OptionAssumption DEF JobStates
      <4>3. job = [status |-> old.status, retries |-> old.retries + 1, later |-> TRUE]
        BY ONLY <4>1, <4>2
      <4> QED BY <3>1, <4>2, <4>3 DEF JobStates
    <3>3. CASE ~(old.retries < MaxRetries)
      <4>1. job = [old EXCEPT !.status = "timedout"]
        BY <3>1, <3>3 DEF AfterFailure
      <4> QED BY <3>1, <4>1 DEF JobStates
    <3> QED BY <3>2, <3>3
  <2> QED BY <2>1, <2>2
<1> HIDE DEF job
<1>5. /\ jobs \in [Jobs -> JobStates]
      /\ \A i \in Jobs : jobs[i] = IF i = j THEN job ELSE view.jobs[i]
  <2>1. view.jobs \in [Jobs -> JobStates]
    BY <1>2, DbFacts
  <2> QED BY <1>3, <1>4, <2>1
<1> HIDE DEF jobs
<1>6. /\ view' \in Databases /\ view'.jobs = jobs /\ view'.rows = view.rows
      /\ view'.reports = view.reports
  BY <1>1, <1>2, <1>5, DbFacts
<1>7. Sound(view')
  <2>1. \A i \in Jobs :
            \/ view'.jobs[i].status = view.jobs[i].status
            \/ /\ view.jobs[i].status = "open"
               /\ \/ view'.jobs[i].status = "timedout"
                  \/ /\ view'.jobs[i].status = "ok"
                     /\ Present(view, i[1], i[2]) = Listed(i[2])
    BY <1>2, <1>3, <1>4, <1>5, <1>6
  <2> QED BY ONLY <1>2, <1>6, <2>1, JobsMoved
<1>8. TypeOK'
  <2>1. made' \in [Days \X Domains \X Records -> Nat] /\ pc' \in Running \cup Halted
    BY <1>1, <1>2 DEF TypeOK, Running
  <2> QED BY <1>1, <1>2, <1>6, <2>1, StepTyped
<1>9. CollectPending'
  <2>1. \A i \in todo' : i \in Jobs /\ view'.jobs[i].status = "open"
    BY ONLY <1>1, <1>2, <1>5, <1>6
  <2> QED BY <1>1, <1>7, <2>1 DEF CollectPending
<1> QED BY <1>1, <1>2, <1>7, <1>8, <1>9, Collecting

LEMMA CollectEndsStep == ReportdInv /\ CollectEnds => ReportdInv'
<1> SUFFICES ASSUME ReportdInv, CollectEnds PROVE ReportdInv'
  OBVIOUS
<1>1. /\ pc = "collect" /\ db' = view /\ view' = view /\ pc' = "fetch"
      /\ todo' = ToFetch(view) /\ UNCHANGED <<world, made>>
  BY DEF CollectEnds, Commit
<1>2. TypeOK /\ Sound(view) /\ view \in Databases
  BY <1>1, SettledView DEF ReportdInv, TypeOK
<1>3. TypeOK'
  <2>1. made' \in [Days \X Domains \X Records -> Nat] /\ pc' \in Running \cup Halted
    BY <1>1, <1>2 DEF TypeOK, Running
  <2> QED BY <1>1, <1>2, <2>1, StepTyped
<1>4. FetchCursor' /\ CreateCursor'
  BY <1>1 DEF FetchCursor, CreateCursor
<1> QED BY <1>1, <1>2, <1>3, <1>4, Committed

LEMMA FetchDetailsStep ==
    ASSUME ReportdInv, NEW r \in Rows, FetchDetails(r) PROVE ReportdInv'
<1> DEFINE x == IF avail[r[2]] = r[1] THEN "full" ELSE "void"
           rows == [view.rows EXCEPT ![r] = x]
<1>1. /\ pc = "fetch" /\ r \in todo /\ todo' = todo \ {r} /\ db' = view'
      /\ view' = [view EXCEPT !.rows = rows] /\ UNCHANGED <<world, pc, made>>
  BY DEF FetchDetails
<1>2. /\ TypeOK /\ Sound(view) /\ view \in Databases /\ todo \subseteq ToFetch(view)
  BY <1>1, SettledView DEF ReportdInv, TypeOK, FetchCursor
<1>3. x \in {"full", "void"} /\ x \in RowStates
  BY DEF RowStates
<1> HIDE DEF x
<1>4. /\ rows \in [Rows -> RowStates]
      /\ \A q \in Rows : rows[q] = IF q = r THEN x ELSE view.rows[q]
  <2>1. view.rows \in [Rows -> RowStates]
    BY <1>2, DbFacts
  <2> QED BY <1>3, <2>1
<1>5. /\ view' \in Databases /\ view'.rows = rows /\ view'.jobs = view.jobs
      /\ view'.reports = view.reports
  BY <1>1, <1>2, <1>4, DbFacts
<1>6. Sound(view')
  <2>1. view'.rows = [view.rows EXCEPT ![r] = x] /\ r \in ToFetch(view)
    BY <1>1, <1>2, <1>5
  <2> HIDE DEF rows
  <2> QED BY ONLY <1>2, <1>3, <1>5, <2>1, DetailsSound
<1>7. TypeOK'
  <2>1. made' \in [Days \X Domains \X Records -> Nat] /\ pc' \in Running \cup Halted
    BY <1>1, <1>2 DEF TypeOK
  <2> QED BY <1>1, <1>2, <1>5, <2>1, StepTyped
<1>8. FetchCursor'
  <2>1. OpenDays(view') = OpenDays(view)
    BY <1>5 DEF OpenDays
  <2> QED BY <1>1, <1>2, <1>4, <1>5, <2>1 DEF FetchCursor, ToFetch
<1>9. CreateCursor'
  BY <1>1 DEF CreateCursor
<1> QED BY <1>1, <1>6, <1>7, <1>8, <1>9, Committed

LEMMA AggregateStep ==
    ASSUME ReportdInv, NEW t \in Topics, Aggregate(t) PROVE ReportdInv'
<1>1. /\ pc = "create" /\ t \in todo /\ cur' = t /\ read' = RecordsOf(view, t)
      /\ pc' = "render" /\ UNCHANGED <<world, todo, save, view, db, made>>
  BY DEF Aggregate
<1>2. /\ TypeOK /\ Sound(db) /\ Numbered(view) /\ view = db
      /\ todo \subseteq Ripe(db) /\ view \in Databases /\ db \in Databases
  BY <1>1 DEF ReportdInv, NothingPending, CreateCursor, TypeOK
<1>3. TypeOK'
  <2>1. made' \in [Days \X Domains \X Records -> Nat] /\ pc' \in Running \cup Halted
    BY <1>1, <1>2 DEF TypeOK, Running
  <2> QED BY <1>1, <1>2, <2>1, StepTyped
<1>4. CreateCursor'
  BY <1>1, <1>2 DEF CreateCursor
<1>5. RenderPending'
  <2>1. ReportsOf(db, t) = {}
    BY <1>1, <1>2 DEF Ripe, ReportsOf
  <2>2. {rep \in db.reports : <<rep.day, rep.dom>> # t} = db.reports
    BY <2>1, KeyFacts DEF ReportsOf
  <2>3. {rep.rec : rep \in ReportsOf(db, t)} = RecordsOf(db, t) \ RecordsOf(db, t)
    BY ONLY <2>1
  <2> QED BY <1>1, <1>2, <2>1, <2>2, <2>3 DEF RenderPending
<1>6. Sound(db)' /\ Numbered(view)'
  BY <1>1, <1>2
<1> QED BY <1>1, <1>3, <1>4, <1>5, <1>6 DEF ReportdInv, NothingPending, Halted,
        CollectPending, ListPending, FetchCursor

\* What holds while the reports of a topic are created.
LEMMA WithinTopic ==
    ASSUME ReportdInv, pc = "render"
    PROVE  /\ TypeOK /\ Sound(db) /\ Numbered(view)
           /\ view \in Databases /\ db \in Databases
           /\ todo \subseteq Ripe(db) /\ cur \in todo /\ cur \in Topics
           /\ view.jobs = db.jobs /\ view.rows = db.rows
           /\ read \subseteq RecordsOf(db, cur) /\ read \subseteq Records
           /\ {rep \in view.reports : <<rep.day, rep.dom>> # cur} = db.reports
           /\ {rep.rec : rep \in ReportsOf(view, cur)} = RecordsOf(db, cur) \ read
           /\ \A rep \in ReportsOf(view, cur) : rep.parts = Parts(db, cur, rep.rec)
           /\ \A t, rec : Parts(view, t, rec) = Parts(db, t, rec)
           /\ \A t : RecordsOf(view, t) = RecordsOf(db, t)
<1>1. TypeOK /\ Sound(db) /\ Numbered(view) /\ CreateCursor /\ RenderPending
  BY DEF ReportdInv
<1>2. view \in Databases /\ db \in Databases
  BY <1>1 DEF TypeOK
<1>3. todo \subseteq Ripe(db) /\ Ripe(db) \subseteq Topics
  BY <1>1 DEF CreateCursor, Ripe
<1>4. \A t, rec : Parts(view, t, rec) = Parts(db, t, rec)
  BY <1>1 DEF RenderPending, Parts
<1>5. \A t : RecordsOf(view, t) = RecordsOf(db, t) /\ RecordsOf(db, t) \subseteq Records
  BY <1>4 DEF RecordsOf
<1> QED BY <1>1, <1>2, <1>3, <1>4, <1>5 DEF RenderPending

LEMMA RenderReportStep ==
    ASSUME ReportdInv, NEW rec \in Records, RenderReport(rec) PROVE ReportdInv'
<1> DEFINE rep == [day |-> cur[1], dom |-> cur[2], rec |-> rec,
                   uniqid |-> NextId(view, cur), parts |-> Parts(view, cur, rec)]
           before == ReportsOf(view, cur)
<1>1. /\ pc = "render" /\ rec \in read /\ read' = read \ {rec}
      /\ view' = [view EXCEPT !.reports = view.reports \cup {rep}]
      /\ UNCHANGED <<world, pc, todo, cur, save, db, made>>
  BY DEF RenderReport
<1>2. /\ TypeOK /\ Sound(db) /\ Numbered(view)
      /\ view \in Databases /\ db \in Databases
      /\ todo \subseteq Ripe(db) /\ cur \in todo /\ cur \in Topics
      /\ view.jobs = db.jobs /\ view.rows = db.rows
      /\ read \subseteq RecordsOf(db, cur) /\ read \subseteq Records
      /\ {r \in view.reports : <<r.day, r.dom>> # cur} = db.reports
      /\ {r.rec : r \in before} = RecordsOf(db, cur) \ read
      /\ \A r \in before : r.parts = Parts(db, cur, r.rec)
      /\ \A t, x : Parts(view, t, x) = Parts(db, t, x)
  BY <1>1, WithinTopic
<1>3. IsFiniteSet(view.reports) /\ IsFiniteSet(before) /\ Cardinality(before) \in Nat
  BY <1>2, FS_Subset, FS_CardinalityType DEF Numbered, ReportsOf
<1>4. /\ rep.day = cur[1] /\ rep.dom = cur[2] /\ rep.rec = rec
      /\ rep.uniqid = Cardinality(before) + 1 /\ rep.parts = Parts(db, cur, rec)
  BY <1>2 DEF NextId
<1>5. rep \in ReportRows /\ <<rep.day, rep.dom>> = cur
  <2>1. rep.uniqid \in Nat /\ rep.parts \subseteq Fetchers
    BY <1>3, <1>4 DEF Parts
  <2> QED BY <1>2, <1>4, <2>1, KeyFacts DEF ReportRows
<1> HIDE DEF rep
<1>6. /\ view' \in Databases /\ view'.reports = view.reports \cup {rep}
      /\ view'.jobs = view.jobs /\ view'.rows = view.rows
  BY <1>1, <1>2, <1>5, DbFacts
<1>7. rep \notin before /\ \A r \in before : r.rec # rec
  BY <1>1, <1>2, <1>4
<1>8. /\ ReportsOf(view', cur) = before \cup {rep}
      /\ \A t \in Topics : t # cur => ReportsOf(view', t) = ReportsOf(view, t)
  BY <1>2, <1>4, <1>6, KeyFacts DEF ReportsOf
<1>9. Cardinality(ReportsOf(view', cur)) = Cardinality(before) + 1
  BY <1>3, <1>7, <1>8, FS_AddElement
<1>10. Numbered(view')
  <2>1. IsFiniteSet(view'.reports)
    BY ONLY <1>3, <1>6, FS_AddElement
  <2>2. \A r \in view.reports : /\ <<r.day, r.dom>> \in Topics /\ r.uniqid \in Nat
                                /\ r.uniqid <= Cardinality(ReportsOf(view, <<r.day, r.dom>>))
                                /\ <<r.day, r.dom>> = cur => r \in before
    BY <1>2, ReportFacts DEF Numbered
  <2>3. \A r \in before : r.uniqid <= Cardinality(before)
    <3>1. \A r \in before : r \in view.reports /\ <<r.day, r.dom>> = cur
      BY <1>2, KeyFacts DEF ReportsOf
    <3> QED BY <2>2, <3>1
  <2>4. \A r \in view'.reports :
            r.uniqid <= Cardinality(ReportsOf(view', <<r.day, r.dom>>))
    <3>1. rep.uniqid <= Cardinality(ReportsOf(view', <<rep.day, rep.dom>>))
      BY <1>3, <1>4, <1>5, <1>9
    <3>2. ASSUME NEW r \in view.reports
          PROVE  r.uniqid <= Cardinality(ReportsOf(view', <<r.day, r.dom>>))
      <4>1. CASE <<r.day, r.dom>> = cur
        BY <1>3, <1>9, <2>2, <2>3, <4>1
      <4>2. CASE <<r.day, r.dom>> # cur
        BY <1>8, <2>2, <4>2
      <4> QED BY <4>1, <4>2
    <3> QED BY <1>6, <3>1, <3>2
  <2>5. \A r \in view.reports :
            r.day = rep.day /\ r.dom = rep.dom => r.uniqid # rep.uniqid /\ r.rec # rep.rec
    <3> SUFFICES ASSUME NEW r \in view.reports, r.day = rep.day, r.dom = rep.dom
                 PROVE  r.uniqid # rep.uniqid /\ r.rec # rep.rec
      OBVIOUS
    <3>1. r \in before
      BY <1>5, <2>2
    <3>2. r.uniqid <= Cardinality(before) /\ r.uniqid \in Nat /\ r.rec # rec
      BY <1>7, <2>2, <2>3, <3>1
    <3> QED BY ONLY <1>3, <1>4, <3>2
  <2>6. \A r1, r2 \in view'.reports :
            r1.day = r2.day /\ r1.dom = r2.dom /\ (r1.uniqid = r2.uniqid \/ r1.rec = r2.rec)
                => r1 = r2
    BY <1>2, <1>6, <2>5 DEF Numbered
  <2> QED BY <2>1, <2>4, <2>6 DEF Numbered
<1>11. RenderPending'
  <2>1. {r \in view'.reports : <<r.day, r.dom>> # cur} = db.reports
    BY <1>2, <1>5, <1>6
  <2>2. {r.rec : r \in ReportsOf(view', cur)} = RecordsOf(db, cur) \ (read \ {rec})
    <3>1. {r.rec : r \in before \cup {rep}} = {r.rec : r \in before} \cup {rep.rec}
      OBVIOUS
    <3>2. rec \in read /\ read \subseteq RecordsOf(db, cur) /\ rep.rec = rec
      BY <1>1, <1>2, <1>4
    <3>3. (RecordsOf(db, cur) \ read) \cup {rec} = RecordsOf(db, cur) \ (read \ {rec})
      BY ONLY <3>2
    <3> QED BY <1>2, <1>8, <3>1, <3>2, <3>3
  <2>3. \A r \in ReportsOf(view', cur) : r.parts = Parts(db, cur, r.rec)
    BY <1>2, <1>4, <1>8
  <2> QED BY <1>1, <1>2, <1>6, <2>1, <2>2, <2>3 DEF RenderPending
<1>12. TypeOK'
  <2>1. made' \in [Days \X Domains \X Records -> Nat] /\ pc' \in Running \cup Halted
    BY <1>1, <1>2 DEF TypeOK
  <2> QED BY <1>1, <1>2, <1>6, <2>1, StepTyped
<1>13. Sound(db)' /\ Numbered(view)' /\ CreateCursor'
  BY <1>1, <1>2, <1>10 DEF CreateCursor
<1> QED BY <1>1, <1>11, <1>12, <1>13 DEF ReportdInv, NothingPending, Halted,
        CollectPending, ListPending, FetchCursor

\* With a report for every record the database is sound again.
LEMMA TopicSound == ASSUME ReportdInv, pc = "render", read = {} PROVE Sound(view)
<1>1. /\ Sound(db) /\ Numbered(view) /\ view \in Databases /\ db \in Databases
      /\ cur \in Ripe(db) /\ cur \in Topics
      /\ view.jobs = db.jobs /\ view.rows = db.rows
      /\ {rep \in view.reports : <<rep.day, rep.dom>> # cur} = db.reports
      /\ {rep.rec : rep \in ReportsOf(view, cur)} = RecordsOf(db, cur)
      /\ \A rep \in ReportsOf(view, cur) : rep.parts = Parts(db, cur, rep.rec)
      /\ \A t, rec : Parts(view, t, rec) = Parts(db, t, rec)
      /\ \A t : RecordsOf(view, t) = RecordsOf(db, t)
  BY WithinTopic
<1>2. \A t \in Topics : t # cur => ReportsOf(view, t) = ReportsOf(db, t)
  BY <1>1, KeyFacts DEF ReportsOf
<1>3. WholeLists(view) /\ JobsTogether(view) /\ RowsHaveJobs(view) /\ DataWhenDone(view)
  <2>1. view.jobs = db.jobs /\ view.rows = db.rows
    BY <1>1
  <2>2. WholeLists(db) /\ JobsTogether(db) /\ RowsHaveJobs(db) /\ DataWhenDone(db)
    BY <1>1 DEF Sound
  <2>3. \A d, f : Present(view, d, f) = Present(db, d, f)
    BY <2>1 DEF Present
  <2>4. OpenDays(view) = OpenDays(db)
    BY <2>1 DEF OpenDays
  <2>5. WholeLists(view)
    BY ONLY <2>1, <2>2, <2>3 DEF WholeLists
  <2>6. JobsTogether(view) /\ RowsHaveJobs(view)
    BY ONLY <2>1, <2>2 DEF JobsTogether, RowsHaveJobs
  <2>7. DataWhenDone(view)
    BY ONLY <2>1, <2>2, <2>4 DEF DataWhenDone
  <2> QED BY <2>5, <2>6, <2>7
<1>4. NothingAwaited(view)
  BY <1>1, <1>2 DEF Sound, NothingAwaited, RowsOf, Ripe
<1>5. Matching(view)
  BY <1>1, <1>2 DEF Sound, Matching
<1> QED BY <1>1, <1>3, <1>4, <1>5 DEF Sound

LEMMA TopicEndsStep == ReportdInv /\ TopicEnds => ReportdInv'
<1> SUFFICES ASSUME ReportdInv, TopicEnds PROVE ReportdInv'
  OBVIOUS
<1>1. /\ pc = "render" /\ read = {} /\ db' = view /\ view' = view
      /\ todo' = todo \ {cur} /\ pc' = "create" /\ UNCHANGED world
      /\ made' = [m \in DOMAIN made |->
             made[m] + Cardinality({rep \in view.reports \ db.reports :
                                       <<rep.day, rep.dom, rep.rec>> = m})]
  BY DEF TopicEnds, Commit
<1>2. /\ TypeOK /\ Sound(view) /\ view \in Databases /\ todo \subseteq Ripe(db)
      /\ cur \in Topics /\ view.rows = db.rows
      /\ {rep \in view.reports : <<rep.day, rep.dom>> # cur} = db.reports
  BY <1>1, WithinTopic, TopicSound
<1>3. made' \in [Days \X Domains \X Records -> Nat]
  <2>1. made \in [Days \X Domains \X Records -> Nat] /\ IsFiniteSet(view.reports)
    BY <1>2 DEF TypeOK, Sound, Numbered
  <2>2. \A m : Cardinality({rep \in view.reports \ db.reports :
                               <<rep.day, rep.dom, rep.rec>> = m}) \in Nat
    <3> SUFFICES ASSUME NEW m
                 PROVE  Cardinality({rep \in view.reports \ db.reports :
                                        <<rep.day, rep.dom, rep.rec>> = m}) \in Nat
      OBVIOUS
    <3>1. {rep \in view.reports \ db.reports : <<rep.day, rep.dom, rep.rec>> = m}
              \subseteq view.reports
      OBVIOUS
    <3> QED BY <2>1, <3>1, FS_Subset, FS_CardinalityType
  <2> DEFINE n(m) == Cardinality({rep \in view.reports \ db.reports :
                                     <<rep.day, rep.dom, rep.rec>> = m})
  <2>3. /\ made' = [m \in DOMAIN made |-> made[m] + n(m)]
        /\ \A m : n(m) \in Nat
    BY <1>1, <2>2
  <2> HIDE DEF n
  <2> QED BY ONLY <2>1, <2>3
<1>4. TypeOK'
  BY <1>1, <1>2, <1>3, StepTyped DEF Running
<1>5. CreateCursor'
  <2>1. \A t \in todo \ {cur} : t \in Topics /\ t \in Ripe(db)
    BY <1>2 DEF Ripe
  <2>2. \A rep \in view.reports : <<rep.day, rep.dom>> # cur => rep \in db.reports
    BY <1>2
  <2>3. \A t \in todo \ {cur} : t \in Ripe(view)
    BY <1>2, <2>1, <2>2, KeyFacts DEF Ripe, RowsOf
  <2> QED BY <1>1, <2>3 DEF CreateCursor
<1>6. FetchCursor'
  BY <1>1 DEF FetchCursor
<1> QED BY <1>1, <1>2, <1>4, <1>5, <1>6, Committed

\* What is not committed is lost.
LEMMA VanishStep == ReportdInv /\ (Die \/ Crash) => ReportdInv'
<1> SUFFICES ASSUME ReportdInv, Die \/ Crash PROVE ReportdInv'
  OBVIOUS
<1>1. /\ pc' \in {"died", "crashed"} /\ view' = db /\ db' = db
      /\ UNCHANGED <<world, made>>
  BY DEF Die, Crash, Vanish
<1>2. TypeOK /\ Sound(db) /\ db \in Databases
  BY DEF ReportdInv, TypeOK
<1>3. TypeOK'
  <2>1. made' \in [Days \X Domains \X Records -> Nat] /\ pc' \in Running \cup Halted
    BY <1>1, <1>2 DEF TypeOK, Halted
  <2> QED BY <1>1, <1>2, <2>1, StepTyped
<1>4. FetchCursor' /\ CreateCursor'
  BY <1>1 DEF FetchCursor, CreateCursor
<1> QED BY <1>1, <1>2, <1>3, <1>4, Committed

LEMMA TerminateStep == ReportdInv /\ Terminate => ReportdInv'
<1> SUFFICES ASSUME ReportdInv, Terminate PROVE ReportdInv'
  OBVIOUS
<1>1. /\ pc = "sleep" /\ pc' = "stopped" /\ db' = view /\ view' = view
      /\ UNCHANGED <<world, made>>
  BY DEF Terminate, Commit
<1>2. TypeOK /\ Sound(view) /\ view \in Databases
  BY <1>1, SettledView DEF ReportdInv, TypeOK
<1>3. TypeOK'
  <2>1. made' \in [Days \X Domains \X Records -> Nat] /\ pc' \in Running \cup Halted
    BY <1>1, <1>2 DEF TypeOK, Halted
  <2> QED BY <1>1, <1>2, <2>1, StepTyped
<1>4. FetchCursor' /\ CreateCursor'
  BY <1>1 DEF FetchCursor, CreateCursor
<1> QED BY <1>1, <1>2, <1>3, <1>4, Committed

LEMMA TimePassesStep == ReportdInv /\ TimePasses => ReportdInv'
<1> SUFFICES ASSUME ReportdInv, TimePasses PROVE ReportdInv'
  OBVIOUS
<1> DEFINE jobs == [j \in Jobs |-> [view.jobs[j] EXCEPT !.later = FALSE]]
<1>1. /\ pc \in Halted \cup {"sleep"} /\ view' = [view EXCEPT !.jobs = jobs]
      /\ db' = view' /\ UNCHANGED <<world, pc, made>>
  BY DEF TimePasses
<1>2. TypeOK /\ Sound(view) /\ view \in Databases
  BY <1>1, SettledView DEF ReportdInv, TypeOK
<1>3. /\ jobs \in [Jobs -> JobStates]
      /\ \A j \in Jobs : jobs[j].status = view.jobs[j].status
  <2>1. \A j \in Jobs : view.jobs[j] \in JobStates
    BY <1>2, DbFacts
  <2>2. ASSUME NEW job \in JobStates
        PROVE  /\ [job EXCEPT !.later = FALSE] \in JobStates
               /\ [job EXCEPT !.later = FALSE].status = job.status
    BY DEF JobStates
  <2> QED BY <2>1, <2>2
<1> HIDE DEF jobs
<1>4. /\ view' \in Databases /\ view'.jobs = jobs /\ view'.rows = view.rows
      /\ view'.reports = view.reports
  BY <1>1, <1>2, <1>3, DbFacts
<1>5. Sound(view')
  <2>1. \A j \in Jobs : view'.jobs[j].status = view.jobs[j].status
    BY <1>3, <1>4
  <2> QED BY ONLY <1>2, <1>4, <2>1, JobsMoved
<1>6. TypeOK'
  <2>1. made' \in [Days \X Domains \X Records -> Nat] /\ pc' \in Running \cup Halted
    BY <1>1, <1>2 DEF TypeOK
  <2> QED BY <1>1, <1>2, <1>4, <2>1, StepTyped
<1>7. FetchCursor' /\ CreateCursor'
  BY <1>1 DEF FetchCursor, CreateCursor, Halted
<1>8. pc' \notin {"collect", "list", "mark", "render"}
  BY <1>1 DEF Halted
<1> QED BY <1>1, <1>5, <1>6, <1>7, <1>8, Committed

\* The files behind the fetchers may come and go as they like.
LEMMA OnlyFilesMove ==
    ASSUME ReportdInv, UNCHANGED <<date, pc, todo, cur, save, read, view, db, made, starts>>,
           avail' \in [Fetchers -> Days \cup {-1}], \A f \in Fetchers : avail'[f] < date
    PROVE  ReportdInv'
<1>1. RolledBack(view)' = RolledBack(view)
  BY DEF RolledBack
<1>2. TypeOK' /\ Sound(db)' /\ Numbered(view)'
  BY DEF ReportdInv, TypeOK
<1>3. NothingPending' /\ CollectPending' /\ FetchCursor' /\ CreateCursor' /\ RenderPending'
  BY DEF ReportdInv, NothingPending, CollectPending, FetchCursor, CreateCursor, RenderPending
<1>4. ListPending'
  BY <1>1 DEF ReportdInv, ListPending
<1> QED BY <1>2, <1>3, <1>4 DEF ReportdInv

\* Rollovers, complete or cut short.
LEMMA FilesStep ==
    ASSUME ReportdInv, NEW f \in Fetchers, CollectdRollsOver(f) \/ FileGoes(f) \/ FileComes(f)
    PROVE  ReportdInv'
<1>1. /\ UNCHANGED <<date, pc, todo, cur, save, read, view, db, made, starts>>
      /\ \E day \in -1 .. date - 1 : avail' = [avail EXCEPT ![f] = day]
  <2>1. date \in Nat /\ date # 0
    BY BoundAssumption DEF ReportdInv, TypeOK
  <2>2. date - 1 \in -1 .. date - 1 /\ -1 \in -1 .. date - 1 /\ 0 .. date - 1 \subseteq -1 .. date - 1
    BY ONLY <2>1
  <2> QED BY <2>2 DEF CollectdRollsOver, FileGoes, FileComes, locals
<1>2. PICK day \in -1 .. date - 1 : avail' = [avail EXCEPT ![f] = day]
  BY <1>1
<1>3. /\ date \in 1 .. LastDate /\ LastDate \in Nat
      /\ avail \in [Fetchers -> Days \cup {-1}] /\ \A g \in Fetchers : avail[g] < date
  BY BoundAssumption DEF ReportdInv, TypeOK
<1>4. day \in Days \cup {-1} /\ day < date
  BY ONLY <1>2, <1>3 DEF Days
<1>5. avail' \in [Fetchers -> Days \cup {-1}] /\ \A g \in Fetchers : avail'[g] < date
  BY ONLY <1>2, <1>3, <1>4
<1> QED BY <1>1, <1>5, OnlyFilesMove

LEMMA Inductive == ReportdInv /\ [Next]_vars => ReportdInv'
<1> SUFFICES ASSUME ReportdInv, [Next]_vars PROVE ReportdInv'
  OBVIOUS
<1>1. CASE UNCHANGED vars
  <2>1. UNCHANGED <<date, avail, pc, todo, cur, save, read, view, db, made, starts>>
    BY <1>1 DEF vars
  <2> QED BY <2>1, OnlyFilesMove DEF ReportdInv, TypeOK
<1>2. CASE RunLoop
  BY <1>2, CheckDayStep, QuietStep, AcceptStep, ReadDomainStep, ListEndsStep,
     ListBreaksStep, MarkJobStep, CollectEndsStep, FetchDetailsStep, AggregateStep,
     RenderReportStep, TopicEndsStep, VanishStep DEF RunLoop
<1>3. CASE Surroundings
  BY <1>3, QuietStep, TerminateStep, VanishStep, TimePassesStep, FilesStep DEF Surroundings
<1> QED BY <1>1, <1>2, <1>3 DEF Next

\* The database of tlsrpt-reportd is sound at every commit.
LEMMA Invariance == Spec => []ReportdInv
BY InitInv, Inductive, PTL DEF Spec

-----------------------------------------------------------------------------
(* Nothing is reported twice.                                              *)

Keeps(v, w) ==
    /\ v.reports \subseteq w.reports
    /\ \A j \in Jobs : v.jobs[j].status = "absent" => w.jobs[j].status = "absent"

\* Only the clean-up forgets reports, and only check_day creates jobs.
LEMMA StepKeeps ==
    ASSUME ReportdInv, [Next]_vars, ~CheckDay, ~TopicEnds
    PROVE  /\ made' = made /\ date' >= date
           /\ Keeps(view, view') \/ Keeps(db, view')
           /\ Keeps(db, db') \/ Keeps(view, db')
<1>0. /\ TypeOK /\ date \in Int /\ view \in Databases /\ db \in Databases
      /\ Keeps(view, view) /\ Keeps(db, db)
  BY DEF ReportdInv, TypeOK, Keeps
<1>1. CASE UNCHANGED vars
  BY <1>0, <1>1 DEF vars
<1>2. CASE view' = view /\ db' \in {db, view} /\ made' = made /\ date' \in {date, date + 1}
  BY <1>0, <1>2
<1>3. ASSUME NEW dom \in Domains, ReadDomain(dom)
      PROVE  Keeps(view, view') /\ db' = db /\ made' = made /\ date' = date
  <2>1. pc = "list" /\ db' = db /\ made' = made /\ date' = date
    BY <1>3 DEF ReadDomain, world
  <2>2. view'.reports = view.reports /\ view'.jobs = view.jobs
    BY <1>0, <1>3 DEF ReadDomain, Databases
  <2> QED BY <2>1, <2>2 DEF Keeps
<1>4. CASE ListBreaks
  <2>1. /\ pc = "list" /\ view' = RolledBack(view) /\ db' = view' /\ made' = made
        /\ date' = date
    BY <1>4 DEF ListBreaks, world
  <2>2. RolledBack(view).jobs = view.jobs /\ RolledBack(view).reports = view.reports
    BY <2>1, WithinList
  <2> QED BY <1>0, <2>1, <2>2 DEF Keeps
<1>5. CASE MarkJob
  <2>1. /\ pc = "mark" /\ db' = db /\ made' = made /\ date' = date
    BY <1>5 DEF MarkJob, world
  <2>2. cur[1] \in Jobs /\ view.jobs[cur[1]].status = "open"
    BY <2>1 DEF ReportdInv, CollectPending
  <2>3. /\ view'.reports = view.reports
        /\ \A j \in Jobs : j # cur[1] => view'.jobs[j] = view.jobs[j]
    BY <1>0, <1>5 DEF MarkJob, Databases
  <2> QED BY <1>0, <2>1, <2>2, <2>3 DEF Keeps
<1>6. ASSUME NEW r \in Rows, FetchDetails(r)
      PROVE  Keeps(view, view') /\ db' = view' /\ made' = made /\ date' = date
  <2>1. db' = view' /\ made' = made /\ date' = date
    BY <1>6 DEF FetchDetails, world
  <2>2. view'.reports = view.reports /\ view'.jobs = view.jobs
    BY <1>0, <1>6 DEF FetchDetails, Databases
  <2> QED BY <2>1, <2>2 DEF Keeps
<1>7. ASSUME NEW rec \in Records, RenderReport(rec)
      PROVE  Keeps(view, view') /\ db' = db /\ made' = made /\ date' = date
  <2>1. db' = db /\ made' = made /\ date' = date
    BY <1>7 DEF RenderReport, world
  <2>2. view.reports \subseteq view'.reports /\ view'.jobs = view.jobs
    BY <1>0, <1>7 DEF RenderReport, Databases
  <2> QED BY <2>1, <2>2 DEF Keeps
<1>8. CASE Die \/ Crash
  <2>1. view' = db /\ db' = db /\ made' = made /\ date' = date
    BY <1>8 DEF Die, Crash, Vanish, world
  <2> QED BY <1>0, <2>1
<1>9. CASE TimePasses
  <2>1. db' = view' /\ made' = made /\ date' = date
    BY <1>9 DEF TimePasses, world
  <2>2. view'.reports = view.reports
    BY <1>0, <1>9 DEF TimePasses, Databases
  <2>3. \A j \in Jobs : view'.jobs[j].status = view.jobs[j].status
    <3>1. \A j \in Jobs : view.jobs[j] \in JobStates
      BY <1>0, DbFacts
    <3>2. view'.jobs = [j \in Jobs |-> [view.jobs[j] EXCEPT !.later = FALSE]]
      BY <1>0, <1>9 DEF TimePasses, Databases
    <3>3. ASSUME NEW job \in JobStates
          PROVE  [job EXCEPT !.later = FALSE].status = job.status
      BY DEF JobStates
    <3> QED BY <3>1, <3>2, <3>3
  <2> QED BY <1>0, <2>1, <2>2, <2>3 DEF Keeps
<1>10. CASE \/ \E j \in Jobs : Refuse(j) \/ Accept(j) \/ Garble(j)
            \/ \E r \in Rows : FetchFails(r)
            \/ \E t \in Topics : Aggregate(t)
            \/ \E f \in Fetchers : CollectdRollsOver(f) \/ FileGoes(f) \/ FileComes(f)
  BY <1>2, <1>10 DEF Refuse, Accept, Garble, FetchFails, Aggregate, CollectdRollsOver,
     FileGoes, FileComes, locals, world
<1>11. CASE \/ ListEnds \/ CollectEnds \/ FetchEnds \/ CreateEnds \/ SendEnds
            \/ FetcherHangs \/ WakeUp \/ Terminate \/ Start \/ Midnight
  BY <1>2, <1>11 DEF ListEnds, CollectEnds, FetchEnds, CreateEnds, SendEnds, FetcherHangs,
     WakeUp, Terminate, Start, Midnight, Commit, world
<1> QED BY <1>0, <1>1, <1>3, <1>4, <1>5, <1>6, <1>7, <1>8, <1>9, <1>10,
          <1>11         DEF Next, RunLoop, Surroundings

LEMMA OnceKept ==
    ASSUME ReportdInv, OnceInv, [Next]_vars, ~CheckDay, ~TopicEnds
    PROVE  OnceInv'
<1>1. /\ made' = made /\ date' >= date
      /\ Keeps(view, view') \/ Keeps(db, view')
      /\ Keeps(db, db') \/ Keeps(view, db')
  BY StepKeeps
<1>2. /\ date \in Int /\ date' \in Int /\ KeepDays \in Int
      /\ made \in [Days \X Domains \X Records -> Nat]
  <2>1. TypeOK /\ TypeOK'
    BY Inductive DEF ReportdInv
  <2> QED BY <2>1, OptionAssumption DEF TypeOK
<1>3. \A d \in Days : Expired(d) => Expired(d)'
  <2> SUFFICES ASSUME NEW d \in Days, Expired(d) PROVE Expired(d)'
    OBVIOUS
  <2>1. d \in Int
    BY BoundAssumption DEF Days
  <2>2. date - d >= KeepDays /\ date' >= date
    BY <1>1 DEF Expired
  <2>3. date \in Int /\ date' \in Int /\ KeepDays \in Int
    BY <1>2
  <2>4. \A a, b, c, k \in Int : a - c >= k /\ b >= a => b - c >= k
    OBVIOUS
  <2>5. date' - d >= KeepDays
    BY ONLY <2>1, <2>2, <2>3, <2>4
  <2> QED BY <2>5 DEF Expired
<1>4. \A m \in DOMAIN made : m[1] \in Days
  BY <1>2
<1>5. ASSUME NEW v, NEW w, Keeps(v, w), Reported(v), NEW m \in DOMAIN made, made[m] > 0
      PROVE  \/ \E rep \in w.reports : <<rep.day, rep.dom, rep.rec>> = m
             \/ Expired(m[1])' /\ \A f \in Fetchers : w.jobs[<<m[1], f>>].status = "absent"
  <2>1. \/ \E rep \in v.reports : <<rep.day, rep.dom, rep.rec>> = m
        \/ Expired(m[1]) /\ \A f \in Fetchers : v.jobs[<<m[1], f>>].status = "absent"
    BY <1>5 DEF Reported
  <2>2. \A f \in Fetchers : <<m[1], f>> \in Jobs
    BY <1>4, KeyFacts
  <2> QED BY <1>3, <1>4, <1>5, <2>1, <2>2 DEF Keeps
<1>6. Reported(view)'
  BY <1>1, <1>5 DEF OnceInv, Reported
<1>7. Reported(db)'
  BY <1>1, <1>5 DEF OnceInv, Reported
<1>8. ReportedOnce'
  BY <1>1 DEF OnceInv, ReportedOnce
<1> QED BY <1>6, <1>7, <1>8 DEF OnceInv

\* The clean-up forgets the reports of a day together with its jobs, which are
\* created anew for yesterday only: yesterday has to be kept.
LEMMA OnceAcrossCleanUp ==
    ASSUME KeepDays >= 2, ReportdInv, OnceInv, CheckDay
    PROVE  OnceInv'
<1> DEFINE cleaned == CleanedUp(view)
           yesterday == {j \in Jobs : j[1] = date - 1}
<1>1. /\ TypeOK /\ view \in Databases /\ Sound(view)
      /\ made \in [Days \X Domains \X Records -> Nat]
      /\ date \in Int /\ KeepDays \in Int /\ date' = date /\ made' = made
  <2>1. TypeOK /\ Sound(view) /\ date' = date /\ made' = made
    BY SettledView DEF CheckDay, ReportdInv, world
  <2> QED BY <2>1, OptionAssumption DEF TypeOK
<1>2. cleaned \in Databases
  BY <1>1, CleanUpSound
<1>3. /\ \A j \in Jobs : Expired(j[1]) => cleaned.jobs[j].status = "absent"
      /\ cleaned.reports = {rep \in view.reports : ~Expired(rep.day)}
  <2>1. \A j \in Jobs : Expired(j[1]) => cleaned.jobs[j] = NoJob
    BY DEF CleanedUp
  <2>2. NoJob.status = "absent"
    BY DEF NoJob
  <2> QED BY <2>1, <2>2 DEF CleanedUp
<1> HIDE DEF cleaned
<1>4. /\ view'.reports = cleaned.reports
      /\ \A j \in Jobs : j[1] # date - 1 => view'.jobs[j] = cleaned.jobs[j]
      /\ db' \in {db, view'}
  <2>1. CASE \E j \in yesterday : cleaned.jobs[j].status # "absent"
    BY <2>1 DEF CheckDay, cleaned
  <2>2. CASE ~\E j \in yesterday : cleaned.jobs[j].status # "absent"
    <3>1. /\ view' = [cleaned EXCEPT !.jobs =
                         [j \in Jobs |-> IF j \in yesterday THEN NewJob ELSE cleaned.jobs[j]]]
          /\ db' = view'
      BY <2>2 DEF CheckDay, cleaned
    <3> QED BY <1>2, <3>1 DEF Databases
  <2> QED BY <2>1, <2>2
<1>5. ~Expired(date - 1)
  BY <1>1 DEF Expired
<1>6. ASSUME NEW m \in DOMAIN made, made[m] > 0
      PROVE  \/ \E rep \in view'.reports : <<rep.day, rep.dom, rep.rec>> = m
             \/ Expired(m[1]) /\ \A f \in Fetchers : view'.jobs[<<m[1], f>>].status = "absent"
  <2>1. m[1] \in Days
    BY <1>1
  <2>2. CASE Expired(m[1])
    <3>1. m[1] # date - 1
      BY <1>5, <2>2
    <3>2. \A f \in Fetchers : view'.jobs[<<m[1], f>>].status = "absent"
      <4> SUFFICES ASSUME NEW f \in Fetchers
                   PROVE  view'.jobs[<<m[1], f>>].status = "absent"
        OBVIOUS
      <4>1. <<m[1], f>> \in Jobs /\ <<m[1], f>>[1] = m[1]
        BY <2>1, KeyFacts
      <4> QED BY <1>3, <1>4, <2>2, <3>1, <4>1
    <3> QED BY <2>2, <3>2
  <2>3. CASE ~Expired(m[1])
    <3>1. PICK rep \in view.reports : <<rep.day, rep.dom, rep.rec>> = m
      BY <1>6, <2>3 DEF OnceInv, Reported
    <3>2. rep.day = m[1]
      BY <3>1
    <3> QED BY <1>3, <1>4, <2>3, <3>1, <3>2
  <2> QED BY <2>2, <2>3
<1>7. \A d : Expired(d)' <=> Expired(d)
  BY <1>1 DEF Expired
<1>8. Reported(view)'
  BY <1>1, <1>6, <1>7 DEF Reported
<1>9. Reported(db)'
  <2>1. CASE db' = db
    BY <1>1, <1>7, <2>1 DEF OnceInv, Reported
  <2>2. CASE db' = view'
    BY <1>8, <2>2 DEF Reported
  <2> QED BY <1>4, <2>1, <2>2
<1>10. ReportedOnce'
  BY <1>1 DEF OnceInv, ReportedOnce
<1> QED BY <1>8, <1>9, <1>10 DEF OnceInv

\* A topic is only reported while it has no report, and its jobs are there.
LEMMA OnceAcrossCommit ==
    ASSUME ReportdInv, OnceInv, TopicEnds
    PROVE  OnceInv'
<1> DEFINE new(m) == {rep \in view.reports \ db.reports : <<rep.day, rep.dom, rep.rec>> = m}
<1>1. /\ pc = "render" /\ db' = view /\ view' = view /\ date' = date
      /\ made' = [m \in DOMAIN made |-> made[m] + Cardinality(new(m))]
  BY DEF TopicEnds, Commit, world
<1>2. /\ TypeOK /\ Sound(db) /\ Numbered(view) /\ view \in Databases /\ db \in Databases
      /\ cur \in Ripe(db) /\ cur \in Topics
      /\ {rep \in view.reports : <<rep.day, rep.dom>> # cur} = db.reports
  BY <1>1, WithinTopic
<1>3. made \in [Days \X Domains \X Records -> Nat]
  BY <1>2 DEF TypeOK
<1>4. \A rep \in view.reports \ db.reports : rep.day = cur[1] /\ rep.dom = cur[2]
  BY <1>2
<1>5. ASSUME NEW m \in DOMAIN made, <<m[1], m[2]>> = cur PROVE made[m] = 0
  <2>1. ~\E rep \in db.reports : <<rep.day, rep.dom, rep.rec>> = m
    BY <1>2, <1>5 DEF Ripe
  <2>2. PICK r \in RowsOf(db, cur) : db.rows[r] \in {"full", "void"}
    BY <1>2 DEF Ripe
  <2>3. r \in Rows /\ r[1] = cur[1] /\ db.rows[r] # "absent"
    BY <2>2 DEF RowsOf
  <2>4. r[2] \in Fetchers /\ db.jobs[<<r[1], r[2]>>].status # "absent"
    BY <1>2, <2>3, KeyFacts DEF Sound, RowsHaveJobs
  <2>5. m[1] = r[1]
    BY <1>5, <2>3
  <2>6. ~(made[m] > 0)
    BY <2>1, <2>4, <2>5 DEF OnceInv, Reported
  <2> QED BY <1>3, <2>6
<1>6. ASSUME NEW m \in DOMAIN made
      PROVE  /\ made'[m] <= 1
             /\ made'[m] > 0 => \/ made[m] > 0
                                \/ \E rep \in view.reports : <<rep.day, rep.dom, rep.rec>> = m
  <2>1. made'[m] = made[m] + Cardinality(new(m)) /\ made[m] \in Nat /\ made[m] <= 1
    BY <1>1, <1>3 DEF OnceInv, ReportedOnce
  <2>2. CASE new(m) = {}
    <3>1. Cardinality(new(m)) = 0
      BY <2>2, FS_EmptySet
    <3> QED BY <2>1, <3>1
  <2>3. CASE new(m) # {}
    <3>1. PICK rep \in new(m) : TRUE
      BY <2>3
    <3>2. rep \in view.reports /\ <<rep.day, rep.dom, rep.rec>> = m
          /\ rep.day = cur[1] /\ rep.dom = cur[2]
      BY <1>4, <3>1
    <3>3. new(m) = {rep}
      <4> SUFFICES ASSUME NEW other \in new(m) PROVE other = rep
        BY <3>1
      <4>1. other \in view.reports /\ <<other.day, other.dom, other.rec>> = m
        OBVIOUS
      <4>2. other.day = rep.day /\ other.dom = rep.dom /\ other.rec = rep.rec
        BY <3>2, <4>1
      <4> QED BY <1>2, <3>2, <4>1, <4>2 DEF Numbered
    <3>4. Cardinality(new(m)) = 1
      BY <3>3, FS_Singleton
    <3>5. made[m] = 0
      BY <1>2, <1>5, <3>2, KeyFacts
    <3> HIDE DEF new
    <3> QED BY <2>1, <3>2, <3>4, <3>5
  <2> QED BY <2>2, <2>3
<1>7. DOMAIN made' = DOMAIN made
  BY <1>1
<1> HIDE DEF new
<1>8. \A d : Expired(d)' <=> Expired(d)
  BY <1>1 DEF Expired
<1>9. Reported(view)' /\ Reported(db)'
  BY <1>1, <1>6, <1>7, <1>8 DEF OnceInv, Reported
<1>10. ReportedOnce'
  BY <1>6, <1>7 DEF ReportedOnce
<1> QED BY <1>9, <1>10 DEF OnceInv

-----------------------------------------------------------------------------
(* Theorems.                                                               *)

\* The state keeps its shape; no job is tried more often than the option says.
THEOREM ReportdTypeCorrect == Spec => []TypeOK
<1>1. ReportdInv => TypeOK
  BY DEF ReportdInv
<1> QED BY <1>1, Invariance, PTL

\* A domain list is stored as a whole or not at all, whatever breaks off,
\* crashes or restarts while it is read.
THEOREM WholeListsOnly == Spec => []ListsAreWhole
<1>1. ReportdInv => ListsAreWhole
  BY DEF ReportdInv, Sound, ListsAreWhole
<1> QED BY <1>1, Invariance, PTL

\* The reports of a topic sum the data of all fetchers that delivered it.
THEOREM ReportsSumTheData == Spec => []ReportsMatchData
<1>1. ReportdInv => ReportsMatchData
  BY DEF ReportdInv, Sound, ReportsMatchData
<1> QED BY <1>1, Invariance, PTL

\* Two reports about one topic never have the same number.
THEOREM NumbersTellReportsApart == Spec => []UniqueReportIds
<1>1. ReportdInv => UniqueReportIds
  BY DEF ReportdInv, Numbered, UniqueReportIds
<1> QED BY <1>1, Invariance, PTL

\* Nothing is reported twice, across crashes, restarts, repeated fetches and the
\* clean-up, as long as the clean-up leaves yesterday alone.
THEOREM NothingReportedTwice ==
    ASSUME KeepDays >= 2
    PROVE  Spec => []ReportedOnce
<1>1. Init => OnceInv
  <2> SUFFICES ASSUME Init PROVE OnceInv
    OBVIOUS
  <2>1. \A m \in DOMAIN made : made[m] = 0
    BY DEF Init, Fresh
  <2> QED BY <2>1 DEF OnceInv, Reported, ReportedOnce
<1>2. ReportdInv /\ OnceInv /\ [Next]_vars => OnceInv'
  BY OnceKept, OnceAcrossCleanUp, OnceAcrossCommit
<1>3. OnceInv => ReportedOnce
  BY DEF OnceInv
<1> QED BY <1>1, <1>2, <1>3, Invariance, PTL DEF Spec
===============================================================================
