--------------------------- MODULE Pipeline_proofs ---------------------------
(***************************************************************************)
(* The reports say what the collectds counted and leave nobody out, for    *)
(* all fetchers, numbers of sessions, mishaps of the collectds, dates and  *)
(* options.                                                                *)
(*                                                                         *)
(* The steps of Reportd were proved sound in Reportd_proofs for any files  *)
(* behind its fetchers.  RP takes those lemmas over to the files of        *)
(* Pipeline; the operators of RP are the ones of R under other names.      *)
(***************************************************************************)
EXTENDS Pipeline, WellFoundedInduction, TLAPS

RP == INSTANCE Reportd_proofs WITH
    Domains <- {Domain}, Records <- {Record},
    Traffic <- [f \in Fetchers |-> [dom \in {Domain} |-> {Record}]],
    Crashes <- FALSE, Garbage <- FALSE, Hangs <- FALSE, CutShort <- Fetchers,
    avail <- [f \in Fetchers |-> Announced(f)]

-----------------------------------------------------------------------------
(* R and RP.                                                               *)

LEMMA RPAssumptions ==
    /\ RP!TrafficAssumption /\ RP!OptionAssumption
    /\ RP!BoundAssumption /\ RP!SwitchAssumption
BY ReportdOptions DEF RP!TrafficAssumption, RP!OptionAssumption, RP!BoundAssumption,
   RP!SwitchAssumption

LEMMA SameTypeOK == R!TypeOK <=> RP!TypeOK
BY DEF R!TypeOK, RP!TypeOK, R!Days, RP!Days, R!Running, RP!Running, R!Halted, RP!Halted,
       R!Databases, RP!Databases, R!Jobs, RP!Jobs, R!JobStates, RP!JobStates,
       R!Rows, RP!Rows, R!RowStates, RP!RowStates, R!ReportRows, RP!ReportRows

LEMMA SameWholeLists == ASSUME NEW v PROVE R!WholeLists(v) <=> RP!WholeLists(v)
BY DEF R!WholeLists, RP!WholeLists, R!Days, RP!Days, R!Present, RP!Present, R!Listed,
       RP!Listed

LEMMA SameJobsTogether == ASSUME NEW v PROVE R!JobsTogether(v) <=> RP!JobsTogether(v)
BY DEF R!JobsTogether, RP!JobsTogether, R!Days, RP!Days

LEMMA SameRowsHaveJobs == ASSUME NEW v PROVE R!RowsHaveJobs(v) <=> RP!RowsHaveJobs(v)
BY DEF R!RowsHaveJobs, RP!RowsHaveJobs, R!Rows, RP!Rows, R!Days, RP!Days

LEMMA SameDataWhenDone == ASSUME NEW v PROVE R!DataWhenDone(v) <=> RP!DataWhenDone(v)
BY DEF R!DataWhenDone, RP!DataWhenDone, R!Rows, RP!Rows, R!Days, RP!Days, R!OpenDays,
       RP!OpenDays

LEMMA SameNothingAwaited == ASSUME NEW v PROVE R!NothingAwaited(v) <=> RP!NothingAwaited(v)
BY DEF R!NothingAwaited, RP!NothingAwaited, R!Topics, RP!Topics, R!Days, RP!Days,
       R!ReportsOf, RP!ReportsOf, R!RowsOf, RP!RowsOf, R!Rows, RP!Rows

LEMMA SameMatching == ASSUME NEW v PROVE R!Matching(v) <=> RP!Matching(v)
BY DEF R!Matching, RP!Matching, R!Topics, RP!Topics, R!Days, RP!Days, R!ReportsOf,
       RP!ReportsOf, R!RecordsOf, RP!RecordsOf, R!Parts, RP!Parts

LEMMA SameNumbered == ASSUME NEW v PROVE R!Numbered(v) <=> RP!Numbered(v)
BY DEF R!Numbered, RP!Numbered, R!IsFiniteSet, RP!IsFiniteSet, R!Cardinality,
       RP!Cardinality, R!ReportsOf, RP!ReportsOf

LEMMA SameSound == ASSUME NEW v PROVE R!Sound(v) <=> RP!Sound(v)
BY SameWholeLists, SameJobsTogether, SameRowsHaveJobs, SameDataWhenDone,
   SameNothingAwaited, SameMatching, SameNumbered DEF R!Sound, RP!Sound

LEMMA SameNothingPending == R!NothingPending <=> RP!NothingPending
BY DEF R!NothingPending, RP!NothingPending, R!Halted, RP!Halted

LEMMA SameCollectPending == R!CollectPending <=> RP!CollectPending
BY DEF R!CollectPending, RP!CollectPending, R!Jobs, RP!Jobs, R!Days, RP!Days, R!Sound,
       RP!Sound, R!WholeLists, RP!WholeLists, R!Present, RP!Present, R!Listed,
       RP!Listed, R!JobsTogether, RP!JobsTogether, R!RowsHaveJobs, RP!RowsHaveJobs,
       R!Rows, RP!Rows, R!DataWhenDone, RP!DataWhenDone, R!OpenDays, RP!OpenDays,
       R!NothingAwaited, RP!NothingAwaited, R!Topics, RP!Topics, R!ReportsOf,
       RP!ReportsOf, R!RowsOf, RP!RowsOf, R!Matching, RP!Matching, R!RecordsOf,
       RP!RecordsOf, R!Parts, RP!Parts, R!Numbered, RP!Numbered, R!IsFiniteSet,
       RP!IsFiniteSet, R!Cardinality, RP!Cardinality

LEMMA SameListPending == R!ListPending <=> RP!ListPending
BY DEF R!ListPending, RP!ListPending, R!Rows, RP!Rows, R!Days, RP!Days, R!RowStates,
       RP!RowStates, R!Sound, RP!Sound, R!WholeLists, RP!WholeLists, R!Present,
       RP!Present, R!Listed, RP!Listed, R!JobsTogether, RP!JobsTogether,
       R!RowsHaveJobs, RP!RowsHaveJobs, R!DataWhenDone, RP!DataWhenDone, R!OpenDays,
       RP!OpenDays, R!NothingAwaited, RP!NothingAwaited, R!Topics, RP!Topics,
       R!ReportsOf, RP!ReportsOf, R!RowsOf, RP!RowsOf, R!Matching, RP!Matching,
       R!RecordsOf, RP!RecordsOf, R!Parts, RP!Parts, R!Numbered, RP!Numbered,
       R!IsFiniteSet, RP!IsFiniteSet, R!Cardinality, RP!Cardinality, R!RolledBack,
       RP!RolledBack

LEMMA SameFetchCursor == R!FetchCursor <=> RP!FetchCursor
BY DEF R!FetchCursor, RP!FetchCursor, R!ToFetch, RP!ToFetch, R!Rows, RP!Rows, R!Days,
       RP!Days, R!OpenDays, RP!OpenDays

LEMMA SameCreateCursor == R!CreateCursor <=> RP!CreateCursor
BY DEF R!CreateCursor, RP!CreateCursor, R!Ripe, RP!Ripe, R!Topics, RP!Topics, R!Days,
       RP!Days, R!RowsOf, RP!RowsOf, R!Rows, RP!Rows

LEMMA SameRenderPending == R!RenderPending <=> RP!RenderPending
BY DEF R!RenderPending, RP!RenderPending, R!RecordsOf, RP!RecordsOf, R!Parts, RP!Parts,
       R!ReportsOf, RP!ReportsOf

LEMMA SameReportdInv == R!ReportdInv <=> RP!ReportdInv
BY SameTypeOK, SameSound, SameNumbered, SameNothingPending, SameCollectPending,
   SameListPending, SameFetchCursor, SameCreateCursor, SameRenderPending
   DEF R!ReportdInv, RP!ReportdInv

LEMMA SameFresh == R!Fresh <=> RP!Fresh
BY DEF R!Fresh, RP!Fresh, R!Empty, RP!Empty, R!Jobs, RP!Jobs, R!Days, RP!Days, R!NoJob,
       RP!NoJob, R!Rows, RP!Rows

LEMMA SameInit == R!Init <=> RP!Init
BY SameFresh DEF R!Init, RP!Init

LEMMA SameRunLoop == R!RunLoop <=> RP!RunLoop
BY DEF R!RunLoop, RP!RunLoop, R!CheckDay, RP!CheckDay, R!CleanedUp, RP!CleanedUp, R!Jobs,
       RP!Jobs, R!Days, RP!Days, R!Expired, RP!Expired, R!NoJob, RP!NoJob, R!Rows,
       RP!Rows, R!NewJob, RP!NewJob, R!Due, RP!Due, R!world, RP!world, R!locals,
       RP!locals, R!Refuse, RP!Refuse, R!Accept, RP!Accept, R!Garble, RP!Garble,
       R!ReadDomain, RP!ReadDomain, R!Listed, RP!Listed, R!ListEnds, RP!ListEnds,
       R!Commit, RP!Commit, R!ListBreaks, RP!ListBreaks, R!RolledBack,
       RP!RolledBack, R!MarkJob, RP!MarkJob, R!AfterFailure, RP!AfterFailure,
       R!CollectEnds, RP!CollectEnds, R!ToFetch, RP!ToFetch, R!OpenDays,
       RP!OpenDays, R!FetchDetails, RP!FetchDetails, R!FetchFails, RP!FetchFails,
       R!FetchEnds, RP!FetchEnds, R!Ripe, RP!Ripe, R!Topics, RP!Topics, R!RowsOf,
       RP!RowsOf, R!Aggregate, RP!Aggregate, R!RecordsOf, RP!RecordsOf, R!Parts,
       RP!Parts, R!RenderReport, RP!RenderReport, R!NextId, RP!NextId,
       R!Cardinality, RP!Cardinality, R!ReportsOf, RP!ReportsOf, R!TopicEnds,
       RP!TopicEnds, R!CreateEnds, RP!CreateEnds, R!SendEnds, RP!SendEnds, R!Die,
       RP!Die, R!Vanish, RP!Vanish

LEMMA SameSurroundings == R!Surroundings <=> RP!Surroundings
BY DEF R!Surroundings, RP!Surroundings, R!FetcherHangs, RP!FetcherHangs, R!WakeUp,
       RP!WakeUp, R!Terminate, RP!Terminate, R!Crash, RP!Crash, R!Vanish, RP!Vanish,
       R!Start, RP!Start, R!Midnight, RP!Midnight, R!TimePasses, RP!TimePasses,
       R!CollectdRollsOver, RP!CollectdRollsOver, R!FileGoes, RP!FileGoes, R!FileComes,
       RP!FileComes, R!Running, RP!Running, R!Halted, RP!Halted, R!Jobs, RP!Jobs,
       R!Days, RP!Days, R!world, RP!world, R!locals, RP!locals, R!Commit, RP!Commit

LEMMA SameStep == [R!Next]_(R!vars) <=> [RP!Next]_(RP!vars)
BY SameRunLoop, SameSurroundings DEF R!Next, RP!Next, R!vars, RP!vars

-----------------------------------------------------------------------------
(* What the files announce.                                                *)

\* Min of a set of days is one of them (the first row of daystatus).
LEMMA LeastDay ==
    ASSUME NEW S, S \subseteq Nat, S # {}
    PROVE  Min(S) \in S
<1> DEFINE Less == OpToRel(<, Nat)
<1>1. IsWellFoundedOn(Less, Nat)
  BY NatLessThanWellFounded
<1>2. \A m, n \in Nat : <<m, n>> \in Less <=> m < n
  BY DEF OpToRel
<1> HIDE DEF Less
<1>3. PICK n \in S : \A m \in S : ~ (<<m, n>> \in Less)
  BY <1>1, WFMin
<1>4. ASSUME NEW m \in S PROVE n <= m
  <2>1. ~(m < n) /\ m \in Nat /\ n \in Nat
    BY <1>2, <1>3
  <2> QED BY ONLY <2>1
<1> QED BY <1>3, <1>4 DEF Min

\* What the fetcher announces is a day that its file declares, if anything.
LEMMA AnnouncedDay ==
    Files =>
        \A f \in Fetchers :
            /\ Announced(f) \in Days \cup {-1} /\ Announced(f) < date
            /\ Announced(f) # -1 => file[f] # NoFile /\ Announced(f) \in DOMAIN file[f]
            /\ file[f] # NoFile => Announced(f) \in 0 .. date - 1
<1> SUFFICES ASSUME Files, NEW f \in Fetchers
             PROVE  /\ Announced(f) \in Days \cup {-1} /\ Announced(f) < date
                    /\ Announced(f) # -1 => file[f] # NoFile /\ Announced(f) \in DOMAIN file[f]
                    /\ file[f] # NoFile => Announced(f) \in 0 .. date - 1
  OBVIOUS
<1>1. date \in Nat /\ date <= LastDate /\ 0 < date
  BY ReportdOptions DEF Files
<1>2. CASE file[f] = NoFile
  BY <1>1, <1>2 DEF Announced
<1>3. CASE file[f] # NoFile
  <2>1. DOMAIN file[f] \subseteq 0 .. date - 1 /\ DOMAIN file[f] # {}
    <3>1. DOMAIN file[f] \subseteq 0 .. floor[f] - 1 /\ DOMAIN file[f] # {} /\ floor[f] \in 1 .. date
      BY <1>3 DEF Files
    <3> QED BY <1>1, <3>1
  <2>2. Min(DOMAIN file[f]) \in DOMAIN file[f]
    <3>1. DOMAIN file[f] \subseteq Nat
      BY <1>1, <2>1
    <3> QED BY <2>1, <3>1, LeastDay
  <2>3. Announced(f) = Min(DOMAIN file[f])
    BY <1>3 DEF Announced
  <2>4. Announced(f) \in 0 .. date - 1 /\ Announced(f) \in DOMAIN file[f]
    BY <2>1, <2>2, <2>3
  <2> QED BY <1>1, <1>3, <2>4, ReportdOptions DEF Days
<1> QED BY <1>2, <1>3

LEMMA AnnouncedNext ==
    Files' => (\A f \in Fetchers :
                   /\ Announced(f) \in Days \cup {-1} /\ Announced(f) < date
                   /\ Announced(f) # -1 => file[f] # NoFile /\ Announced(f) \in DOMAIN file[f]
                   /\ file[f] # NoFile => Announced(f) \in 0 .. date - 1)'
BY AnnouncedDay, PTL

-----------------------------------------------------------------------------
(* The steps of run_loop.                                                  *)

\* What a write to one table does to a database.
LEMMA Writes ==
    ASSUME NEW v \in R!Databases
    PROVE  /\ v.rows \in [R!Rows -> R!RowStates] /\ v.reports \subseteq R!ReportRows
           /\ \A x : /\ [v EXCEPT !.rows = x].rows = x
                     /\ [v EXCEPT !.rows = x].reports = v.reports
                     /\ [v EXCEPT !.jobs = x].rows = v.rows
                     /\ [v EXCEPT !.jobs = x].reports = v.reports
                     /\ [v EXCEPT !.reports = x].rows = v.rows
                     /\ [v EXCEPT !.reports = x].reports = x
BY DEF R!Databases

\* A row gets its data from the file of the day; only create_reports makes
\* reports, and only the commit of a topic adds them to the database.
StepIsPlain ==
    /\ \A r \in Rows : view'.rows[r] = "full" =>
           view.rows[r] = "full" \/ Announced(r[2]) = r[1]
    /\ NoneRendered'
    /\ db'.reports \subseteq db.reports \/ R!TopicEnds

LEMMA RowKeys ==
    ASSUME NEW r \in Rows
    PROVE  r[1] \in Days /\ r[2] \in Fetchers /\ r[3] = Domain /\ r = <<r[1], r[2], Domain>>
BY DEF Rows

LEMMA ViewTyped ==
    ASSUME R!ReportdInv
    PROVE  view \in R!Databases /\ db \in R!Databases
BY DEF R!ReportdInv, R!TypeOK

\* The steps that write nothing.
LEMMA QuietIsPlain ==
    ASSUME R!ReportdInv, NoneRendered,
           \/ \E j \in R!Jobs : R!Refuse(j) \/ R!Garble(j) \/ R!Accept(j)
           \/ \E r \in R!Rows : R!FetchFails(r)
           \/ \E t \in R!Topics : R!Aggregate(t)
           \/ R!FetchEnds \/ R!CreateEnds \/ R!SendEnds
    PROVE  StepIsPlain
<1>1. /\ view' = view /\ db' = db
      /\ pc' \in {"mark", "list"} => pc = "collect"
      /\ pc' # "collect" /\ pc' \notin {"hung", "exit"}
  BY DEF R!Refuse, R!Garble, R!Accept, R!FetchFails, R!Aggregate, R!FetchEnds, R!CreateEnds,
         R!SendEnds, R!world, R!locals
<1> QED BY <1>1 DEF StepIsPlain, NoneRendered

LEMMA CheckDayIsPlain ==
    ASSUME R!ReportdInv, NoneRendered, R!CheckDay
    PROVE  StepIsPlain
<1>1. view = db /\ view \in R!Databases
  BY ViewTyped DEF R!CheckDay, R!ReportdInv, R!NothingPending
<1>2. /\ view'.rows = R!CleanedUp(view).rows /\ view'.reports = R!CleanedUp(view).reports
      /\ db' = db \/ db' = view'
      /\ pc' = "collect"
  BY DEF R!CheckDay, R!CleanedUp
<1>3. /\ \A r \in R!Rows : view'.rows[r] = "full" => view.rows[r] = "full"
      /\ view'.reports \subseteq view.reports
  BY <1>2 DEF R!CleanedUp
<1>4. Rows = R!Rows
  BY DEF Rows, R!Rows, Days, R!Days
<1> QED BY <1>1, <1>2, <1>3, <1>4 DEF StepIsPlain, NoneRendered

LEMMA ReadDomainIsPlain ==
    ASSUME R!ReportdInv, NoneRendered, NEW dom \in {Domain}, R!ReadDomain(dom)
    PROVE  StepIsPlain
<1> DEFINE q == <<cur[1][1], cur[1][2], dom>>
           rows == [view.rows EXCEPT ![q] = IF @ = "absent" THEN "listed" ELSE @]
<1>1. pc = "list" /\ pc' = pc /\ db' = db /\ view' = [view EXCEPT !.rows = rows]
  BY DEF R!ReadDomain, R!world
<1>2. view'.rows = rows /\ view'.reports = view.reports
  BY <1>1, ViewTyped, Writes
<1>3. \A r \in Rows : view'.rows[r] = "full" => view.rows[r] = "full"
  <2>1. view.rows \in [R!Rows -> R!RowStates]
    BY ViewTyped, Writes
  <2>2. Rows = R!Rows
    BY DEF Rows, R!Rows, Days, R!Days
  <2> QED BY <1>2, <2>1, <2>2
<1> QED BY <1>1, <1>2, <1>3 DEF StepIsPlain, NoneRendered

LEMMA ListStopsIsPlain ==
    ASSUME R!ReportdInv, NoneRendered, R!ListEnds \/ R!ListBreaks
    PROVE  StepIsPlain
<1>1. pc = "list" /\ pc' = "mark" /\ db' = view'
  BY DEF R!ListEnds, R!ListBreaks, R!Commit
<1>2. \A r \in Rows : view'.rows[r] = "full" => view.rows[r] = "full"
  <2>1. CASE R!ListEnds
    BY <2>1 DEF R!ListEnds
  <2>2. CASE R!ListBreaks
    <3>1. view' = [view EXCEPT !.rows = save]
      BY <2>2 DEF R!ListBreaks, R!RolledBack
    <3>2. view'.rows = save
      BY <3>1, ViewTyped, Writes
    <3>3. /\ view.rows = [r \in R!Rows |->
                IF save[r] = "absent" /\ <<r[1], r[2]>> = cur[1] /\ r[3] \in read
                THEN "listed" ELSE save[r]]
      BY <1>1 DEF R!ReportdInv, R!ListPending
    <3>4. Rows = R!Rows
      BY DEF Rows, R!Rows, Days, R!Days
    <3> QED BY <3>2, <3>3, <3>4
  <2> QED BY <2>1, <2>2
<1>3. view'.reports = view.reports
  <2>1. CASE R!ListEnds
    BY <2>1 DEF R!ListEnds
  <2>2. CASE R!ListBreaks
    <3>1. view' = [view EXCEPT !.rows = save]
      BY <2>2 DEF R!ListBreaks, R!RolledBack
    <3> QED BY <3>1, ViewTyped, Writes
  <2> QED BY <2>1, <2>2
<1> QED BY <1>1, <1>2, <1>3 DEF StepIsPlain, NoneRendered

LEMMA MarkJobIsPlain ==
    ASSUME R!ReportdInv, NoneRendered, R!MarkJob \/ R!CollectEnds
    PROVE  StepIsPlain
<1>1. CASE R!MarkJob
  <2> DEFINE j == cur[1]
             jobs == [view.jobs EXCEPT ![j] =
                         IF cur[2] THEN [@ EXCEPT !.status = "ok"] ELSE R!AfterFailure(@)]
  <2>1. view' = [view EXCEPT !.jobs = jobs] /\ db' = db /\ pc = "mark" /\ pc' = "collect"
    BY <1>1 DEF R!MarkJob
  <2> HIDE DEF jobs
  <2>2. view'.rows = view.rows /\ view'.reports = view.reports
    BY <2>1, ViewTyped, Writes
  <2> QED BY <2>1, <2>2 DEF StepIsPlain, NoneRendered
<1>2. CASE R!CollectEnds
  <2>1. view' = view /\ db' = view /\ pc = "collect" /\ pc' = "fetch"
    BY <1>2 DEF R!CollectEnds, R!Commit
  <2> QED BY <2>1 DEF StepIsPlain, NoneRendered
<1> QED BY <1>1, <1>2

LEMMA FetchDetailsIsPlain ==
    ASSUME R!ReportdInv, NoneRendered, NEW q \in R!Rows, R!FetchDetails(q)
    PROVE  StepIsPlain
<1> DEFINE x == IF Announced(q[2]) = q[1] THEN "full" ELSE "void"
           rows == [view.rows EXCEPT ![q] = x]
<1>0. Rows = R!Rows
  BY DEF Rows, R!Rows, Days, R!Days
<1>1. pc = "fetch" /\ pc' = pc /\ db' = view' /\ view' = [view EXCEPT !.rows = rows]
  <2>1. q[2] \in Fetchers
    BY <1>0, RowKeys
  <2> QED BY <2>1 DEF R!FetchDetails, R!locals
<1>2. view = db
  BY <1>1 DEF R!ReportdInv, R!NothingPending
<1>3. view'.rows = rows /\ view'.reports = view.reports
  BY <1>1, ViewTyped, Writes
<1>4. \A r \in Rows : view'.rows[r] = "full" =>
          view.rows[r] = "full" \/ Announced(r[2]) = r[1]
  <2>1. view.rows \in [R!Rows -> R!RowStates]
    BY ViewTyped, Writes
  <2> QED BY <1>0, <1>3, <2>1
<1> QED BY <1>1, <1>2, <1>3, <1>4 DEF StepIsPlain, NoneRendered

LEMMA RenderIsPlain ==
    ASSUME R!ReportdInv, NoneRendered, (\E rec \in {Record} : R!RenderReport(rec)) \/ R!TopicEnds
    PROVE  StepIsPlain
<1>1. /\ pc = "render" /\ pc' \in {"render", "create"} /\ view'.rows = view.rows
      /\ db' = db \/ R!TopicEnds
  <2>1. ASSUME NEW rec \in {Record}, R!RenderReport(rec)
        PROVE  pc = "render" /\ pc' = pc /\ view'.rows = view.rows /\ db' = db
    BY <2>1, ViewTyped, Writes DEF R!RenderReport, R!world
  <2> QED BY <2>1 DEF R!TopicEnds
<1> QED BY <1>1 DEF StepIsPlain, NoneRendered

LEMMA RunLoopIsPlain ==
    ASSUME R!ReportdInv, NoneRendered, R!RunLoop
    PROVE  StepIsPlain
<1>1. ~R!Die
  BY DEF R!Die, NoneRendered
<1> QED BY <1>1, QuietIsPlain, CheckDayIsPlain, ReadDomainIsPlain, ListStopsIsPlain,
        MarkJobIsPlain, FetchDetailsIsPlain, RenderIsPlain DEF R!RunLoop

-----------------------------------------------------------------------------
(* The invariant of Reportd.                                               *)

\* Deleting the file and renaming the live database are what Reportd allows the
\* collectds; that a collectd starts late it does not see.
LEMMA StorageIsReportds ==
    ASSUME Files, Files', NEW f \in Fetchers,
           Declare(f) \/ Unlink(f) \/ Rename(f) \/ StartLate(f)
    PROVE  [R!Next]_(R!vars)
<1> DEFINE avail == [g \in Fetchers |-> Announced(g)]
<1>1. UNCHANGED <<date, pc, todo, cur, save, read, view, db, made, starts>>
  BY DEF Declare, Unlink, Rename, StartLate, reportdVars
<1>2. CASE file' = file
  <2>1. avail' = avail
    BY <1>2 DEF Announced
  <2> QED BY <1>1, <2>1 DEF R!vars
<1>3. \A g \in Fetchers : g # f => Announced(g)' = Announced(g)
  BY DEF Declare, Unlink, Rename, StartLate, Files, Announced
<1>4. avail' = [avail EXCEPT ![f] = Announced(f)']
  BY <1>3
<1>5. CASE Unlink(f)
  <2>1. Announced(f)' = -1
    BY <1>5 DEF Unlink, Files, Announced
  <2>2. CASE Announced(f) = -1
    <3>1. avail' = avail
      BY <1>4, <2>1, <2>2
    <3> QED BY <1>1, <3>1 DEF R!vars
  <2>3. CASE Announced(f) # -1
    <3>1. Announced(f) \in 0 .. date - 2
      BY <1>5, <2>3, AnnouncedDay DEF Unlink, Behind, Files
    <3>2. R!FileGoes(f)
      BY <1>1, <1>4, <2>1, <3>1 DEF R!FileGoes, R!locals
    <3> QED BY <3>2 DEF R!Next, R!Surroundings
  <2> QED BY <2>2, <2>3
<1>6. CASE Rename(f)
  <2>1. Announced(f) = -1
    BY <1>6 DEF Rename, Files, Announced
  <2>2. Announced(f)' \in 0 .. date - 1
    <3>1. file'[f] # NoFile /\ date' = date
      BY <1>6 DEF Rename, Files, reportdVars, NoFile
    <3> QED BY <3>1, AnnouncedNext
  <2>3. R!FileComes(f)
    BY <1>1, <1>4, <2>1, <2>2 DEF R!FileComes, R!locals
  <2> QED BY <2>3 DEF R!Next, R!Surroundings
<1> QED BY <1>2, <1>5, <1>6 DEF Declare, StartLate

\* Every step is one of Reportd, or invisible to it.
LEMMA StepIsReportds == Files /\ Files' /\ [Next]_vars => [R!Next]_(R!vars)
<1> SUFFICES ASSUME Files, Files', [Next]_vars PROVE [R!Next]_(R!vars)
  OBVIOUS
<1>1. CASE Reporting
  BY <1>1 DEF Reporting, R!Next
<1>2. CASE Midnight \/ Apart(R!WakeUp) \/ Apart(R!Start) \/ Apart(R!TimePasses)
  BY <1>2 DEF Midnight, Apart, R!Next, R!Surroundings
<1>3. CASE UNCHANGED vars
  <2>1. [f \in Fetchers |-> Announced(f)]' = [f \in Fetchers |-> Announced(f)]
    BY <1>3 DEF vars, stores, Announced
  <2> QED BY <1>3, <2>1 DEF vars, reportdVars, R!vars
<1> QED BY <1>1, <1>2, <1>3, StorageIsReportds DEF Next

LEMMA ReportdKept ==
    ASSUME R!ReportdInv, Files, Files', [Next]_vars
    PROVE  R!ReportdInv'
<1>1. RP!ReportdInv /\ [RP!Next]_(RP!vars)
  BY SameReportdInv, SameStep, StepIsReportds
<1>2. (RP!ReportdInv => R!ReportdInv)'
  BY SameReportdInv, PTL
<1> QED BY <1>1, <1>2, RP!Inductive, RPAssumptions

-----------------------------------------------------------------------------
(* The steps of the storages and of the calendar.                          *)

\* What was sealed stays sealed, with the same sessions (the rename at the end
\* of switch_to_next_day never counts a day again).
SealedStays ==
    \A f \in Fetchers, d \in Days :
        Settled(f, d) => sealed'[f][d] = sealed[f][d]

LEMMA DeclareFiles ==
    ASSUME Files, NEW f \in Fetchers, Declare(f) PROVE Files' /\ SealedStays
<1>1. /\ date \in Nat /\ floor[f] \in 1 .. date /\ floor[f] < date
      /\ UNCHANGED <<date, floor, file, sealed>>
      /\ declared' = [declared EXCEPT ![f] = @ \cup {floor[f]}]
  BY DEF Files, Declare, Behind, reportdVars
<1>2. declared' \in [Fetchers -> SUBSET (0 .. date - 1)]
  <2>1. floor[f] \in 0 .. date - 1
    BY <1>1
  <2> QED BY <1>1, <2>1 DEF Files
<1> QED BY <1>1, <1>2 DEF Files, SealedStays, Settled

LEMMA UnlinkFiles == ASSUME Files, NEW f \in Fetchers, Unlink(f) PROVE Files' /\ SealedStays
<1>1. /\ UNCHANGED <<date, floor, declared, sealed>>
      /\ file' = [file EXCEPT ![f] = NoFile]
  BY DEF Unlink, reportdVars
<1>2. /\ DOMAIN file' = Fetchers
      /\ \A g \in Fetchers : file'[g] = IF g = f THEN NoFile ELSE file[g]
  BY <1>1 DEF Files
<1> QED BY <1>1, <1>2 DEF Files, SealedStays, Settled

LEMMA RenameFiles == ASSUME Files, NEW f \in Fetchers, Rename(f) PROVE Files' /\ SealedStays
<1>1. PICK n \in [declared[f] -> Sessions] :
          /\ \A d \in declared[f] : sealed[f][d] # 0 => n[d] = sealed[f][d]
          /\ file' = [file EXCEPT ![f] = n]
          /\ sealed' = [sealed EXCEPT ![f] = [d \in Days |-> IF d \in DOMAIN n THEN n[d] ELSE @[d]]]
  BY DEF Rename
<1>2. /\ date \in Nat /\ date <= LastDate /\ date \in 1 .. LastDate
      /\ floor[f] \in declared[f] /\ declared[f] \subseteq 0 .. date - 1
      /\ date' = date
      /\ declared' = [declared EXCEPT ![f] = {}] /\ floor' = [floor EXCEPT ![f] = date]
  BY DEF Files, Rename, Behind, reportdVars
<1> DEFINE s == [d \in Days |-> IF d \in declared[f] THEN n[d] ELSE sealed[f][d]]
<1>3. /\ s \in [Days -> Nat]
      /\ \A d \in declared[f] : s[d] = n[d] /\ n[d] # 0
      /\ \A d \in Days : sealed[f][d] # 0 => s[d] = sealed[f][d]
  <2>1. \A d \in declared[f] : n[d] \in Nat /\ n[d] # 0 /\ d \in Days
    <3> TAKE d \in declared[f]
    <3>1. n[d] \in Sessions
      BY <1>1
    <3>2. d \in 0 .. date - 1
      BY <1>2
    <3>3. d \in Days
      BY <1>2, <3>2, ReportdOptions DEF Days
    <3> QED BY <3>1, <3>3, SessionsAssumption
  <2>2. sealed[f] \in [Days -> Nat]
    BY DEF Files
  <2> QED BY <1>1, <2>1, <2>2
<1>4. sealed' = [sealed EXCEPT ![f] = s]
  BY <1>1
<1> HIDE DEF s
<1>5. /\ sealed' \in [Fetchers -> [Days -> Nat]]
      /\ \A g \in Fetchers : sealed'[g] = IF g = f THEN s ELSE sealed[g]
  BY <1>3, <1>4 DEF Files
<1>6. /\ DOMAIN file' = Fetchers
      /\ \A g \in Fetchers : file'[g] = IF g = f THEN n ELSE file[g]
  BY <1>1 DEF Files
<1>7. SealedStays
  BY <1>3, <1>5 DEF SealedStays, Settled
<1>8. \A g \in Fetchers : file'[g] # NoFile =>
          /\ DOMAIN file'[g] \subseteq 0 .. floor'[g] - 1 /\ DOMAIN file'[g] # {}
          /\ \A d \in DOMAIN file'[g] : file'[g][d] = sealed'[g][d] /\ sealed'[g][d] # 0
  <2>1. DOMAIN n = declared[f]
    OBVIOUS
  <2> QED BY <1>2, <1>3, <1>5, <1>6, <2>1 DEF Files, Settled
<1>9. /\ declared' \in [Fetchers -> SUBSET (0 .. date - 1)]
      /\ floor' \in [Fetchers -> 1 .. date]
  BY <1>2 DEF Files
<1> QED BY <1>2, <1>5, <1>6, <1>7, <1>8, <1>9 DEF Files, Settled

LEMMA StartLateFiles == ASSUME Files, NEW f \in Fetchers, StartLate(f) PROVE Files' /\ SealedStays
<1>1. /\ date \in Nat /\ date \in 1 .. LastDate
      /\ UNCHANGED <<date, declared, file, sealed>> /\ floor' = [floor EXCEPT ![f] = date]
  BY DEF Files, StartLate, reportdVars
<1>2. floor' \in [Fetchers -> 1 .. date]
  BY <1>1 DEF Files
<1> QED BY <1>1, <1>2 DEF Files, SealedStays, Settled

LEMMA LaterDays ==
    ASSUME NEW m \in Nat, NEW n \in Nat, m <= n
    PROVE  0 .. m - 1 \subseteq 0 .. n - 1 /\ 1 .. m \subseteq 1 .. n
OBVIOUS

\* A later date, or none, leaves the files alone.
LEMMA TimeFiles ==
    ASSUME Files, UNCHANGED stores, date' \in date .. LastDate
    PROVE  Files' /\ SealedStays
<1>1. UNCHANGED <<floor, declared, file, sealed>>
  BY DEF stores
<1>2. /\ date \in Nat /\ date' \in Nat /\ date <= date' /\ date' \in 1 .. LastDate
      /\ 1 .. date \subseteq 1 .. date' /\ 0 .. date - 1 \subseteq 0 .. date' - 1
  <2>1. date \in 1 .. LastDate /\ date' \in date .. LastDate /\ LastDate \in Nat
    BY ReportdOptions DEF Files
  <2>2. date \in Nat /\ date' \in Nat /\ date <= date' /\ date' \in 1 .. LastDate
    BY ONLY <2>1
  <2> QED BY <2>2, LaterDays
<1>3. /\ floor \in [Fetchers -> 1 .. date']
      /\ declared \in [Fetchers -> SUBSET (0 .. date' - 1)]
  BY <1>2 DEF Files
<1> QED BY <1>1, <1>2, <1>3 DEF Files, SealedStays, Settled

\* What is left as it was while the files move.
LEMMA KeptThroughFiles ==
    ASSUME Files, Details, Summed, NoneRendered, SealedStays,
           R!ReportdInv, view'.rows = view.rows, view'.reports = view.reports,
           db'.reports \subseteq db.reports, UNCHANGED <<data, sums>>
    PROVE  Details' /\ Summed'
<1>1. Details'
  <2> SUFFICES ASSUME NEW r \in Rows, view.rows[r] = "full"
               PROVE  data[r] = sealed'[r[2]][r[1]] /\ sealed'[r[2]][r[1]] # 0
    BY DEF Details, Settled
  <2> QED BY RowKeys DEF Details, Settled, SealedStays
<1>2. Summed'
  <2> SUFFICES ASSUME NEW rep \in db.reports
               PROVE  /\ sums[rep.day] = Total([f \in rep.parts |-> sealed'[f][rep.day]])
                      /\ \A f \in rep.parts : sealed'[f][rep.day] # 0
    BY DEF Summed, Settled
  <2>1. rep.day \in Days /\ rep.parts \subseteq Fetchers
    BY ViewTyped DEF R!Databases, R!ReportRows, Days, R!Days
  <2>2. \A f \in rep.parts : sealed'[f][rep.day] = sealed[f][rep.day] /\ sealed[f][rep.day] # 0
    BY <2>1 DEF Summed, Settled, SealedStays
  <2>3. [f \in rep.parts |-> sealed'[f][rep.day]] = [f \in rep.parts |-> sealed[f][rep.day]]
    BY <2>2
  <2>4. sums[rep.day] = Total([f \in rep.parts |-> sealed[f][rep.day]])
    BY DEF Summed
  <2> QED BY <2>2, <2>3, <2>4
<1> QED BY <1>1, <1>2

-----------------------------------------------------------------------------
(* The steps of tlsrpt-reportd.                                            *)

LEMMA ReportingDetails ==
    ASSUME R!ReportdInv, Files, Details, NoneRendered, Reporting
    PROVE  Details'
<1>1. /\ UNCHANGED <<file, sealed>> /\ StepIsPlain
      /\ data' = [r \in Rows |-> IF view'.rows[r] # "full" THEN 0
                                 ELSE IF view.rows[r] = "full" THEN data[r] ELSE Stored(r)]
  BY RunLoopIsPlain DEF Reporting, Fetches, stores
<1> SUFFICES ASSUME NEW r \in Rows, view'.rows[r] = "full"
             PROVE  data'[r] = sealed[r[2]][r[1]] /\ sealed[r[2]][r[1]] # 0
  BY <1>1 DEF Details, Settled
<1>2. CASE view.rows[r] = "full"
  BY <1>1, <1>2 DEF Details, Settled
<1>3. CASE view.rows[r] # "full"
  <2>1. Announced(r[2]) = r[1]
    BY <1>1, <1>3 DEF StepIsPlain
  <2>2. r[1] # -1 /\ r[2] \in Fetchers
    BY RowKeys, ReportdOptions DEF Days
  <2>3. file[r[2]] # NoFile /\ r[1] \in DOMAIN file[r[2]]
    BY <2>1, <2>2, AnnouncedDay
  <2>4. file[r[2]][r[1]] = sealed[r[2]][r[1]] /\ sealed[r[2]][r[1]] # 0
    BY <2>2, <2>3 DEF Files, Settled
  <2> QED BY <1>1, <1>3, <2>4 DEF Stored
<1> QED BY <1>2, <1>3

\* There is one record, so that a topic has one report.
LEMMA OneReport ==
    ASSUME NEW v \in R!Databases, R!Numbered(v), NEW p \in v.reports, NEW q \in v.reports,
           p.day = q.day
    PROVE  p = q
<1>1. p.dom = Domain /\ q.dom = Domain /\ p.rec = Record /\ q.rec = Record
  BY DEF R!Databases, R!ReportRows
<1> QED BY <1>1 DEF R!Numbered

\* create_report_for sums the data of the rows, and the report stays as it is.
LEMMA TopicSummed ==
    ASSUME R!ReportdInv, Details, Summed, R!TopicEnds, Sums, UNCHANGED sealed
    PROVE  Summed'
<1>1. /\ pc = "render" /\ db' = view /\ cur \in todo /\ todo \subseteq R!Ripe(db)
      /\ view.rows = db.rows
      /\ {rep \in view.reports : <<rep.day, rep.dom>> # cur} = db.reports
      /\ \A rep \in R!ReportsOf(view, cur) : rep.parts = R!Parts(db, cur, rep.rec)
      /\ R!Numbered(view) /\ view \in R!Databases /\ db \in R!Databases
  BY ViewTyped DEF R!ReportdInv, R!RenderPending, R!CreateCursor, R!TopicEnds, R!Commit
<1>2. R!ReportsOf(db, cur) = {} /\ cur \in Days \X {Domain}
  BY <1>1 DEF R!Ripe, R!ReportsOf, R!Topics, R!Days, Days
<1>3. DOMAIN sums' = Days
  BY DEF Sums
<1>4. ASSUME NEW rep \in view.reports
      PROVE  /\ sums'[rep.day] = Total([f \in rep.parts |-> sealed[f][rep.day]])
             /\ \A f \in rep.parts : sealed[f][rep.day] # 0
  <2>1. /\ rep.day \in Days /\ rep.dom = Domain /\ rep.parts \subseteq Fetchers
        /\ rep \in R!ReportsOf(db', <<rep.day, Domain>>)
    BY <1>1 DEF R!Databases, R!ReportRows, Days, R!Days, R!ReportsOf
  <2>2. CASE <<rep.day, rep.dom>> = cur
    <3> DEFINE q == CHOOSE q \in R!ReportsOf(db', <<rep.day, Domain>>) : TRUE
    <3>1. sums'[rep.day] = Total([f \in q.parts |-> data[<<rep.day, f, Domain>>]])
      BY <1>2, <2>1, <2>2 DEF Sums
    <3>2. q \in R!ReportsOf(db', <<rep.day, Domain>>)
      BY <2>1
    <3>3. q \in view.reports /\ q.day = rep.day
      BY <1>1, <3>2 DEF R!ReportsOf
    <3> HIDE DEF q
    <3>4. q = rep
      BY <1>1, <3>3, OneReport
    <3>5. rep.parts = R!Parts(db, cur, rep.rec) /\ cur = <<rep.day, Domain>>
      BY <1>1, <2>1, <2>2 DEF R!ReportsOf
    <3>6. ASSUME NEW f \in rep.parts
          PROVE  /\ data[<<rep.day, f, Domain>>] = sealed[f][rep.day]
                 /\ sealed[f][rep.day] # 0
      <4> DEFINE r == <<rep.day, f, Domain>>
      <4>1. r \in Rows /\ r[1] = rep.day /\ r[2] = f
        BY <2>1 DEF Rows
      <4>2. view.rows[r] = "full"
        BY <1>1, <3>5 DEF R!Parts
      <4> HIDE DEF r
      <4>3. data[r] = sealed[f][rep.day] /\ sealed[f][rep.day] # 0
        BY <4>1, <4>2 DEF Details, Settled
      <4> QED BY <4>3 DEF r
    <3>7. [f \in q.parts |-> data[<<rep.day, f, Domain>>]]
            = [f \in rep.parts |-> sealed[f][rep.day]]
      BY <3>4, <3>6
    <3> QED BY <3>1, <3>6, <3>7
  <2>3. CASE <<rep.day, rep.dom>> # cur
    <3>1. rep \in db.reports
      BY <1>1, <2>3
    <3>2. rep \in R!ReportsOf(db, <<rep.day, Domain>>)
      BY <2>1, <3>1 DEF R!ReportsOf
    <3>3. sums'[rep.day] = sums[rep.day]
      BY <2>1, <3>2 DEF Sums
    <3> QED BY <3>1, <3>3 DEF Summed, Settled
  <2> QED BY <2>2, <2>3
<1> QED BY <1>1, <1>3, <1>4 DEF Summed, Settled

LEMMA ReportingSummed ==
    ASSUME R!ReportdInv, Details, Summed, NoneRendered, Reporting
    PROVE  Summed'
<1>1. Sums /\ UNCHANGED sealed /\ StepIsPlain
  BY RunLoopIsPlain DEF Reporting, stores
<1>2. CASE R!TopicEnds
  BY <1>1, <1>2, TopicSummed
<1>3. CASE db'.reports \subseteq db.reports
  <2>1. ASSUME NEW d \in Days PROVE sums'[d] = sums[d]
    <3>1. R!ReportsOf(db', <<d, Domain>>) \subseteq R!ReportsOf(db, <<d, Domain>>)
      BY <1>3 DEF R!ReportsOf
    <3>2. ~(R!ReportsOf(db, <<d, Domain>>) = {} /\ R!ReportsOf(db', <<d, Domain>>) # {})
      BY <3>1
    <3> QED BY <1>1, <3>2 DEF Sums
  <2>2. DOMAIN sums' = Days
    BY <1>1 DEF Sums
  <2>3. \A rep \in db.reports : rep.day \in Days
    BY ViewTyped DEF R!Databases, R!ReportRows, Days, R!Days
  <2> QED BY <1>1, <1>3, <2>1, <2>2, <2>3 DEF Summed, Settled
<1> QED BY <1>1, <1>2, <1>3 DEF StepIsPlain

-----------------------------------------------------------------------------
(* The theorems.                                                           *)

LEMMA PipelineInit == Init => PipelineInv
<1> SUFFICES ASSUME Init PROVE PipelineInv
  OBVIOUS
<1>1. /\ date = 1 /\ pc = "down" /\ view = R!Empty /\ db = R!Empty
  BY DEF Init, R!Fresh
<1>2. Files
  <2>1. PICK late \in SUBSET Fetchers :
          /\ declared = [f \in Fetchers |-> IF f \in late THEN {0} ELSE {}]
          /\ file = [f \in Fetchers |-> IF f \in late THEN NoFile ELSE [d \in {0} |-> 1]]
          /\ sealed = [f \in Fetchers |-> [d \in Days |-> IF d = 0 /\ f \notin late THEN 1 ELSE 0]]
    BY DEF Init
  <2>2. 0 \in Days /\ 0 .. date - 1 = {0} /\ date \in 1 .. LastDate /\ 1 \in 1 .. date
    BY <1>1, ReportdOptions DEF Days
  <2>3. floor \in [Fetchers -> 1 .. date]
    BY <2>2 DEF Init
  <2>4. \A f \in Fetchers : file[f] # NoFile =>
           /\ DOMAIN file[f] = {0} /\ file[f][0] = 1 /\ sealed[f][0] = 1
    BY <2>1, <2>2
  <2>5. sealed \in [Fetchers -> [Days -> Nat]]
    BY <2>1
  <2>6. declared \in [Fetchers -> SUBSET (0 .. date - 1)]
    BY <2>1, <2>2
  <2>7. DOMAIN file = Fetchers
    BY <2>1
  <2> QED BY <2>2, <2>3, <2>4, <2>5, <2>6, <2>7 DEF Files, Settled
<1>3. R!ReportdInv
  <2>1. RP!Fresh
    BY SameFresh DEF Init
  <2>2. /\ [f \in Fetchers |-> Announced(f)] \in [Fetchers -> RP!Days \cup {-1}]
        /\ \A f \in Fetchers : [g \in Fetchers |-> Announced(g)][f] < date
    BY <1>2, AnnouncedDay DEF Days, RP!Days
  <2>3. RP!ReportdInv
    BY <2>1, <2>2, RP!FreshInv, RPAssumptions
  <2> QED BY <2>3, SameReportdInv
<1>4. R!Empty.rows = [r \in R!Rows |-> "absent"] /\ R!Empty.reports = {}
  BY DEF R!Empty
<1>5. Details
  <2>1. Rows = R!Rows
    BY DEF Rows, R!Rows, Days, R!Days
  <2> QED BY <1>1, <1>4, <2>1 DEF Details
<1>6. NoneRendered
  BY <1>1 DEF NoneRendered
<1>7. Summed
  BY <1>1, <1>4 DEF Init, Summed
<1> QED BY <1>2, <1>3, <1>5, <1>6, <1>7 DEF PipelineInv

LEMMA PipelineStep == PipelineInv /\ [Next]_vars => PipelineInv'
<1> SUFFICES ASSUME PipelineInv, [Next]_vars PROVE PipelineInv'
  OBVIOUS
<1>1. R!ReportdInv /\ Files /\ Details /\ NoneRendered /\ Summed
  BY DEF PipelineInv
<1>2. date \in Nat /\ date \in date .. LastDate /\ date \in 1 .. LastDate
  BY <1>1, ReportdOptions DEF Files
<1>3. CASE Reporting
  <2>1. date' = date /\ UNCHANGED stores
    <3>1. Reporting => date' = date
      BY DEF Reporting, R!RunLoop, R!CheckDay, R!Refuse, R!Accept, R!Garble, R!ReadDomain,
             R!ListEnds, R!ListBreaks, R!MarkJob, R!CollectEnds, R!FetchDetails, R!FetchFails,
             R!FetchEnds, R!Aggregate, R!RenderReport, R!TopicEnds, R!CreateEnds, R!SendEnds,
             R!Die, R!Vanish, R!world
    <3> QED BY <1>3, <3>1 DEF Reporting
  <2>2. Files'
    BY <1>1, <1>2, <2>1, TimeFiles
  <2>3. Details' /\ Summed'
    BY <1>1, <1>3, ReportingDetails, ReportingSummed
  <2>4. NoneRendered'
    BY <1>1, <1>3, RunLoopIsPlain DEF Reporting, StepIsPlain
  <2> QED BY <1>1, <2>2, <2>3, <2>4, ReportdKept DEF PipelineInv
<1>4. CASE Midnight \/ Apart(R!WakeUp) \/ Apart(R!Start) \/ Apart(R!TimePasses)
  <2>1. UNCHANGED <<data, sums>> /\ UNCHANGED stores /\ date' \in date .. LastDate
    <3>1. date' = date \/ (date < LastDate /\ date' = date + 1)
      BY <1>4 DEF Midnight, Apart, R!WakeUp, R!Start, R!TimePasses, R!Midnight, R!world
    <3> QED BY <1>2, <1>4, <3>1, ReportdOptions DEF Midnight, Apart
  <2>2. /\ view'.rows = view.rows /\ view'.reports = view.reports
        /\ pc' \notin {"collect", "list", "mark", "hung", "exit"} \/ UNCHANGED <<pc, view, db>>
    <3>1. CASE UNCHANGED view /\ (pc' = "check" \/ UNCHANGED <<pc, db>>)
      BY <3>1
    <3>2. CASE R!TimePasses
      <4> DEFINE jobs == [j \in R!Jobs |-> [view.jobs[j] EXCEPT !.later = FALSE]]
      <4>1. view' = [view EXCEPT !.jobs = jobs] /\ pc' = pc /\ pc \in R!Halted \cup {"sleep"}
        BY <3>2 DEF R!TimePasses
      <4> HIDE DEF jobs
      <4> QED BY <1>1, <4>1, ViewTyped, Writes DEF R!Halted
    <3> QED BY <1>4, <3>1, <3>2 DEF Midnight, Apart, R!WakeUp, R!Start, R!Midnight
  <2>3. db'.reports \subseteq db.reports
    <3>1. CASE R!TimePasses
      <4>1. pc \in R!Halted \cup {"sleep"} /\ db' = view'
        BY <3>1 DEF R!TimePasses
      <4>2. view = db
        BY <1>1, <4>1 DEF R!ReportdInv, R!NothingPending
      <4> QED BY <2>2, <4>1, <4>2
    <3> QED BY <1>4, <3>1 DEF Midnight, Apart, R!WakeUp, R!Start, R!Midnight
  <2>4. Files' /\ SealedStays
    BY <1>1, <2>1, TimeFiles
  <2>5. Details' /\ Summed'
    BY <1>1, <2>1, <2>2, <2>3, <2>4, KeptThroughFiles
  <2>6. NoneRendered'
    BY <1>1, <2>2 DEF NoneRendered
  <2> QED BY <1>1, <2>4, <2>5, <2>6, ReportdKept DEF PipelineInv
<1>5. CASE \/ UNCHANGED vars
           \/ \E f \in Fetchers : Declare(f) \/ Unlink(f) \/ Rename(f) \/ StartLate(f)
  <2>1. UNCHANGED <<date, pc, view, db, data, sums>>
    BY <1>5 DEF vars, reportdVars, Declare, Unlink, Rename, StartLate
  <2>2. Files' /\ SealedStays
    <3>1. CASE UNCHANGED vars
      BY <1>1, <1>2, <3>1, TimeFiles DEF vars, reportdVars
    <3> QED BY <1>1, <1>5, <3>1, DeclareFiles, UnlinkFiles, RenameFiles,
                StartLateFiles
  <2>3. Details' /\ Summed'
    BY <1>1, <2>1, <2>2, KeptThroughFiles
  <2>4. NoneRendered'
    BY <1>1, <2>1 DEF NoneRendered
  <2> QED BY <1>1, <2>2, <2>3, <2>4, ReportdKept DEF PipelineInv
<1> QED BY <1>3, <1>4, <1>5 DEF Next

\* The database of reportd, the files of the collectds and the history of what
\* was sealed and summed fit together as PipelineInv says.
THEOREM PipelineInvariance == Spec => []PipelineInv
BY PipelineInit, PipelineStep, PTL DEF Spec

\* With its storages the reportd does what Reportd allows it: a rollover deletes
\* the file of a fetcher and brings a new one (switch_to_next_day), and each step
\* of run_loop is one of Reportd.
THEOREM PipelineImplementsReportd == Spec => R!Spec
<1>1. Init => R!Init
  <2> SUFFICES ASSUME Init PROVE R!Init
    OBVIOUS
  <2>1. PICK late \in SUBSET Fetchers :
          file = [f \in Fetchers |-> IF f \in late THEN NoFile ELSE [d \in {0} |-> 1]]
    BY DEF Init
  <2>2. \A f \in Fetchers : Announced(f) = IF f \in late THEN -1 ELSE 0
    <3> SUFFICES ASSUME NEW f \in Fetchers, f \notin late PROVE Announced(f) = 0
      BY <2>1 DEF Announced
    <3>1. DOMAIN file[f] = {0} /\ file[f] # NoFile
      BY <2>1 DEF NoFile
    <3>2. Min({0}) = 0
      BY LeastDay
    <3> QED BY <3>1, <3>2 DEF Announced
  <2> QED BY <2>2 DEF Init, R!Init
<1>2. PipelineInv /\ PipelineInv' /\ [Next]_vars => [R!Next]_(R!vars)
  BY StepIsReportds DEF PipelineInv
<1> QED BY <1>1, <1>2, PipelineInvariance, PTL DEF Spec, R!Spec

LEMMA ExactFollows == PipelineInv => ReportsAreExact
<1> SUFFICES ASSUME PipelineInv, NEW d \in Days, Parts(d) # {}
             PROVE  sums[d] = Total([f \in Parts(d) |-> sealed[f][d]])
  BY DEF ReportsAreExact
<1>1. db \in R!Databases /\ R!Numbered(db)
  BY ViewTyped DEF PipelineInv, R!ReportdInv, R!Sound
<1>2. PICK rep \in R!ReportsOf(db, <<d, Domain>>) : TRUE
  BY DEF Parts
<1>3. rep \in db.reports /\ rep.day = d
  BY <1>2 DEF R!ReportsOf
<1>4. R!ReportsOf(db, <<d, Domain>>) = {rep}
  <2>1. \A q \in R!ReportsOf(db, <<d, Domain>>) : q \in db.reports /\ q.day = d
    BY DEF R!ReportsOf
  <2>2. \A q \in R!ReportsOf(db, <<d, Domain>>) : q = rep
    BY <1>1, <1>3, <2>1, OneReport
  <2> QED BY <1>2, <2>2
<1>5. Parts(d) = rep.parts
  BY <1>4 DEF Parts
<1> QED BY <1>3, <1>5 DEF PipelineInv, Summed

LEMMA NobodyFollows == PipelineInv => NobodyForgotten
<1> SUFFICES ASSUME PipelineInv, NEW d \in Days, Parts(d) # {}, NEW f \in Fetchers \ Parts(d)
             PROVE  \/ db.jobs[<<d, f>>].status = "timedout"
                    \/ db.rows[<<d, f, Domain>>] = "void"
  BY DEF NobodyForgotten
<1> DEFINE t == <<d, Domain>>
<1>1. /\ db \in R!Databases /\ R!Sound(db) /\ d \in R!Days
  BY ViewTyped DEF PipelineInv, R!ReportdInv, Days, R!Days
<1>2. PICK rep \in R!ReportsOf(db, t) : rep.parts # {}
  BY DEF Parts
<1>3. PICK g \in rep.parts : TRUE
  BY <1>2
<1>4. /\ t \in R!Topics /\ t[1] = d /\ t[2] = Domain
  BY <1>1 DEF R!Topics
<1>5. rep.parts = R!Parts(db, t, rep.rec) /\ rep.rec = Record
  BY <1>1, <1>2, <1>4 DEF R!Sound, R!Matching, R!Databases, R!ReportRows, R!ReportsOf
<1>6. /\ g \in Fetchers /\ db.rows[<<d, g, Domain>>] = "full"
      /\ db.rows[<<d, f, Domain>>] # "full"
  <2>1. \A h \in Fetchers : h \in rep.parts <=> db.rows[<<d, h, Domain>>] = "full"
    BY <1>4, <1>5 DEF R!Parts
  <2>2. f \notin rep.parts
    BY <1>2 DEF Parts
  <2>3. g \in Fetchers
    BY <1>5 DEF R!Parts
  <2> QED BY <1>3, <2>1, <2>2, <2>3
<1>7. \A h \in Fetchers : /\ <<d, h, Domain>> \in R!Rows /\ <<d, h>> \in R!Jobs
                          /\ <<d, h, Domain>>[1] = d /\ <<d, h, Domain>>[2] = h
                          /\ <<d, h, Domain>>[3] = Domain
  BY <1>1 DEF R!Rows, R!Jobs
<1>8. db.jobs[<<d, f>>].status # "absent"
  <2>1. db.jobs[<<d, g>>].status # "absent"
    BY <1>1, <1>6, <1>7 DEF R!Sound, R!RowsHaveJobs
  <2> QED BY <1>1, <1>6, <2>1 DEF R!Sound, R!JobsTogether
<1>9. db.jobs[<<d, f>>].status # "open"
  <2>1. d \notin R!OpenDays(db)
    BY <1>1, <1>6, <1>7 DEF R!Sound, R!DataWhenDone
  <2> QED BY <1>1, <2>1 DEF R!OpenDays
<1>10. db.rows[<<d, f, Domain>>] # "listed"
  <2>1. <<d, f, Domain>> \in R!RowsOf(db, t)
    BY <1>4, <1>7 DEF R!RowsOf
  <2> QED BY <1>1, <1>2, <1>4, <2>1 DEF R!Sound, R!NothingAwaited
<1>11. CASE db.jobs[<<d, f>>].status = "ok"
  <2>1. R!Present(db, d, f) = R!Listed(f)
    BY <1>1, <1>11 DEF R!Sound, R!WholeLists
  <2>2. Domain \in R!Listed(f)
    BY DEF R!Listed
  <2>3. db.rows[<<d, f, Domain>>] # "absent"
    BY <2>1, <2>2 DEF R!Present
  <2>4. db.rows[<<d, f, Domain>>] \in R!RowStates
    BY <1>1, <1>7, Writes
  <2> QED BY <1>6, <1>10, <2>3, <2>4 DEF R!RowStates
<1>12. db.jobs[<<d, f>>].status \in {"absent", "open", "ok", "timedout"}
  BY <1>1, <1>7 DEF R!Databases, R!JobStates
<1> QED BY <1>8, <1>9, <1>11, <1>12

\* A report sums exactly the sessions that the collectds sealed, of the fetchers
\* that contribute, whatever became of their files (fetch_data, aggregation in
\* create_report_for, the rename in switch_to_next_day).
THEOREM ReportsSayWhatWasCounted == Spec => []ReportsAreExact
BY PipelineInvariance, ExactFollows, PTL

\* A fetcher is left out of a report only when its list was given up or its
\* details came too late (collect_domains, fetch_data, create_reports).
THEOREM NobodyIsForgotten == Spec => []NobodyForgotten
BY PipelineInvariance, NobodyFollows, PTL

\* What Reportd promises therefore holds here: no topic is reported twice,
\* whatever the collectds do to their files (check_day, create_reports).
THEOREM PipelineReportsOnce ==
    ASSUME KeepDays >= 2
    PROVE  Spec => []R!ReportedOnce
<1>1. RP!Spec => []RP!ReportedOnce
  BY RP!NothingReportedTwice, RPAssumptions
<1>2. R!Spec => RP!Spec
  BY SameStep, SameInit, PTL DEF R!Spec, RP!Spec
<1>3. RP!ReportedOnce => R!ReportedOnce
  BY DEF R!ReportedOnce, RP!ReportedOnce
<1> QED BY <1>1, <1>2, <1>3, PipelineImplementsReportd, PTL

=============================================================================
