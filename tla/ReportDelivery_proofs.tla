------------------------ MODULE ReportDelivery_proofs ------------------------
(***************************************************************************)
(* ReportDelivery keeps DeliveryInv, and with it implements                *)
(* DeliveryPromise, for all reports, records, destinations and options; and*)
(* how often it runs a script for a destination is bounded.                *)
(***************************************************************************)
EXTENDS ReportDelivery, TLAPS

USE RuasAssumption, UnknownAssumption, DeliveryOptions, DeliverySwitches

LEMMA TailElements ==
    ASSUME NEW S, NEW q \in Seq(S), q # <<>>
    PROVE  /\ Head(q) \in S /\ Tail(q) \in Seq(S)
           /\ Elements(q) = {Head(q)} \cup Elements(Tail(q))
<1>1. Len(q) \in Nat /\ Len(q) > 0 /\ DOMAIN q = 1 .. Len(q)
  OBVIOUS
<1>2. /\ Tail(q) \in Seq(S) /\ Len(Tail(q)) = Len(q) - 1
      /\ \A i \in 1 .. Len(q) - 1 : Tail(q)[i] = q[i + 1]
  BY <1>1
<1>3. DOMAIN Tail(q) = 1 .. Len(q) - 1
  BY <1>2
<1>4. Head(q) = q[1]
  OBVIOUS
<1>5. ASSUME NEW x \in Elements(q) PROVE x \in {Head(q)} \cup Elements(Tail(q))
  <2>1. PICK i \in 1 .. Len(q) : x = q[i]
    BY <1>1, <1>5 DEF Elements
  <2>2. CASE i = 1
    BY <2>1, <2>2, <1>4
  <2>3. CASE i # 1
    <3>1. i - 1 \in DOMAIN Tail(q) /\ Tail(q)[i - 1] = x
      BY <2>1, <2>3, <1>1, <1>2, <1>3
    <3> QED BY <3>1 DEF Elements
  <2> QED BY <2>2, <2>3
<1>6. ASSUME NEW x \in Elements(Tail(q)) PROVE x \in Elements(q)
  <2>1. PICK i \in 1 .. Len(q) - 1 : x = Tail(q)[i]
    BY <1>3, <1>6 DEF Elements
  <2>2. i + 1 \in DOMAIN q /\ q[i + 1] = x
    BY <2>1, <1>1, <1>2
  <2> QED BY <2>2 DEF Elements
<1>7. Head(q) \in Elements(q)
  BY <1>1, <1>4 DEF Elements
<1> QED BY <1>1, <1>2, <1>4, <1>5, <1>6, <1>7

\* The parts of DeliveryInv that speak of what each stage holds
Stages ==
    /\ CleanUpPending /\ RenderPending /\ NothingPending
    /\ CreateCursor /\ SendCursor /\ ResultIsTrue

\* The parts that speak of the committed database and of the scripts
Books == WholeReports /\ SentMeansDelivered /\ OrphansAreOwed

LEMMA InvParts == DeliveryInv <=> TypeOK /\ Books /\ Stages
BY DEF DeliveryInv, Books, Stages

LEMMA BooksKept ==
    ASSUME Books, UNCHANGED <<db, copies, orphans>> PROVE Books'
BY DEF Books, WholeReports, Whole, SentMeansDelivered, OrphansAreOwed, Keys, Addressed

LEMMA StagesKept ==
    ASSUME DeliveryInv, UNCHANGED <<pc, todo, cur, rest, view, db>>
    PROVE  /\ CleanUpPending' /\ RenderPending' /\ NothingPending'
           /\ CreateCursor' /\ SendCursor'
<1>1. CleanUpPending'
  BY DEF DeliveryInv, CleanUpPending, Whole, Addressed
<1>2. RenderPending'
  <2>1. Booked(view', cur') = Booked(view, cur) /\ Elements(rest') = Elements(rest)
    BY DEF Booked, Elements
  <2>2. SUFFICES ASSUME pc' = "render" PROVE RenderPending'
    BY DEF RenderPending
  <2>3. RenderPending /\ pc = "render"
    BY <2>2 DEF DeliveryInv
  <2>4. /\ cur' \in todo' /\ rest' \in Seq(Destinations)
        /\ view'.made = [db'.made EXCEPT ![cur'] = "made"]
        /\ \A k \in Keys : k[1] # cur' => view'.dest[k] = db'.dest[k]
    BY <2>3 DEF RenderPending
  <2>5. /\ Booked(view', cur') \cup Elements(rest') = Addressed[cur']
        /\ \A d \in Booked(view', cur') : view'.dest[<<cur', d>>] \in NewBookings
    BY <2>1, <2>3 DEF RenderPending
  <2> QED BY <2>4, <2>5 DEF RenderPending, Addressed, Booked, Elements, Keys, NewBookings
<1>3. NothingPending' /\ CreateCursor' /\ SendCursor'
  BY DEF DeliveryInv, NothingPending, CreateCursor, SendCursor, Serving, Keys
<1> QED BY <1>1, <1>2, <1>3

LEMMA CleanedUpFacts ==
    ASSUME NEW v \in Databases
    PROVE  /\ CleanedUp(v) \in Databases
           /\ \A rep \in Reports :
                  CleanedUp(v).made[rep] = IF rep \in old THEN "gone" ELSE v.made[rep]
           /\ \A k \in Keys :
                  CleanedUp(v).dest[k] = IF k[1] \in old THEN NoBooking ELSE v.dest[k]
BY DEF Databases, CleanedUp, Bookings, NoBooking

LEMMA RenderStep == ASSUME DeliveryInv, NEW rep \in Reports, Render(rep) PROVE DeliveryInv'
<1>2. Books'
  BY InvParts, BooksKept DEF Render, Stages, NothingPending, counters
<1>3. /\ view = db /\ db \in Databases
      /\ todo \subseteq Reports /\ \A r \in todo : db.made[r] = "data"
      /\ rep \in todo
  BY DEF DeliveryInv, Render, NothingPending, CreateCursor, TypeOK
<1>4. /\ cur' = rep /\ rest' = Ruas[rep] /\ pc' = "render"
      /\ view' = [db EXCEPT !.made[rep] = "made"]
      /\ UNCHANGED <<db, todo>>
  BY <1>3 DEF Render, counters
<1>5. /\ view'.made = [db.made EXCEPT ![rep] = "made"]
      /\ view'.dest = db.dest
  BY <1>3, <1>4 DEF Databases
<1>1. TypeOK'
  <2>1. view' \in Databases
    BY <1>3, <1>4 DEF Databases
  <2> QED BY <1>4, <2>1 DEF DeliveryInv, Render, TypeOK, Running, counters
<1>6. \A d \in Destinations : db.dest[<<rep, d>>].status = "absent"
  BY <1>3 DEF DeliveryInv, WholeReports, Whole
<1>7. RenderPending'
  <2>1. Booked(view', rep) = {}
    BY <1>5, <1>6 DEF Booked
  <2>2. Elements(Ruas[rep]) = Addressed[rep]
    BY DEF Elements, Addressed
  <2>3. Ruas[rep] \in Seq(Destinations)
    OBVIOUS
  <2> HIDE DEF Booked, Elements, Addressed
  <2>4. /\ cur' \in todo' /\ rest' \in Seq(Destinations)
        /\ view'.made = [db'.made EXCEPT ![cur'] = "made"]
        /\ \A k \in Keys : k[1] # cur' => view'.dest[k] = db'.dest[k]
    BY <1>3, <1>4, <1>5, <2>3
  <2>5. Booked(view', cur') \cup Elements(rest') = Addressed[cur']
    BY <1>4, <2>1, <2>2
  <2>6. \A d \in Booked(view', cur') : view'.dest[<<cur', d>>] \in NewBookings
    BY <1>4, <2>1
  <2> QED BY <2>4, <2>5, <2>6 DEF RenderPending, Addressed, Booked, Elements, Keys, NewBookings
<1>8. /\ CleanUpPending' /\ NothingPending' /\ CreateCursor' /\ SendCursor'
      /\ ResultIsTrue'
  BY <1>3, <1>4 DEF CleanUpPending, NothingPending, CreateCursor, SendCursor,
                    ResultIsTrue, Serving
<1> QED BY <1>1, <1>2, <1>7, <1>8 DEF DeliveryInv, Books

LEMMA CreateEndsStep == ASSUME DeliveryInv, CreateEnds PROVE DeliveryInv'
<1>1. TypeOK'
  BY InvParts DEF CreateEnds, TypeOK, Stages, NothingPending, Databases, Running, Halted, Serving, locals, counters, Vanish, Commit
<1>2. Books'
  BY InvParts, BooksKept DEF CreateEnds, Stages, NothingPending, locals, counters, Vanish, Commit
<1>3. Stages'
  BY InvParts DEF CreateEnds, Stages, CleanUpPending, RenderPending, NothingPending, CreateCursor, SendCursor, ResultIsTrue, Running, Halted, Serving, locals, counters, Commit, Vanish, Due, Keys
<1> QED BY <1>1, <1>2, <1>3 DEF DeliveryInv, Books, Stages

LEMMA RefuseRuaStep == ASSUME DeliveryInv, NEW k \in Keys, RefuseRua(k) PROVE DeliveryInv'
<1>1. TypeOK'
  BY InvParts DEF RefuseRua, TypeOK, Stages, NothingPending, Databases, Running, Halted, Serving, locals, counters, Vanish, Commit
<1>2. Books'
  BY InvParts, BooksKept DEF RefuseRua, Stages, NothingPending, locals, counters, Vanish, Commit
<1>3. Stages'
  BY InvParts DEF RefuseRua, Stages, CleanUpPending, RenderPending, NothingPending, CreateCursor, SendCursor, ResultIsTrue, Running, Halted, Serving, locals, counters, Commit, Vanish, Due, Keys
<1> QED BY <1>1, <1>2, <1>3 DEF DeliveryInv, Books, Stages

LEMMA StartScriptStep == ASSUME DeliveryInv, NEW k \in Keys, StartScript(k) PROVE DeliveryInv'
<1>1. TypeOK'
  BY InvParts DEF StartScript, TypeOK, Stages, NothingPending, Databases, Running, Halted, Serving, locals, counters, Vanish, Commit
<1>2. Books'
  BY InvParts, BooksKept DEF StartScript, Stages, NothingPending, locals, counters, Vanish, Commit
<1>3. Stages'
  BY InvParts DEF StartScript, Stages, CleanUpPending, RenderPending, NothingPending, CreateCursor, SendCursor, ResultIsTrue, Running, Halted, Serving, locals, counters, Commit, Vanish, Due, Keys
<1> QED BY <1>1, <1>2, <1>3 DEF DeliveryInv, Books, Stages

LEMMA ScriptReadsStep == ASSUME DeliveryInv, ScriptReads PROVE DeliveryInv'
<1>1. TypeOK'
  BY InvParts DEF ScriptReads, TypeOK, Stages, NothingPending, Databases, Running, Halted, Serving, locals, counters, Vanish, Commit
<1>2. Books'
  BY InvParts, BooksKept DEF ScriptReads, Stages, NothingPending, locals, counters, Vanish, Commit
<1>3. Stages'
  BY InvParts DEF ScriptReads, Stages, CleanUpPending, RenderPending, NothingPending, CreateCursor, SendCursor, ResultIsTrue, Running, Halted, Serving, locals, counters, Commit, Vanish, Due, Keys
<1> QED BY <1>1, <1>2, <1>3 DEF DeliveryInv, Books, Stages

LEMMA ScriptBlocksStep == ASSUME DeliveryInv, ScriptBlocks PROVE DeliveryInv'
<1>1. TypeOK'
  BY InvParts DEF ScriptBlocks, TypeOK, Stages, NothingPending, Databases, Running, Halted, Serving, locals, counters, Vanish, Commit
<1>2. Books'
  BY InvParts, BooksKept DEF ScriptBlocks, Stages, NothingPending, locals, counters, Vanish, Commit
<1>3. Stages'
  BY InvParts DEF ScriptBlocks, Stages, CleanUpPending, RenderPending, NothingPending, CreateCursor, SendCursor, ResultIsTrue, Running, Halted, Serving, locals, counters, Commit, Vanish, Due, Keys
<1> QED BY <1>1, <1>2, <1>3 DEF DeliveryInv, Books, Stages

LEMMA SendEndsStep == ASSUME DeliveryInv, SendEnds PROVE DeliveryInv'
<1>1. TypeOK'
  BY InvParts DEF SendEnds, TypeOK, Stages, NothingPending, Databases, Running, Halted, Serving, locals, counters, Vanish, Commit
<1>2. Books'
  BY InvParts, BooksKept DEF SendEnds, Stages, NothingPending, locals, counters, Vanish, Commit
<1>3. Stages'
  BY InvParts DEF SendEnds, Stages, CleanUpPending, RenderPending, NothingPending, CreateCursor, SendCursor, ResultIsTrue, Running, Halted, Serving, locals, counters, Commit, Vanish, Due, Keys
<1> QED BY <1>1, <1>2, <1>3 DEF DeliveryInv, Books, Stages

LEMMA WakeUpStep == ASSUME DeliveryInv, WakeUp PROVE DeliveryInv'
<1>1. TypeOK'
  BY InvParts DEF WakeUp, TypeOK, Stages, NothingPending, Databases, Running, Halted, Serving, locals, counters, Vanish, Commit
<1>2. Books'
  BY InvParts, BooksKept DEF WakeUp, Stages, NothingPending, locals, counters, Vanish, Commit
<1>3. Stages'
  BY InvParts DEF WakeUp, Stages, CleanUpPending, RenderPending, NothingPending, CreateCursor, SendCursor, ResultIsTrue, Running, Halted, Serving, locals, counters, Commit, Vanish, Due, Keys
<1> QED BY <1>1, <1>2, <1>3 DEF DeliveryInv, Books, Stages

LEMMA TerminateStep == ASSUME DeliveryInv, Terminate PROVE DeliveryInv'
<1>1. TypeOK'
  BY InvParts DEF Terminate, TypeOK, Stages, NothingPending, Databases, Running, Halted, Serving, locals, counters, Vanish, Commit
<1>2. Books'
  BY InvParts, BooksKept DEF Terminate, Stages, NothingPending, locals, counters, Vanish, Commit
<1>3. Stages'
  BY InvParts DEF Terminate, Stages, CleanUpPending, RenderPending, NothingPending, CreateCursor, SendCursor, ResultIsTrue, Running, Halted, Serving, locals, counters, Commit, Vanish, Due, Keys
<1> QED BY <1>1, <1>2, <1>3 DEF DeliveryInv, Books, Stages

LEMMA StartStep == ASSUME DeliveryInv, Start PROVE DeliveryInv'
<1>1. TypeOK'
  BY InvParts DEF Start, TypeOK, Stages, NothingPending, Databases, Running, Halted, Serving, locals, counters, Vanish, Commit
<1>2. Books'
  BY InvParts, BooksKept DEF Start, Stages, NothingPending, locals, counters, Vanish, Commit
<1>3. Stages'
  BY InvParts DEF Start, Stages, CleanUpPending, RenderPending, NothingPending, CreateCursor, SendCursor, ResultIsTrue, Running, Halted, Serving, locals, counters, Commit, Vanish, Due, Keys
<1> QED BY <1>1, <1>2, <1>3 DEF DeliveryInv, Books, Stages

LEMMA ExpireStep == ASSUME DeliveryInv, NEW rep \in Reports, Expire(rep) PROVE DeliveryInv'
<1>1. TypeOK'
  BY InvParts DEF Expire, TypeOK, Stages, NothingPending, Databases, Running, Halted, Serving, locals, counters, Vanish, Commit
<1>2. Books'
  BY InvParts, BooksKept DEF Expire, Stages, NothingPending, locals, counters, Vanish, Commit
<1>3. Stages'
  BY InvParts DEF Expire, Stages, CleanUpPending, RenderPending, NothingPending, CreateCursor, SendCursor, ResultIsTrue, Running, Halted, Serving, locals, counters, Commit, Vanish, Due, Keys
<1> QED BY <1>1, <1>2, <1>3 DEF DeliveryInv, Books, Stages

LEMMA BookDestinationStep == ASSUME DeliveryInv, BookDestination PROVE DeliveryInv'
<1> DEFINE d == Head(rest)
           k == <<cur, d>>
<1>0. [status |-> "open", retries |-> 0, later |-> TRUE] \in NewBookings
  BY DEF NewBookings
<1>1. PICK new \in NewBookings :
      /\ pc = "render" /\ rest # <<>>
      /\ rest' = Tail(rest)
      /\ UNCHANGED <<old, todo, cur, result, db, orphans, copies, runs, excuses, starts>>
      /\ \/ /\ view.dest[k].status = "absent"
            /\ view' = [view EXCEPT !.dest[k] = new]
            /\ pc' = pc
         \/ pc' = "exit" /\ view' = view
  BY <1>0 DEF BookDestination, counters
<1>2. /\ view \in Databases /\ db \in Databases
      /\ cur \in todo /\ rest \in Seq(Destinations)
      /\ view.made = [db.made EXCEPT ![cur] = "made"]
      /\ \A x \in Keys : x[1] # cur => view.dest[x] = db.dest[x]
      /\ Booked(view, cur) \cup Elements(rest) = Addressed[cur]
      /\ \A x \in Booked(view, cur) : view.dest[<<cur, x>>] \in NewBookings
      /\ todo \subseteq Reports /\ \A r \in todo : db.made[r] = "data"
  BY <1>1 DEF DeliveryInv, RenderPending, CreateCursor, TypeOK
<1>3. /\ d \in Destinations /\ Tail(rest) \in Seq(Destinations)
      /\ Elements(rest) = {d} \cup Elements(Tail(rest))
  BY <1>1, <1>2, TailElements
<1>4. k \in Keys
  BY <1>2, <1>3 DEF Keys
<1>5. view' \in Databases
  <2>1. new \in Bookings
    BY DEF NewBookings, Bookings
  <2>2. [view.dest EXCEPT ![k] = new] \in [Keys -> Bookings]
    BY <1>2, <2>1 DEF Databases
  <2>3. [view EXCEPT !.dest[k] = new] \in Databases
    BY <1>2, <2>2 DEF Databases
  <2> QED BY <1>1, <1>2, <2>3
<1>6. TypeOK'
  BY <1>1, <1>5 DEF DeliveryInv, TypeOK, Running, Halted
<1>7. Books'
  BY <1>1, BooksKept DEF DeliveryInv, Books
<1>8. RenderPending'
  <2>1. SUFFICES ASSUME pc' = "render" PROVE RenderPending'
    BY DEF RenderPending
  <2>2. view' = [view EXCEPT !.dest[k] = new] /\ view.dest[k].status = "absent"
    BY <1>1, <2>1
  <2> HIDE DEF d
  <2>3. /\ view'.made = view.made
        /\ view'.dest = [view.dest EXCEPT ![k] = new]
    BY <1>2, <2>2 DEF Databases
  <2>4. \A x \in Keys : x[1] # cur' => view'.dest[x] = db'.dest[x]
    BY <1>1, <1>2, <1>4, <2>3 DEF Databases
  <2>5. \A x \in Destinations :
            view'.dest[<<cur, x>>] = IF x = d THEN new ELSE view.dest[<<cur, x>>]
    BY <1>2, <1>4, <2>3 DEF Databases, Keys
  <2>6. Booked(view', cur) = Booked(view, cur) \cup {d}
    BY <1>3, <2>5 DEF Booked, NewBookings
  <2>7. Booked(view', cur) \cup Elements(Tail(rest)) = Addressed[cur]
    BY <1>2, <1>3, <2>6
  <2>8. \A x \in Booked(view', cur) : view'.dest[<<cur, x>>] \in NewBookings
    BY <1>2, <2>5, <2>6 DEF Booked
  <2>9. /\ cur' \in todo' /\ rest' \in Seq(Destinations)
        /\ view'.made = [db'.made EXCEPT ![cur'] = "made"]
    BY <1>1, <1>2, <1>3, <2>3
  <2>10. /\ Booked(view', cur') \cup Elements(rest') = Addressed[cur']
         /\ \A x \in Booked(view', cur') : view'.dest[<<cur', x>>] \in NewBookings
    BY <1>1, <2>7, <2>8
  <2> QED BY <2>4, <2>9, <2>10 DEF RenderPending, Addressed, Booked, Elements, Keys, NewBookings
<1>9. /\ CleanUpPending' /\ NothingPending' /\ CreateCursor' /\ SendCursor'
      /\ ResultIsTrue'
  BY <1>1, <1>2 DEF CleanUpPending, NothingPending, CreateCursor, SendCursor,
                    ResultIsTrue, Serving
<1> QED BY <1>6, <1>7, <1>8, <1>9 DEF DeliveryInv, Books

LEMMA DieStep == ASSUME DeliveryInv, Die PROVE DeliveryInv'
<1>1. TypeOK'
  BY InvParts DEF Die, TypeOK, Stages, NothingPending, Databases, Running, Halted, Serving, locals, counters, Vanish, Commit
<1>2. Books'
  BY InvParts, BooksKept DEF Die, Stages, NothingPending, locals, counters, Vanish, Commit
<1>3. Stages'
  BY InvParts DEF Die, Stages, CleanUpPending, RenderPending, NothingPending, CreateCursor, SendCursor, ResultIsTrue, Running, Halted, Serving, locals, counters, Commit, Vanish, Due, Keys
<1> QED BY <1>1, <1>2, <1>3 DEF DeliveryInv, Books, Stages

LEMMA CheckDayStep == ASSUME DeliveryInv, CheckDay PROVE DeliveryInv'
<1>1. /\ view = db /\ db \in Databases
      /\ Whole(db)
      /\ pc' = "collect" /\ view' = CleanedUp(db)
      /\ db' = db \/ db' = view'
      /\ UNCHANGED <<old, todo, cur, rest, result, orphans, copies, runs, excuses, starts>>
  BY DEF DeliveryInv, CheckDay, NothingPending, TypeOK, WholeReports, locals, counters
<1>2. /\ view' \in Databases
      /\ \A rep \in Reports :
             view'.made[rep] = IF rep \in old THEN "gone" ELSE db.made[rep]
      /\ \A k \in Keys :
             view'.dest[k] = IF k[1] \in old THEN NoBooking ELSE db.dest[k]
  BY <1>1, CleanedUpFacts
<1>3. TypeOK'
  BY <1>1, <1>2 DEF DeliveryInv, TypeOK, Running
<1>4. Whole(view') /\ Whole(db')
  <2>1. \A rep \in Reports, d \in Destinations : <<rep, d>> \in Keys
    BY DEF Keys
  <2>2. ASSUME NEW rep \in Reports, NEW d \in Destinations
        PROVE  view'.dest[<<rep, d>>].status # "absent"
                   <=> view'.made[rep] = "made" /\ d \in Addressed[rep]
    <3>1. /\ view'.made[rep] = IF rep \in old THEN "gone" ELSE db.made[rep]
          /\ view'.dest[<<rep, d>>] = IF rep \in old THEN NoBooking ELSE db.dest[<<rep, d>>]
      BY <1>2, <2>1
    <3> QED BY <1>1, <3>1 DEF Whole, NoBooking
  <2>3. Whole(view')
    BY <2>2 DEF Whole
  <2> QED BY <1>1, <2>3
<1>5. Books'
  <2>1. SentMeansDelivered'
    BY <1>1, <1>2 DEF DeliveryInv, SentMeansDelivered, NoBooking, Keys
  <2>2. OrphansAreOwed'
    <3>1. ASSUME NEW k \in Keys, orphans[k] > 0
          PROVE  db'.made[k[1]] = "gone" \/ db'.dest[k].status # "absent"
      <4>1. db.made[k[1]] = "gone" \/ db.dest[k].status # "absent"
        BY <3>1 DEF DeliveryInv, OrphansAreOwed
      <4>2. k[1] \in Reports
        BY DEF Keys
      <4> QED BY <1>1, <1>2, <4>1, <4>2
    <3> QED BY <1>1, <3>1 DEF OrphansAreOwed, Keys
  <2> QED BY <1>4, <2>1, <2>2 DEF Books, WholeReports, Whole, Addressed
<1>6. CleanUpPending'
  <2>1. \A rep \in Reports :
            \/ view'.made[rep] = "gone"
            \/ /\ view'.made[rep] = db'.made[rep]
               /\ \A d \in Destinations : view'.dest[<<rep, d>>] = db'.dest[<<rep, d>>]
    BY <1>1, <1>2 DEF Keys
  <2> QED BY <1>4, <2>1 DEF CleanUpPending, Whole, Addressed
<1>7. /\ RenderPending' /\ NothingPending' /\ CreateCursor' /\ SendCursor'
      /\ ResultIsTrue'
  BY <1>1 DEF RenderPending, NothingPending, CreateCursor, SendCursor,
              ResultIsTrue, Serving
<1> QED BY <1>3, <1>5, <1>6, <1>7 DEF DeliveryInv, Books

LEMMA CollectStep ==
    ASSUME DeliveryInv, NEW complete \in SUBSET Reports, Collect(complete)
    PROVE  DeliveryInv'
<1>1. /\ view \in Databases /\ db \in Databases /\ Whole(view) /\ Whole(db)
      /\ \A rep \in Reports :
             \/ view.made[rep] = "gone"
             \/ /\ view.made[rep] = db.made[rep]
                /\ \A d \in Destinations : view.dest[<<rep, d>>] = db.dest[<<rep, d>>]
      /\ pc' = "create"
      /\ todo' = {rep \in Reports : view'.made[rep] = "data"}
      /\ \A rep \in complete : view.made[rep] = "none"
      /\ view' = [view EXCEPT !.made =
                     [rep \in Reports |-> IF rep \in complete THEN "data" ELSE @[rep]]]
      /\ db' = view'
      /\ UNCHANGED <<old, cur, rest, result, orphans, copies, runs, excuses, starts>>
  BY DEF DeliveryInv, Collect, CleanUpPending, TypeOK, WholeReports, locals, counters
<1>2. /\ view' \in Databases
      /\ view'.dest = view.dest
      /\ \A rep \in Reports :
             view'.made[rep] = IF rep \in complete THEN "data" ELSE view.made[rep]
  BY <1>1 DEF Databases
<1>3. TypeOK'
  BY <1>1, <1>2 DEF DeliveryInv, TypeOK, Running
<1>4. Whole(db')
  <2>1. ASSUME NEW rep \in Reports, NEW d \in Destinations
        PROVE  view'.dest[<<rep, d>>].status # "absent"
                   <=> view'.made[rep] = "made" /\ d \in Addressed[rep]
    BY <1>1, <1>2 DEF Whole
  <2>2. Whole(view')
    BY <2>1 DEF Whole
  <2> QED BY <1>1, <2>2
<1>5. Books'
  <2>1. \A k \in Keys : k[1] \in Reports /\ k[2] \in Destinations /\ k = <<k[1], k[2]>>
    BY DEF Keys
  <2>2. \A k \in Keys :
            \/ view.made[k[1]] = "gone" /\ view.dest[k].status = "absent"
            \/ view.made[k[1]] = db.made[k[1]] /\ view.dest[k] = db.dest[k]
    BY <1>1, <2>1 DEF Whole
  <2>3. SentMeansDelivered'
    BY <1>1, <1>2, <2>2 DEF DeliveryInv, SentMeansDelivered, Keys
  <2>4. OrphansAreOwed'
    <3>1. ASSUME NEW k \in Keys, orphans[k] > 0
          PROVE  db'.made[k[1]] = "gone" \/ db'.dest[k].status # "absent"
      <4>1. db.made[k[1]] = "gone" \/ db.dest[k].status # "absent"
        BY <3>1 DEF DeliveryInv, OrphansAreOwed
      <4>2. CASE view.made[k[1]] = "gone"
        BY <1>1, <1>2, <2>1, <4>2
      <4>3. CASE view.made[k[1]] = db.made[k[1]] /\ view.dest[k] = db.dest[k]
        BY <1>1, <1>2, <2>1, <4>1, <4>3
      <4> QED BY <2>2, <4>2, <4>3
    <3> QED BY <1>1, <3>1 DEF OrphansAreOwed, Keys
  <2> QED BY <1>4, <2>3, <2>4 DEF Books, WholeReports, Whole, Addressed
<1>6. Stages'
  BY <1>1 DEF Stages, CleanUpPending, RenderPending, NothingPending, CreateCursor,
              SendCursor, ResultIsTrue, Serving
<1> QED BY <1>3, <1>5, <1>6 DEF DeliveryInv, Books, Stages

LEMMA ReportDoneStep == ASSUME DeliveryInv, ReportDone PROVE DeliveryInv'
<1>1. /\ view \in Databases /\ db \in Databases
      /\ Whole(db)
      /\ cur \in todo /\ rest = <<>>
      /\ view.made = [db.made EXCEPT ![cur] = "made"]
      /\ \A k \in Keys : k[1] # cur => view.dest[k] = db.dest[k]
      /\ Booked(view, cur) \cup Elements(rest) = Addressed[cur]
      /\ \A d \in Booked(view, cur) : view.dest[<<cur, d>>] \in NewBookings
      /\ todo \subseteq Reports /\ \A r \in todo : db.made[r] = "data"
      /\ pc' = "create" /\ todo' = todo \ {cur} /\ db' = view /\ view' = view
      /\ UNCHANGED <<old, cur, rest, result, orphans, copies, runs, excuses, starts>>
  BY DEF DeliveryInv, ReportDone, RenderPending, CreateCursor, TypeOK, WholeReports,
         Commit, locals, counters
<1>2. TypeOK'
  BY <1>1 DEF DeliveryInv, TypeOK, Running
<1>3. \A rep \in Reports : view.made[rep] = IF rep = cur THEN "made" ELSE db.made[rep]
  BY <1>1 DEF Databases
<1>4. Elements(rest) = {}
  BY <1>1 DEF Elements
<1>5. Whole(db')
  <2>1. \A rep \in Reports, d \in Destinations : <<rep, d>> \in Keys
    BY DEF Keys
  <2>2. \A d \in Destinations :
            view.dest[<<cur, d>>].status # "absent" <=> d \in Addressed[cur]
    BY <1>1, <1>4 DEF Booked
  <2>3. \A rep \in Reports, d \in Destinations :
            rep # cur => view.dest[<<rep, d>>] = db.dest[<<rep, d>>]
    BY <1>1, <2>1
  <2>4. ASSUME NEW rep \in Reports, NEW d \in Destinations
        PROVE  view.dest[<<rep, d>>].status # "absent"
                   <=> view.made[rep] = "made" /\ d \in Addressed[rep]
    <3>1. CASE rep = cur
      BY <1>3, <2>2, <3>1
    <3>2. CASE rep # cur
      BY <1>1, <1>3, <2>3, <3>2 DEF Whole
    <3> QED BY <3>1, <3>2
  <2> QED BY <1>1, <2>4 DEF Whole
<1>6. \A k \in Keys :
          \/ view.dest[k] = db.dest[k] /\ view.made[k[1]] = db.made[k[1]]
          \/ /\ k[1] = cur /\ db.dest[k].status = "absent" /\ db.made[k[1]] = "data"
             /\ view.dest[k].status \in {"absent", "open"}
  <2>1. ASSUME NEW k \in Keys, k[1] = cur
        PROVE  /\ db.dest[k].status = "absent" /\ db.made[k[1]] = "data"
               /\ view.dest[k].status \in {"absent", "open"}
    <3>1. k = <<cur, k[2]>> /\ k[2] \in Destinations
      BY <2>1 DEF Keys
    <3>2. db.dest[<<cur, k[2]>>].status = "absent" /\ db.made[cur] = "data"
      BY <1>1, <3>1 DEF Whole
    <3>3. view.dest[<<cur, k[2]>>].status \in {"absent", "open"}
      BY <1>1, <3>1 DEF Booked, NewBookings
    <3> QED BY <2>1, <3>1, <3>2, <3>3
  <2>2. ASSUME NEW k \in Keys, k[1] # cur
        PROVE  view.dest[k] = db.dest[k] /\ view.made[k[1]] = db.made[k[1]]
    BY <1>1, <1>3, <2>2 DEF Keys
  <2> QED BY <2>1, <2>2
<1>7. SentMeansDelivered' /\ OrphansAreOwed'
  <2>1. SentMeansDelivered'
    BY <1>1, <1>6 DEF DeliveryInv, SentMeansDelivered, Keys
  <2>2. OrphansAreOwed'
    <3>1. ASSUME NEW k \in Keys, orphans[k] > 0
          PROVE  db'.made[k[1]] = "gone" \/ db'.dest[k].status # "absent"
      <4>1. db.made[k[1]] = "gone" \/ db.dest[k].status # "absent"
        BY <3>1 DEF DeliveryInv, OrphansAreOwed
      <4> QED BY <1>1, <1>6, <4>1
    <3> QED BY <1>1, <3>1 DEF OrphansAreOwed, Keys
  <2> QED BY <2>1, <2>2
<1>8. CreateCursor'
  BY <1>1, <1>3 DEF CreateCursor
<1>9. /\ CleanUpPending' /\ RenderPending' /\ NothingPending' /\ SendCursor'
      /\ ResultIsTrue'
  BY <1>1 DEF CleanUpPending, RenderPending, NothingPending, SendCursor,
              ResultIsTrue, Serving
<1> QED BY <1>2, <1>5, <1>7, <1>8, <1>9 DEF DeliveryInv, WholeReports, Whole, Addressed

LEMMA ScriptSucceedsStep == ASSUME DeliveryInv, ScriptSucceeds PROVE DeliveryInv'
<1>1. /\ cur \in Keys /\ cur \in todo
      /\ copies \in [Keys -> Nat]
      /\ copies' = [copies EXCEPT ![cur] = @ + 1]
      /\ result' = "sent" /\ pc' = "record" /\ pc = "wait"
      /\ UNCHANGED <<old, todo, cur, rest, view, db, orphans, runs, excuses, starts>>
  BY DEF DeliveryInv, ScriptSucceeds, SendCursor, Serving, TypeOK
<1>2. \A k \in Keys : copies'[k] \in Nat /\ copies'[k] >= copies[k]
  BY <1>1
<1>3. TypeOK'
  BY <1>1, <1>2 DEF DeliveryInv, TypeOK, Running
<1>4. SentMeansDelivered' /\ ResultIsTrue'
  BY <1>1, <1>2 DEF DeliveryInv, SentMeansDelivered, ResultIsTrue, Keys
<1>5. WholeReports' /\ OrphansAreOwed'
  BY <1>1 DEF DeliveryInv, WholeReports, Whole, OrphansAreOwed, Keys, Addressed
<1>6. /\ CleanUpPending' /\ RenderPending' /\ NothingPending' /\ CreateCursor'
      /\ SendCursor'
  BY <1>1 DEF DeliveryInv, CleanUpPending, RenderPending, NothingPending, CreateCursor,
              SendCursor, Serving, Keys
<1> QED BY <1>3, <1>4, <1>5, <1>6 DEF DeliveryInv

LEMMA ScriptFailsStep == ASSUME DeliveryInv, ScriptFails PROVE DeliveryInv'
<1>1. /\ cur \in Keys /\ cur \in todo
      /\ copies \in [Keys -> Nat] /\ excuses \in [Keys -> Nat]
      /\ \/ copies' = copies /\ excuses' = excuses
         \/ /\ copies' = [copies EXCEPT ![cur] = @ + 1]
            /\ excuses' = [excuses EXCEPT ![cur] = @ + 1]
      /\ result' = "tryagain" /\ pc' = "record" /\ pc = "wait"
      /\ UNCHANGED <<old, todo, cur, rest, view, db, orphans, runs, starts>>
  BY DEF DeliveryInv, ScriptFails, SendCursor, Serving, TypeOK
<1>2. /\ copies' \in [Keys -> Nat] /\ excuses' \in [Keys -> Nat]
      /\ \A k \in Keys : copies'[k] >= copies[k]
  <2>1. CASE copies' = copies /\ excuses' = excuses
    BY <1>1, <2>1
  <2>2. CASE /\ copies' = [copies EXCEPT ![cur] = @ + 1]
             /\ excuses' = [excuses EXCEPT ![cur] = @ + 1]
    BY <1>1, <2>2
  <2> QED BY <1>1, <2>1, <2>2
<1>3. TypeOK'
  BY <1>1, <1>2 DEF DeliveryInv, TypeOK, Running
<1>4. SentMeansDelivered' /\ ResultIsTrue'
  BY <1>1, <1>2 DEF DeliveryInv, SentMeansDelivered, ResultIsTrue, Keys
<1>5. WholeReports' /\ OrphansAreOwed'
  BY <1>1 DEF DeliveryInv, WholeReports, Whole, OrphansAreOwed, Keys, Addressed
<1>6. /\ CleanUpPending' /\ RenderPending' /\ NothingPending' /\ CreateCursor'
      /\ SendCursor'
  BY <1>1 DEF DeliveryInv, CleanUpPending, RenderPending, NothingPending, CreateCursor,
              SendCursor, Serving, Keys
<1> QED BY <1>3, <1>4, <1>5, <1>6 DEF DeliveryInv

\* A script can only be left behind for a destination that is booked.
LEMMA OneMoreOrphan ==
    ASSUME DeliveryInv, pc \in Serving,
           orphans' = [orphans EXCEPT ![cur] = @ + 1],
           excuses' = [excuses EXCEPT ![cur] = @ + 1],
           UNCHANGED <<db, copies>>
    PROVE  /\ orphans' \in [Keys -> Nat] /\ excuses' \in [Keys -> Nat]
           /\ Books'
<1>1. /\ cur \in Keys /\ db.dest[cur].status = "open"
      /\ orphans \in [Keys -> Nat] /\ excuses \in [Keys -> Nat]
  BY DEF DeliveryInv, SendCursor, TypeOK
<1>2. /\ orphans' \in [Keys -> Nat] /\ excuses' \in [Keys -> Nat]
      /\ \A k \in Keys : k # cur => orphans'[k] = orphans[k]
  BY <1>1
<1>3. OrphansAreOwed'
  BY <1>1, <1>2 DEF DeliveryInv, OrphansAreOwed, Keys
<1>4. WholeReports' /\ SentMeansDelivered'
  BY DEF DeliveryInv, WholeReports, Whole, SentMeansDelivered, Keys, Addressed
<1> QED BY <1>2, <1>3, <1>4 DEF Books

LEMMA ScriptTimesOutStep == ASSUME DeliveryInv, ScriptTimesOut PROVE DeliveryInv'
<1>1. /\ pc \in Serving /\ pc = "wait"
      /\ orphans' = [orphans EXCEPT ![cur] = @ + 1]
      /\ excuses' = [excuses EXCEPT ![cur] = @ + 1]
      /\ result' = "tryagain" /\ pc' = "record"
      /\ UNCHANGED <<old, todo, cur, rest, view, db, copies, runs, starts>>
  BY DEF ScriptTimesOut, Serving
<1>2. /\ orphans' \in [Keys -> Nat] /\ excuses' \in [Keys -> Nat]
      /\ Books'
  BY <1>1, OneMoreOrphan
<1>3. TypeOK'
  BY <1>1, <1>2 DEF DeliveryInv, TypeOK, Running
<1>4. Stages'
  BY <1>1 DEF DeliveryInv, Stages, CleanUpPending, RenderPending, NothingPending,
              CreateCursor, SendCursor, ResultIsTrue, Serving, Keys
<1> QED BY <1>2, <1>3, <1>4 DEF DeliveryInv, Books, Stages

LEMMA ScriptBreaksOffStep == ASSUME DeliveryInv, ScriptBreaksOff PROVE DeliveryInv'
<1>1. /\ pc \in Serving /\ pc = "write"
      /\ \/ UNCHANGED <<orphans, excuses>>
         \/ /\ orphans' = [orphans EXCEPT ![cur] = @ + 1]
            /\ excuses' = [excuses EXCEPT ![cur] = @ + 1]
      /\ result' = "tryagain" /\ pc' = "record"
      /\ UNCHANGED <<old, todo, cur, rest, view, db, copies, runs, starts>>
  BY DEF ScriptBreaksOff, Serving
<1>2. orphans' \in [Keys -> Nat] /\ excuses' \in [Keys -> Nat] /\ Books'
  <2>1. CASE UNCHANGED <<orphans, excuses>>
    BY <1>1, <2>1, BooksKept DEF DeliveryInv, TypeOK, Books
  <2>2. CASE /\ orphans' = [orphans EXCEPT ![cur] = @ + 1]
             /\ excuses' = [excuses EXCEPT ![cur] = @ + 1]
    BY <1>1, <2>2, OneMoreOrphan
  <2> QED BY <1>1, <2>1, <2>2
<1>3. TypeOK'
  BY <1>1, <1>2 DEF DeliveryInv, TypeOK, Running
<1>4. Stages'
  BY <1>1 DEF DeliveryInv, Stages, CleanUpPending, RenderPending, NothingPending,
              CreateCursor, SendCursor, ResultIsTrue, Serving, Keys
<1> QED BY <1>2, <1>3, <1>4 DEF DeliveryInv, Books, Stages

LEMMA DecidedFacts ==
    ASSUME NEW booking \in Bookings,
           NEW outcome \in {"sent", "unknownrua", "tryagain"},
           booking.status = "open"
    PROVE  /\ Decided(booking, outcome) \in Bookings
           /\ Decided(booking, outcome).status # "absent"
           /\ Decided(booking, outcome).status = "sent" => outcome = "sent"
           /\ Decided(booking, outcome).status = "open" => outcome = "tryagain"
<1>1. CASE outcome # "tryagain"
  BY <1>1 DEF Decided, Bookings
<1>2. CASE outcome = "tryagain" /\ booking.retries < MaxRetries
  <2>1. Decided(booking, outcome) =
            [booking EXCEPT !.retries = booking.retries + 1, !.later = TRUE]
    BY <1>2 DEF Decided
  <2>2. booking.retries + 1 \in 0 .. MaxRetries
    BY <1>2 DEF Bookings
  <2> QED BY <1>2, <2>1, <2>2 DEF Bookings
<1>3. CASE outcome = "tryagain" /\ ~(booking.retries < MaxRetries)
  <2>1. Decided(booking, outcome) = [booking EXCEPT !.status = "timedout"]
    BY <1>3 DEF Decided
  <2> QED BY <1>3, <2>1 DEF Bookings
<1> QED BY <1>1, <1>2, <1>3

LEMMA RecordFacts ==
    ASSUME DeliveryInv, Record
    PROVE  /\ view = db /\ cur \in Keys /\ db \in Databases
           /\ db.dest[cur].status = "open"
           /\ view' \in Databases /\ db' = view'
           /\ db'.made = db.made
           /\ db'.dest = [db.dest EXCEPT ![cur] = Decided(db.dest[cur], result)]
           /\ Decided(db.dest[cur], result) \in Bookings
           /\ Decided(db.dest[cur], result).status # "absent"
           /\ Decided(db.dest[cur], result).status = "sent" => copies[cur] > 0
<1>1. /\ view = db /\ db \in Databases /\ cur \in Keys
      /\ db.dest[cur].status = "open"
      /\ result \in {"sent", "unknownrua", "tryagain"}
      /\ result = "sent" => copies[cur] > 0
      /\ view' = [db EXCEPT !.dest[cur] = Decided(db.dest[cur], result)]
      /\ db' = view'
  BY DEF DeliveryInv, Record, NothingPending, SendCursor, ResultIsTrue, TypeOK
<1>2. db.dest[cur] \in Bookings
  BY <1>1 DEF Databases
<1>3. /\ Decided(db.dest[cur], result) \in Bookings
      /\ Decided(db.dest[cur], result).status # "absent"
      /\ Decided(db.dest[cur], result).status = "sent" => result = "sent"
  BY <1>1, <1>2, DecidedFacts
<1>4. [db.dest EXCEPT ![cur] = Decided(db.dest[cur], result)] \in [Keys -> Bookings]
  BY <1>1, <1>3 DEF Databases
<1>5. /\ view'.made = db.made
      /\ view'.dest = [db.dest EXCEPT ![cur] = Decided(db.dest[cur], result)]
      /\ view' \in Databases
  BY <1>1, <1>4 DEF Databases
<1> QED BY <1>1, <1>3, <1>5

LEMMA RecordStep == ASSUME DeliveryInv, Record PROVE DeliveryInv'
<1>1. /\ pc = "record" /\ pc' = "send" /\ todo' = todo \ {cur}
      /\ UNCHANGED <<old, cur, rest, result, orphans, copies, runs, excuses, starts>>
  BY DEF Record, locals, counters
<1> DEFINE new == Decided(db.dest[cur], result)
<1>2. /\ view = db /\ cur \in Keys /\ db \in Databases
      /\ db.dest[cur].status = "open"
      /\ view' \in Databases /\ db' = view' /\ db'.made = db.made
      /\ db'.dest = [db.dest EXCEPT ![cur] = new]
      /\ new.status # "absent"
      /\ new.status = "sent" => copies[cur] > 0
  BY RecordFacts
<1> HIDE DEF new
<1>3. \A k \in Keys : db'.dest[k] = IF k = cur THEN new ELSE db.dest[k]
  BY <1>2 DEF Databases
<1>4. TypeOK'
  BY <1>1, <1>2 DEF DeliveryInv, TypeOK, Running
<1>5. WholeReports'
  <2>1. ASSUME NEW rep \in Reports, NEW d \in Destinations
        PROVE  db'.dest[<<rep, d>>].status # "absent"
                   <=> db'.made[rep] = "made" /\ d \in Addressed[rep]
    <3>1. <<rep, d>> \in Keys
      BY DEF Keys
    <3>2. db.dest[<<rep, d>>].status # "absent"
              <=> db.made[rep] = "made" /\ d \in Addressed[rep]
      BY DEF DeliveryInv, WholeReports, Whole
    <3>3. db'.dest[<<rep, d>>].status # "absent" <=> db.dest[<<rep, d>>].status # "absent"
      BY <1>2, <1>3, <3>1
    <3> QED BY <1>2, <3>2, <3>3
  <2> QED BY <2>1 DEF WholeReports, Whole, Addressed
<1>6. SentMeansDelivered' /\ OrphansAreOwed'
  BY <1>1, <1>2, <1>3 DEF DeliveryInv, SentMeansDelivered, OrphansAreOwed, Keys
<1>7. SendCursor'
  BY <1>1, <1>2, <1>3 DEF DeliveryInv, SendCursor, Serving, Keys
<1>8. /\ CleanUpPending' /\ RenderPending' /\ NothingPending' /\ CreateCursor'
      /\ ResultIsTrue'
  BY <1>1, <1>2 DEF CleanUpPending, RenderPending, NothingPending, CreateCursor,
                    ResultIsTrue
<1> QED BY <1>4, <1>5, <1>6, <1>7, <1>8 DEF DeliveryInv

LEMMA CrashStep == ASSUME DeliveryInv, Crash PROVE DeliveryInv'
<1>1. /\ pc' = "crashed" /\ view' = db /\ todo' = {}
      /\ UNCHANGED <<old, cur, rest, result, db, copies, runs, starts>>
  BY DEF Crash, Vanish, locals
<1>2. /\ orphans' \in [Keys -> Nat] /\ excuses' \in [Keys -> Nat]
      /\ Books'
  <2>1. CASE pc \in Serving
    <3>1. /\ orphans' = [orphans EXCEPT ![cur] = @ + 1]
          /\ excuses' = [excuses EXCEPT ![cur] = @ + 1]
      BY <2>1 DEF Crash
    <3> QED BY <1>1, <2>1, <3>1, OneMoreOrphan
  <2>2. CASE pc \notin Serving
    <3>1. orphans' = orphans /\ orphans \in [Keys -> Nat] /\ excuses \in [Keys -> Nat]
      BY <2>2 DEF Crash, DeliveryInv, TypeOK
    <3>2. excuses' \in [Keys -> Nat]
      <4>1. excuses' = excuses \/ (pc = "record" /\ excuses' = [excuses EXCEPT ![cur] = @ + 1])
        BY <2>2 DEF Crash
      <4>2. pc = "record" => cur \in Keys
        BY DEF DeliveryInv, SendCursor
      <4> QED BY <3>1, <4>1, <4>2
    <3> QED BY <1>1, <3>1, <3>2, BooksKept DEF DeliveryInv, Books
  <2> QED BY <2>1, <2>2
<1>3. TypeOK'
  BY <1>1, <1>2 DEF DeliveryInv, TypeOK, Halted
<1>4. Stages'
  BY <1>1 DEF Stages, CleanUpPending, RenderPending, NothingPending, CreateCursor,
              SendCursor, ResultIsTrue, Serving
<1> QED BY <1>2, <1>3, <1>4 DEF DeliveryInv, Books, Stages

LEMMA OrphanEndsStep == ASSUME DeliveryInv, NEW k \in Keys, OrphanEnds(k) PROVE DeliveryInv'
<1>1. /\ orphans \in [Keys -> Nat] /\ copies \in [Keys -> Nat]
      /\ orphans[k] > 0
      /\ orphans' = [orphans EXCEPT ![k] = @ - 1]
      /\ copies' = copies \/ copies' = [copies EXCEPT ![k] = @ + 1]
      /\ UNCHANGED <<old, pc, todo, cur, rest, result, view, db, runs, excuses, starts>>
  BY DEF DeliveryInv, TypeOK, OrphanEnds, locals
<1>2. /\ orphans' \in [Keys -> Nat] /\ copies' \in [Keys -> Nat]
      /\ \A x \in Keys : copies'[x] >= copies[x] /\ orphans'[x] <= orphans[x]
  BY <1>1
<1>3. TypeOK'
  BY <1>1, <1>2 DEF DeliveryInv, TypeOK
<1>4. ResultIsTrue'
  <2>1. pc = "record" => cur \in Keys
    BY DEF DeliveryInv, SendCursor
  <2> QED BY <1>1, <1>2, <2>1 DEF DeliveryInv, ResultIsTrue
<1>5. SentMeansDelivered' /\ OrphansAreOwed'
  <2>1. SentMeansDelivered'
    BY <1>1, <1>2 DEF DeliveryInv, SentMeansDelivered, Keys
  <2>2. ASSUME NEW x \in Keys, orphans'[x] > 0
        PROVE  db'.made[x[1]] = "gone" \/ db'.dest[x].status # "absent"
    <3>1. orphans[x] > 0
      BY <1>1, <1>2, <2>2
    <3> QED BY <1>1, <3>1 DEF DeliveryInv, OrphansAreOwed
  <2> QED BY <2>1, <2>2 DEF OrphansAreOwed, Keys
<1>6. WholeReports'
  BY <1>1 DEF DeliveryInv, WholeReports, Whole, Addressed
<1>7. /\ CleanUpPending' /\ RenderPending' /\ NothingPending' /\ CreateCursor'
      /\ SendCursor'
  BY <1>1, StagesKept
<1> QED BY <1>3, <1>4, <1>5, <1>6, <1>7 DEF DeliveryInv

LEMMA FallsDueStep == ASSUME DeliveryInv, NEW k \in Keys, FallsDue(k) PROVE DeliveryInv'
<1>1. /\ pc \in Halted \cup {"sleep"} /\ pc' = pc /\ view = db /\ db \in Databases
      /\ view' = [db EXCEPT !.dest[k].later = FALSE] /\ db' = view'
      /\ UNCHANGED <<old, todo, cur, rest, result, orphans, copies, runs, excuses, starts>>
  BY DEF DeliveryInv, TypeOK, FallsDue, NothingPending, Halted, locals, counters
<1> DEFINE due == [db.dest[k] EXCEPT !.later = FALSE]
<1>2. /\ due \in Bookings /\ due.status = db.dest[k].status
  BY <1>1 DEF Databases, Bookings
<1>3. view' = [db EXCEPT !.dest = [db.dest EXCEPT ![k] = due]]
  BY <1>1 DEF Databases
<1> HIDE DEF due
<1>4. [db.dest EXCEPT ![k] = due] \in [Keys -> Bookings]
  BY <1>1, <1>2 DEF Databases
<1>5. /\ view' \in Databases /\ db'.made = db.made
      /\ \A x \in Keys : db'.dest[x].status = db.dest[x].status
  BY <1>1, <1>2, <1>3, <1>4 DEF Databases
<1>6. TypeOK'
  BY <1>1, <1>5 DEF DeliveryInv, TypeOK
<1>7. Books'
  <2>1. \A rep \in Reports, d \in Destinations : <<rep, d>> \in Keys
    BY DEF Keys
  <2>2. WholeReports'
    BY <1>5, <2>1 DEF DeliveryInv, WholeReports, Whole, Addressed
  <2>3. SentMeansDelivered' /\ OrphansAreOwed'
    BY <1>1, <1>5 DEF DeliveryInv, SentMeansDelivered, OrphansAreOwed, Keys
  <2> QED BY <2>2, <2>3 DEF Books
<1>8. Stages'
  BY <1>1 DEF Stages, CleanUpPending, RenderPending, NothingPending, CreateCursor,
              SendCursor, ResultIsTrue, Serving, Halted
<1> QED BY <1>6, <1>7, <1>8 DEF DeliveryInv, Books, Stages

LEMMA DeliveryInvInit == Init => DeliveryInv
<1> SUFFICES ASSUME Init PROVE DeliveryInv
  OBVIOUS
<1>1. TypeOK
  BY DEF Init, TypeOK, Databases, Bookings, NoBooking, Halted
<1>2. Books
  BY DEF Init, Books, WholeReports, Whole, SentMeansDelivered, OrphansAreOwed,
         NoBooking, Keys
<1>3. Stages
  BY DEF Init, Stages, CleanUpPending, RenderPending, NothingPending, CreateCursor,
         SendCursor, ResultIsTrue, Serving
<1> QED BY <1>1, <1>2, <1>3 DEF DeliveryInv, Books, Stages

LEMMA DeliveryInvStep == DeliveryInv /\ [Next]_vars => DeliveryInv'
<1> SUFFICES ASSUME DeliveryInv, [Next]_vars PROVE DeliveryInv'
  OBVIOUS
<1>1. CASE UNCHANGED vars
  <2>1. TypeOK'
    BY <1>1 DEF vars, DeliveryInv, TypeOK
  <2>2. Books'
    BY <1>1, BooksKept DEF vars, DeliveryInv, Books
  <2>3. Stages'
    <3>1. ResultIsTrue'
      BY <1>1 DEF vars, DeliveryInv, ResultIsTrue
    <3> QED BY <1>1, <3>1, StagesKept DEF vars, Stages
  <2> QED BY <2>1, <2>2, <2>3 DEF DeliveryInv, Books, Stages
<1>2. CASE RunLoop
  BY <1>2, CheckDayStep, CollectStep, RenderStep, BookDestinationStep, ReportDoneStep,
     CreateEndsStep, RefuseRuaStep, StartScriptStep, ScriptReadsStep, ScriptBreaksOffStep,
     ScriptSucceedsStep, ScriptFailsStep, ScriptTimesOutStep, RecordStep, SendEndsStep,
     DieStep
     DEF RunLoop
<1>3. CASE Surroundings
  BY <1>3, ScriptBlocksStep, WakeUpStep, TerminateStep, CrashStep, StartStep,
     OrphanEndsStep, FallsDueStep, ExpireStep
     DEF Surroundings
<1> QED BY <1>1, <1>2, <1>3 DEF Next

\* What is pending in the transaction and held in the cursors is always as
\* DeliveryInv says.
THEOREM DeliveryInvariance == Spec => []DeliveryInv
BY DeliveryInvInit, DeliveryInvStep, PTL DEF Spec

\* The retries of a destination never exceed max_retries_delivery.
THEOREM DeliveryTypeCorrect == Spec => []TypeOK
<1>1. DeliveryInv => TypeOK
  BY DEF DeliveryInv
<1> QED BY <1>1, DeliveryInvariance, PTL

\* A report is in the database with all the destinations of its record, or
\* neither the report nor any of them is (render_report, create_report_for).
THEOREM ReportsAreWhole == Spec => []WholeReports
<1>1. DeliveryInv => WholeReports
  BY DEF DeliveryInv
<1> QED BY <1>1, DeliveryInvariance, PTL

\* A destination is booked as sent only after its script has handed over a
\* copy (send_out_reports).
THEOREM SentIsDelivered == Spec => []SentMeansDelivered
<1>1. DeliveryInv => SentMeansDelivered
  BY DEF DeliveryInv
<1> QED BY <1>1, DeliveryInvariance, PTL

-----------------------------------------------------------------------------
(* The refinement.                                                         *)

\* Only the committed database and the copies handed over can be seen.
LEMMA UnseenStep ==
    ASSUME UNCHANGED <<db, copies>>
    PROVE  UNCHANGED <<[k \in Keys |-> Outcome(k)], copies>>
BY DEF Outcome, Keys

LEMMA OutcomeFacts ==
    ASSUME NEW k \in Keys
    PROVE  /\ [x \in Keys |-> Outcome(x)][k] = Outcome(k)
           /\ Promise!Keys = Keys
BY DEF Promise!Keys, Keys

\* A clean-up that is committed forgets the reports that are gone.
LEMMA ForgetStep ==
    ASSUME db \in Databases, db' \in Databases, copies' = copies,
           \A k \in Keys :
               \/ db'.made[k[1]] = "gone"
               \/ /\ db'.dest[k] = db.dest[k]
                  /\ db'.made[k[1]] # "gone" /\ db.made[k[1]] # "gone"
    PROVE  Promise!Next
<1> DEFINE gone == {rep \in Reports : db'.made[rep] = "gone"}
<1>1. \A k \in Keys :
          Outcome(k)' = IF k[1] \in gone THEN "forgotten" ELSE Outcome(k)
  BY DEF Outcome, Keys
<1>2. [k \in Keys |-> Outcome(k)]' =
          [k \in Keys |-> IF k[1] \in gone THEN "forgotten"
                          ELSE [x \in Keys |-> Outcome(x)][k]]
  BY <1>1 DEF Keys
<1>3. Promise!Forget(gone)
  BY <1>2 DEF Promise!Forget, Promise!Keys, Keys
<1>4. gone \in SUBSET Reports
  OBVIOUS
<1> HIDE DEF gone
<1> QED BY <1>3, <1>4 DEF Promise!Next

LEMMA DeliverStep ==
    ASSUME NEW k \in Keys, copies' = [copies EXCEPT ![k] = @ + 1],
           db' = db, Outcome(k) # "none"
    PROVE  Promise!Next
<1>1. [x \in Keys |-> Outcome(x)]' = [x \in Keys |-> Outcome(x)]
  BY DEF Outcome, Keys
<1>2. Promise!Deliver(k)
  BY <1>1 DEF Promise!Deliver
<1> QED BY <1>2 DEF Promise!Next, Promise!Keys, Keys

LEMMA PublishStep == ASSUME DeliveryInv, ReportDone PROVE Promise!Next
<1>1. /\ view \in Databases /\ db \in Databases
      /\ Whole(db)
      /\ cur \in Reports /\ db.made[cur] = "data" /\ rest = <<>>
      /\ view.made = [db.made EXCEPT ![cur] = "made"]
      /\ \A k \in Keys : k[1] # cur => view.dest[k] = db.dest[k]
      /\ Booked(view, cur) \cup Elements(rest) = Addressed[cur]
      /\ \A d \in Booked(view, cur) : view.dest[<<cur, d>>] \in NewBookings
      /\ db' = view /\ copies' = copies
  BY DEF DeliveryInv, ReportDone, RenderPending, CreateCursor, TypeOK, WholeReports,
         Commit, counters
<1>2. \A rep \in Reports : view.made[rep] = IF rep = cur THEN "made" ELSE db.made[rep]
  BY <1>1 DEF Databases
<1>3. Booked(view, cur) = Addressed[cur]
  <2>1. Elements(rest) = {}
    BY <1>1 DEF Elements
  <2> QED BY <1>1, <2>1
<1>4. ASSUME NEW k \in Keys, k[1] = cur
      PROVE  /\ Outcome(k) = "none"
             /\ Outcome(k)' = IF k[2] \in Addressed[cur] THEN "owed" ELSE "none"
  <2>1. k = <<cur, k[2]>> /\ k[2] \in Destinations
    BY <1>4 DEF Keys
  <2>2. db.dest[k].status = "absent"
    BY <1>1, <2>1 DEF Whole
  <2>3. Outcome(k) = "none"
    BY <1>1, <1>4, <2>2 DEF Outcome
  <2>4. view.made[k[1]] = "made"
    BY <1>1, <1>2, <1>4
  <2>5. CASE k[2] \in Addressed[cur]
    <3>1. view.dest[k].status = "open"
      BY <1>1, <1>3, <2>1, <2>5 DEF NewBookings
    <3> QED BY <1>1, <2>3, <2>4, <2>5, <3>1 DEF Outcome
  <2>6. CASE k[2] \notin Addressed[cur]
    <3>1. view.dest[k].status = "absent"
      BY <1>3, <2>1, <2>6 DEF Booked
    <3> QED BY <1>1, <2>3, <2>4, <2>6, <3>1 DEF Outcome
  <2> QED BY <2>5, <2>6
<1>5. ASSUME NEW k \in Keys, k[1] # cur PROVE Outcome(k)' = Outcome(k)
  <2>1. view.made[k[1]] = db.made[k[1]] /\ view.dest[k] = db.dest[k]
    BY <1>1, <1>2, <1>5 DEF Keys
  <2> QED BY <1>1, <2>1 DEF Outcome
<1>6. \A k \in Keys : k \in {cur} \X Addressed[cur] <=> k[1] = cur /\ k[2] \in Addressed[cur]
  BY DEF Keys
<1>7. [k \in Keys |-> Outcome(k)]' =
          [k \in Keys |-> IF k \in {cur} \X Addressed[cur] THEN "owed"
                          ELSE [x \in Keys |-> Outcome(x)][k]]
  <2>1. \A k \in Keys :
            Outcome(k)' = IF k \in {cur} \X Addressed[cur] THEN "owed" ELSE Outcome(k)
    BY <1>4, <1>5, <1>6
  <2> QED BY <2>1 DEF Keys
<1>8. Promise!Publish(cur)
  BY <1>1, <1>4, <1>7 DEF Promise!Publish, Promise!Keys, Promise!KeysOf, Keys
<1> QED BY <1>1, <1>8 DEF Promise!Next

LEMMA DecideStep ==
    ASSUME DeliveryInv, Record
    PROVE  Promise!Next \/ UNCHANGED <<[k \in Keys |-> Outcome(k)], copies>>
<1> DEFINE new == Decided(db.dest[cur], result)
<1>1. /\ cur \in Keys /\ db \in Databases
      /\ db.dest[cur].status = "open"
      /\ db'.made = db.made
      /\ db'.dest = [db.dest EXCEPT ![cur] = new]
      /\ new \in Bookings /\ new.status # "absent"
      /\ new.status = "sent" => copies[cur] > 0
  BY RecordFacts
<1>2. copies' = copies
  BY DEF Record, counters
<1> HIDE DEF new
<1>3. \A k \in Keys : db'.dest[k] = IF k = cur THEN new ELSE db.dest[k]
  BY <1>1 DEF Databases
<1>4. \A k \in Keys : k # cur => Outcome(k)' = Outcome(k)
  BY <1>1, <1>3 DEF Outcome
<1>5. db.made[cur[1]] = "made"
  <2>1. cur = <<cur[1], cur[2]>> /\ cur[1] \in Reports /\ cur[2] \in Destinations
    BY <1>1 DEF Keys
  <2>2. db.dest[<<cur[1], cur[2]>>].status # "absent"
    BY <1>1, <2>1
  <2> QED BY <2>1, <2>2 DEF DeliveryInv, WholeReports, Whole
<1>6. Outcome(cur) = "owed"
  BY <1>1, <1>5 DEF Outcome
<1>7. CASE new.status = "open"
  <2>1. ASSUME NEW k \in Keys, k = cur PROVE Outcome(k)' = "owed"
    BY <1>1, <1>3, <1>5, <1>7, <2>1 DEF Outcome
  <2>2. \A k \in Keys : Outcome(k)' = Outcome(k)
    BY <1>4, <1>6, <2>1
  <2> QED BY <1>2, <2>2 DEF Keys
<1>8. CASE new.status # "open"
  <2>1. new.status \in {"sent", "unknownrua", "timedout"}
    BY <1>1, <1>8 DEF Bookings
  <2>2. ASSUME NEW k \in Keys, k = cur PROVE Outcome(k)' = new.status
    BY <1>1, <1>3, <1>5, <1>8, <2>2 DEF Outcome
  <2>3. [k \in Keys |-> Outcome(k)]' =
            [[k \in Keys |-> Outcome(k)] EXCEPT ![cur] = new.status]
    <3>1. \A k \in Keys : Outcome(k)' = IF k = cur THEN new.status ELSE Outcome(k)
      BY <1>4, <2>2
    <3> QED BY <1>1, <3>1 DEF Keys
  <2>4. Promise!Decide(cur, new.status)
    BY <1>1, <1>2, <1>6, <2>3 DEF Promise!Decide
  <2> QED BY <1>1, <2>1, <2>4 DEF Promise!Next, Promise!Keys, Keys
<1> QED BY <1>7, <1>8

LEMMA PromiseStep ==
    ASSUME DeliveryInv, DeliveryInv', [Next]_vars
    PROVE  [Promise!Next]_<<[k \in Keys |-> Outcome(k)], copies>>
<1>1. CASE UNCHANGED <<db, copies>>
  BY <1>1, UnseenStep
<1>2. CASE CheckDay
  <2>1. /\ db \in Databases /\ db' \in Databases /\ copies' = copies
        /\ view = db
        /\ db' = db \/ db' = CleanedUp(db)
    BY <1>2 DEF CheckDay, DeliveryInv, TypeOK, NothingPending, counters
  <2>2. CASE db' = db
    BY <2>1, <2>2, UnseenStep
  <2>3. CASE db' = CleanedUp(db)
    <3>1. \A k \in Keys :
              \/ db'.made[k[1]] = "gone"
              \/ db'.dest[k] = db.dest[k] /\ db'.made[k[1]] = db.made[k[1]]
      BY <2>1, <2>3, CleanedUpFacts DEF Keys
    <3> QED BY <2>1, <3>1, ForgetStep
  <2> QED BY <2>1, <2>2, <2>3
<1>3. ASSUME NEW complete \in SUBSET Reports, Collect(complete) PROVE Promise!Next
  <2>1. /\ db \in Databases /\ db' \in Databases /\ view \in Databases
        /\ copies' = copies
        /\ Whole(view)
        /\ \A rep \in Reports :
               \/ view.made[rep] = "gone"
               \/ /\ view.made[rep] = db.made[rep]
                  /\ \A d \in Destinations : view.dest[<<rep, d>>] = db.dest[<<rep, d>>]
        /\ \A rep \in complete : view.made[rep] = "none"
        /\ db' = [view EXCEPT !.made =
                     [rep \in Reports |-> IF rep \in complete THEN "data" ELSE @[rep]]]
    BY <1>3 DEF Collect, DeliveryInv, TypeOK, CleanUpPending, counters
  <2>2. /\ db'.dest = view.dest
        /\ \A rep \in Reports :
               db'.made[rep] = IF rep \in complete THEN "data" ELSE view.made[rep]
    BY <2>1 DEF Databases
  <2>3. ASSUME NEW k \in Keys
        PROVE  \/ db'.made[k[1]] = "gone"
               \/ /\ db'.dest[k] = db.dest[k]
                  /\ db'.made[k[1]] # "gone" /\ db.made[k[1]] # "gone"
    <3>1. k = <<k[1], k[2]>> /\ k[1] \in Reports /\ k[2] \in Destinations
      BY DEF Keys
    <3> QED BY <2>1, <2>2, <3>1
  <2> QED BY <2>1, <2>3, ForgetStep
<1>4. CASE ReportDone
  BY <1>4, PublishStep
<1>5. CASE Record
  BY <1>5, DecideStep
<1>6. ASSUME NEW k \in Keys, copies' = [copies EXCEPT ![k] = @ + 1], db' = db,
             db.made[k[1]] = "gone" \/ db.dest[k].status # "absent"
      PROVE  Promise!Next
  <2>1. Outcome(k) # "none"
    <3>1. db.dest[k].status \in {"absent", "open", "sent", "unknownrua", "timedout"}
      BY DEF DeliveryInv, TypeOK, Databases, Bookings
    <3> QED BY <1>6, <3>1 DEF Outcome
  <2> QED BY <1>6, <2>1, DeliverStep
<1>7. CASE ScriptSucceeds \/ ScriptFails
  <2>1. cur \in Keys /\ db.dest[cur].status = "open"
    BY <1>7 DEF ScriptSucceeds, ScriptFails, DeliveryInv, SendCursor, Serving
  <2>2. db' = db /\ (copies' = copies \/ copies' = [copies EXCEPT ![cur] = @ + 1])
    BY <1>7 DEF ScriptSucceeds, ScriptFails
  <2> QED BY <1>1, <1>6, <2>1, <2>2
<1>8. ASSUME NEW k \in Keys, OrphanEnds(k)
      PROVE  [Promise!Next]_<<[x \in Keys |-> Outcome(x)], copies>>
  <2>1. /\ db' = db /\ orphans[k] > 0
        /\ copies' = copies \/ copies' = [copies EXCEPT ![k] = @ + 1]
    BY <1>8 DEF OrphanEnds
  <2>2. db.made[k[1]] = "gone" \/ db.dest[k].status # "absent"
    BY <2>1 DEF DeliveryInv, OrphansAreOwed
  <2> QED BY <1>1, <1>6, <2>1, <2>2
<1>9. ASSUME NEW k \in Keys, FallsDue(k)
      PROVE  UNCHANGED <<[x \in Keys |-> Outcome(x)], copies>>
  <2>1. /\ copies' = copies /\ view = db /\ db \in Databases
        /\ db' = [db EXCEPT !.dest[k].later = FALSE]
    BY <1>9 DEF FallsDue, DeliveryInv, TypeOK, NothingPending, Halted, counters
  <2>2. /\ db'.made = db.made
        /\ \A x \in Keys : db'.dest[x].status = db.dest[x].status
    BY <2>1 DEF Databases, Bookings
  <2>3. \A x \in Keys : Outcome(x)' = Outcome(x)
    BY <2>2 DEF Outcome
  <2> QED BY <2>1, <2>3 DEF Keys
<1>10. ASSUME \/ BookDestination \/ CreateEnds \/ ScriptReads \/ ScriptBreaksOff
              \/ ScriptTimesOut \/ SendEnds \/ Die \/ ScriptBlocks \/ WakeUp
              \/ Terminate \/ Crash \/ Start
              \/ \E rep \in Reports : Render(rep) \/ Expire(rep)
              \/ \E k \in Keys : RefuseRua(k) \/ StartScript(k)
       PROVE  UNCHANGED <<db, copies>>
  BY <1>10 DEF BookDestination, CreateEnds, ScriptReads, ScriptBreaksOff, ScriptTimesOut,
     SendEnds, Die, ScriptBlocks, WakeUp, Terminate, Crash, Start, Render, Expire,
     RefuseRua, StartScript, Vanish, Commit, counters, DeliveryInv, NothingPending
<1>11. CASE UNCHANGED vars
  BY <1>1, <1>11 DEF vars
<1>12. CASE RunLoop
  BY <1>1, <1>2, <1>3, <1>4, <1>5, <1>7, <1>10, <1>12 DEF RunLoop
<1>13. CASE Surroundings
  BY <1>1, <1>8, <1>9, <1>10, <1>13 DEF Surroundings
<1> QED BY <1>11, <1>12, <1>13 DEF Next

\* tlsrpt-reportd, with its crashes, failing and late scripts and clean-ups,
\* implements the promise made to the recipients of reports.
THEOREM ReportDeliveryKeepsPromise == Spec => KeepsPromise
<1>1. Init => Promise!Init
  <2> SUFFICES ASSUME Init PROVE Promise!Init
    OBVIOUS
  <2>1. \A k \in Keys : Outcome(k) = "none"
    BY DEF Init, Outcome, NoBooking, Keys
  <2> QED BY <2>1 DEF Init, Promise!Init, Promise!Keys, Keys
<1>2. DeliveryInv /\ DeliveryInv' /\ [Next]_vars
          => [Promise!Next]_<<[k \in Keys |-> Outcome(k)], copies>>
  BY PromiseStep
<1> QED BY <1>1, <1>2, DeliveryInvariance, PTL DEF Spec, KeepsPromise, Promise!Spec

-----------------------------------------------------------------------------
(***************************************************************************)
(* How often a script is run for a destination, and how many copies a      *)
(* recipient can get.                                                      *)
(***************************************************************************)

Gone(k) == db.made[k[1]] = "gone"
Status(k) == db.dest[k].status
Retries(k) == db.dest[k].retries

\* A run for this destination is under way, or not yet recorded.
Current(k) == pc \in Serving \cup {"record"} /\ cur = k

\* What can become of a destination in the committed database.
Same(k) ==
    Gone(k)' = Gone(k) /\ Status(k)' = Status(k) /\ Retries(k)' = Retries(k)
Booking(k) ==
    /\ ReportDone
    /\ ~Gone(k) /\ Status(k) = "absent"
    /\ ~Gone(k)' /\ Status(k)' \in {"absent", "open"}
Recording(k) ==
    /\ Record /\ cur = k
    /\ Status(k) = "open" /\ Gone(k)' = Gone(k)
    /\ db'.dest[k] = Decided(db.dest[k], result)

\* A destination is open or decided only while its report is there.
LEMMA BookedIsMade ==
    ASSUME DeliveryInv, NEW k \in Keys, Status(k) # "absent"
    PROVE  ~Gone(k)
<1>1. k = <<k[1], k[2]>> /\ k[1] \in Reports /\ k[2] \in Destinations
  BY DEF Keys
<1>2. db.made[k[1]] = "made"
  BY <1>1 DEF DeliveryInv, WholeReports, Whole, Status
<1> QED BY <1>2 DEF Gone

\* The destination being served is open.
LEMMA ServedIsOpen ==
    ASSUME DeliveryInv, pc \in Serving \cup {"record"}
    PROVE  cur \in Keys /\ Status(cur) = "open" /\ ~Gone(cur)
<1>1. cur \in Keys /\ Status(cur) = "open"
  BY DEF DeliveryInv, SendCursor, Status, Serving
<1> QED BY <1>1, BookedIsMade

LEMMA BookingStep ==
    ASSUME DeliveryInv, ReportDone, NEW k \in Keys
    PROVE  Same(k) \/ Booking(k)
<1>1. /\ view \in Databases /\ db \in Databases /\ Whole(db)
      /\ cur \in Reports /\ db.made[cur] = "data"
      /\ view.made = [db.made EXCEPT ![cur] = "made"]
      /\ \A x \in Keys : x[1] # cur => view.dest[x] = db.dest[x]
      /\ \A d \in Booked(view, cur) : view.dest[<<cur, d>>] \in NewBookings
      /\ db' = view
  BY DEF DeliveryInv, ReportDone, RenderPending, CreateCursor, TypeOK, WholeReports,
         Commit
<1>2. k = <<k[1], k[2]>> /\ k[1] \in Reports /\ k[2] \in Destinations
  BY DEF Keys
<1>3. \A rep \in Reports : view.made[rep] = IF rep = cur THEN "made" ELSE db.made[rep]
  BY <1>1 DEF Databases
<1>4. CASE k[1] # cur
  BY <1>1, <1>2, <1>3, <1>4 DEF Same, Gone, Status, Retries
<1>5. CASE k[1] = cur
  <2>1. ~Gone(k) /\ Status(k) = "absent"
    BY <1>1, <1>2, <1>5 DEF Whole, Gone, Status
  <2>2. view.dest[k].status \in {"absent", "open"}
    BY <1>1, <1>2, <1>5 DEF Booked, NewBookings
  <2>3. ~Gone(k)' /\ Status(k)' \in {"absent", "open"}
    BY <1>1, <1>2, <1>3, <1>5, <2>2 DEF Gone, Status
  <2> QED BY <2>1, <2>3 DEF Booking
<1> QED BY <1>4, <1>5

LEMMA RecordingStep ==
    ASSUME DeliveryInv, Record, NEW k \in Keys
    PROVE  Same(k) \/ Recording(k)
<1>1. /\ cur \in Keys /\ db \in Databases /\ db.dest[cur].status = "open"
      /\ db'.made = db.made
      /\ db'.dest = [db.dest EXCEPT ![cur] = Decided(db.dest[cur], result)]
  BY RecordFacts
<1>2. db'.dest[k] = IF k = cur THEN Decided(db.dest[cur], result) ELSE db.dest[k]
  BY <1>1 DEF Databases
<1> QED BY <1>1, <1>2 DEF Same, Recording, Gone, Status, Retries

LEMMA CleanUpStep ==
    ASSUME DeliveryInv, NEW k \in Keys,
           CheckDay \/ \E complete \in SUBSET Reports : Collect(complete)
    PROVE  Same(k) \/ Gone(k)'
<1>0. k = <<k[1], k[2]>> /\ k[1] \in Reports /\ k[2] \in Destinations
  BY DEF Keys
<1>1. CASE CheckDay
  <2>1. /\ db \in Databases /\ (db' = db \/ db' = CleanedUp(db))
    BY <1>1 DEF CheckDay, DeliveryInv, TypeOK, NothingPending
  <2> QED BY <1>0, <2>1, CleanedUpFacts DEF Same, Gone, Status, Retries
<1>2. ASSUME NEW complete \in SUBSET Reports, Collect(complete)
      PROVE  Same(k) \/ Gone(k)'
  <2>1. /\ view \in Databases /\ db \in Databases
        /\ \A rep \in Reports :
               \/ view.made[rep] = "gone"
               \/ /\ view.made[rep] = db.made[rep]
                  /\ \A d \in Destinations : view.dest[<<rep, d>>] = db.dest[<<rep, d>>]
        /\ \A rep \in complete : view.made[rep] = "none"
        /\ db' = [view EXCEPT !.made =
                     [rep \in Reports |-> IF rep \in complete THEN "data" ELSE @[rep]]]
    BY <1>2 DEF Collect, DeliveryInv, TypeOK, CleanUpPending
  <2>2. /\ db'.dest = view.dest
        /\ \A rep \in Reports :
               db'.made[rep] = IF rep \in complete THEN "data" ELSE view.made[rep]
    BY <2>1 DEF Databases
  <2> QED BY <1>0, <2>1, <2>2 DEF Same, Gone, Status, Retries
<1> QED BY <1>1, <1>2

\* The steps that say nothing new about any destination.
Silent ==
    \/ BookDestination \/ CreateEnds \/ SendEnds \/ Die
    \/ ScriptReads \/ ScriptBreaksOff \/ ScriptBlocks
    \/ ScriptSucceeds \/ ScriptFails \/ ScriptTimesOut
    \/ WakeUp \/ Terminate \/ Crash \/ Start
    \/ \E rep \in Reports : Render(rep) \/ Expire(rep)
    \/ \E k \in Keys : RefuseRua(k) \/ StartScript(k) \/ OrphanEnds(k)
    \/ UNCHANGED vars

LEMMA SilentStep ==
    ASSUME DeliveryInv, Silent
    PROVE  db' = db /\ \A k \in Keys : Same(k)
<1>1. db' = db
  BY DEF Silent, BookDestination, CreateEnds, SendEnds, Die, ScriptReads,
     ScriptBreaksOff, ScriptBlocks, ScriptSucceeds, ScriptFails, ScriptTimesOut, WakeUp,
     Terminate, Crash, Start, Render, Expire, RefuseRua, StartScript, OrphanEnds,
     Vanish, Commit, DeliveryInv, NothingPending, vars
<1> QED BY <1>1 DEF Same, Gone, Status, Retries

LEMMA FallsDueSame ==
    ASSUME DeliveryInv, NEW x \in Keys, FallsDue(x), NEW k \in Keys
    PROVE  Same(k)
<1>1. view = db /\ db \in Databases /\ db' = [db EXCEPT !.dest[x].later = FALSE]
  BY DEF FallsDue, DeliveryInv, TypeOK, NothingPending, Halted
<1>2. /\ db'.made = db.made
      /\ db'.dest[k].status = db.dest[k].status
      /\ db'.dest[k].retries = db.dest[k].retries
  BY <1>1 DEF Databases, Bookings
<1> QED BY <1>2 DEF Same, Gone, Status, Retries

-----------------------------------------------------------------------------
(* Copies.                                                                 *)

\* One copy needs no excuse: that of the run which is booked as sent, about to
\* be, or was booked before the report was forgotten.
Settled(k) ==
    Gone(k) \/ Status(k) = "sent" \/ (pc = "record" /\ cur = k /\ result = "sent")

\* A script left behind may deliver one copy more, and is excused already.
CopiesInv ==
    \A k \in Keys :
        /\ copies[k] + orphans[k] <= 1 + excuses[k]
        /\ ~Settled(k) => copies[k] + orphans[k] <= excuses[k]

LEMMA CountTypes ==
    ASSUME DeliveryInv
    PROVE  \A k \in Keys : /\ copies[k] \in Nat /\ orphans[k] \in Nat
                           /\ excuses[k] \in Nat /\ runs[k] \in Nat
BY DEF DeliveryInv, TypeOK

\* Nothing is counted, and what is settled remains so.
LEMMA CopiesKept ==
    ASSUME CopiesInv, UNCHANGED <<copies, orphans, excuses>>,
           \A k \in Keys : Settled(k) => Settled(k)'
    PROVE  CopiesInv'
BY DEF CopiesInv

\* The database says the same, and the stage is not one of booking a success.
LEMMA SettledKept ==
    ASSUME NEW k \in Keys, Same(k) \/ Gone(k)',
           \/ ~(pc = "record" /\ cur = k /\ result = "sent")
           \/ UNCHANGED <<pc, cur, result>>
    PROVE  Settled(k) => Settled(k)'
BY DEF Settled, Same

\* One more of what is counted for the destination being served.
LEMMA OneMore ==
    ASSUME NEW f \in [Keys -> Nat], NEW x \in Keys, NEW k \in Keys
    PROVE  [f EXCEPT ![x] = @ + 1][k] = IF k = x THEN f[k] + 1 ELSE f[k]
OBVIOUS

LEMMA CopiesScripts ==
    ASSUME DeliveryInv, CopiesInv,
           ScriptBreaksOff \/ ScriptSucceeds \/ ScriptFails \/ ScriptTimesOut
    PROVE  CopiesInv'
<1>1. /\ cur \in Keys /\ Status(cur) = "open" /\ ~Gone(cur) /\ cur' = cur
      /\ pc # "record" /\ pc' = "record"
      /\ copies \in [Keys -> Nat] /\ orphans \in [Keys -> Nat]
      /\ excuses \in [Keys -> Nat]
  BY ServedIsOpen DEF ScriptBreaksOff, ScriptSucceeds, ScriptFails, ScriptTimesOut, Serving, DeliveryInv,
     TypeOK
<1>2. \A k \in Keys : Same(k)
  BY SilentStep DEF Silent
<1>3. \A k \in Keys : ~Settled(k)' => ~Settled(k)
  BY <1>1, <1>2 DEF Settled, Same
<1>4. copies[cur] + orphans[cur] <= excuses[cur]
  BY <1>1 DEF CopiesInv, Settled
<1> SUFFICES ASSUME NEW k \in Keys
             PROVE  /\ copies'[k] + orphans'[k] <= 1 + excuses'[k]
                    /\ ~Settled(k)' => copies'[k] + orphans'[k] <= excuses'[k]
  BY DEF CopiesInv
<1>5. /\ copies[k] \in Nat /\ orphans[k] \in Nat /\ excuses[k] \in Nat
      /\ copies[k] + orphans[k] <= 1 + excuses[k]
      /\ ~Settled(k)' => copies[k] + orphans[k] <= excuses[k]
  BY <1>3, CountTypes DEF CopiesInv
<1>6. CASE ScriptSucceeds
  <2>1. /\ copies'[k] = IF k = cur THEN copies[k] + 1 ELSE copies[k]
        /\ orphans'[k] = orphans[k] /\ excuses'[k] = excuses[k] /\ result' = "sent"
    BY <1>1, <1>6 DEF ScriptSucceeds
  <2>2. k = cur => Settled(k)'
    BY <1>1, <2>1 DEF Settled
  <2> QED BY <1>4, <1>5, <2>1, <2>2
<1>7. CASE ScriptFails
  <2>1. /\ orphans'[k] = orphans[k]
        /\ \/ copies'[k] = copies[k] /\ excuses'[k] = excuses[k]
           \/ /\ copies'[k] = IF k = cur THEN copies[k] + 1 ELSE copies[k]
              /\ excuses'[k] = IF k = cur THEN excuses[k] + 1 ELSE excuses[k]
    BY <1>1, <1>7, OneMore DEF ScriptFails
  <2> QED BY <1>5, <2>1, SMTT(30)
<1>8. CASE ScriptTimesOut
  <2>1. /\ copies'[k] = copies[k]
        /\ orphans'[k] = IF k = cur THEN orphans[k] + 1 ELSE orphans[k]
        /\ excuses'[k] = IF k = cur THEN excuses[k] + 1 ELSE excuses[k]
    BY <1>1, <1>8, OneMore DEF ScriptTimesOut
  <2> QED BY <1>5, <2>1, SMTT(30)
<1>9. CASE ScriptBreaksOff
  <2>1. /\ copies'[k] = copies[k]
        /\ \/ orphans'[k] = orphans[k] /\ excuses'[k] = excuses[k]
           \/ /\ orphans'[k] = IF k = cur THEN orphans[k] + 1 ELSE orphans[k]
              /\ excuses'[k] = IF k = cur THEN excuses[k] + 1 ELSE excuses[k]
    BY <1>1, <1>9, OneMore DEF ScriptBreaksOff
  <2> QED BY <1>5, <2>1, SMTT(30)
<1> QED BY <1>6, <1>7, <1>8, <1>9

LEMMA CopiesCrash == ASSUME DeliveryInv, CopiesInv, Crash PROVE CopiesInv'
<1>1. /\ copies \in [Keys -> Nat] /\ orphans \in [Keys -> Nat]
      /\ excuses \in [Keys -> Nat] /\ copies' = copies /\ cur' = cur /\ result' = result
      /\ pc' = "crashed"
  BY DEF Crash, Vanish, DeliveryInv, TypeOK, locals
<1>2. \A k \in Keys : Same(k)
  BY SilentStep DEF Silent
<1> SUFFICES ASSUME NEW k \in Keys
             PROVE  /\ copies'[k] + orphans'[k] <= 1 + excuses'[k]
                    /\ ~Settled(k)' => copies'[k] + orphans'[k] <= excuses'[k]
  BY DEF CopiesInv
<1>3. /\ copies[k] \in Nat /\ orphans[k] \in Nat /\ excuses[k] \in Nat
      /\ copies[k] + orphans[k] <= 1 + excuses[k]
      /\ ~Settled(k) => copies[k] + orphans[k] <= excuses[k]
  BY CountTypes DEF CopiesInv
<1>4. CASE pc \in Serving
  <2>1. /\ orphans' = [orphans EXCEPT ![cur] = @ + 1]
        /\ excuses' = [excuses EXCEPT ![cur] = @ + 1] /\ cur \in Keys
    BY <1>4, ServedIsOpen DEF Crash
  <2>2. /\ orphans'[k] = IF k = cur THEN orphans[k] + 1 ELSE orphans[k]
        /\ excuses'[k] = IF k = cur THEN excuses[k] + 1 ELSE excuses[k]
    BY <1>1, <2>1, OneMore
  <2>3. Settled(k)' = Settled(k)
    BY <1>1, <1>2, <1>4 DEF Settled, Same, Serving
  <2> QED BY <1>1, <1>3, <2>2, <2>3
<1>5. CASE pc = "record" /\ result = "sent"
  <2>1. /\ orphans' = orphans
        /\ excuses' = [excuses EXCEPT ![cur] = @ + 1] /\ cur \in Keys
    BY <1>5, ServedIsOpen DEF Crash, Serving
  <2>2. excuses'[k] = IF k = cur THEN excuses[k] + 1 ELSE excuses[k]
    BY <1>1, <2>1, OneMore
  <2>3. ~Settled(k)' => ~Settled(k) \/ k = cur
    BY <1>1, <1>2 DEF Settled, Same
  <2> QED BY <1>1, <1>3, <2>1, <2>2, <2>3
<1>6. CASE pc \notin Serving /\ ~(pc = "record" /\ result = "sent")
  <2>1. orphans' = orphans /\ excuses' = excuses
    BY <1>6 DEF Crash
  <2>2. Settled(k)' = Settled(k)
    BY <1>1, <1>2, <1>6 DEF Settled, Same
  <2> QED BY <1>1, <1>3, <2>1, <2>2
<1> QED BY <1>4, <1>5, <1>6

LEMMA CopiesOrphan ==
    ASSUME DeliveryInv, CopiesInv, NEW x \in Keys, OrphanEnds(x)
    PROVE  CopiesInv'
<1>1. /\ copies \in [Keys -> Nat] /\ orphans \in [Keys -> Nat] /\ excuses' = excuses
      /\ orphans' = [orphans EXCEPT ![x] = @ - 1] /\ orphans[x] > 0
      /\ copies' \in {copies, [copies EXCEPT ![x] = @ + 1]}
      /\ UNCHANGED <<pc, cur, result>>
  BY DEF OrphanEnds, DeliveryInv, TypeOK, locals
<1>2. \A k \in Keys : Settled(k)' = Settled(k)
  BY <1>1, SilentStep DEF Silent, Settled, Same
<1> SUFFICES ASSUME NEW k \in Keys
             PROVE  /\ copies'[k] + orphans'[k] <= 1 + excuses'[k]
                    /\ ~Settled(k)' => copies'[k] + orphans'[k] <= excuses'[k]
  BY DEF CopiesInv
<1>3. /\ copies[k] \in Nat /\ orphans[k] \in Nat /\ excuses[k] \in Nat
      /\ copies[k] + orphans[k] <= 1 + excuses[k]
      /\ ~Settled(k) => copies[k] + orphans[k] <= excuses[k]
  BY CountTypes DEF CopiesInv
<1>4. /\ orphans'[k] = IF k = x THEN orphans[k] - 1 ELSE orphans[k]
      /\ copies'[k] = copies[k] \/ copies'[k] = IF k = x THEN copies[k] + 1 ELSE copies[k]
  BY <1>1, OneMore
<1> QED BY <1>1, <1>2, <1>3, <1>4

LEMMA CopiesStep == DeliveryInv /\ CopiesInv /\ [Next]_vars => CopiesInv'
<1> SUFFICES ASSUME DeliveryInv, CopiesInv, [Next]_vars PROVE CopiesInv'
  OBVIOUS
<1>1. CASE ScriptBreaksOff \/ ScriptSucceeds \/ ScriptFails \/ ScriptTimesOut
  BY <1>1, CopiesScripts
<1>2. CASE Crash
  BY <1>2, CopiesCrash
<1>3. CASE \E k \in Keys : OrphanEnds(k)
  BY <1>3, CopiesOrphan
<1>4. CASE CheckDay \/ \E complete \in SUBSET Reports : Collect(complete)
  <2>1. /\ \A k \in Keys : Same(k) \/ Gone(k)'
        /\ pc # "record" /\ UNCHANGED <<copies, orphans, excuses>>
    BY <1>4, CleanUpStep DEF CheckDay, Collect, counters
  <2> QED BY <2>1, SettledKept, CopiesKept
<1>5. CASE ReportDone
  <2>1. /\ \A k \in Keys : Settled(k) => Same(k)
        /\ pc # "record" /\ UNCHANGED <<copies, orphans, excuses>>
    BY <1>5, BookingStep DEF ReportDone, counters, Booking, Settled
  <2> QED BY <2>1, SettledKept, CopiesKept
<1>6. CASE Record
  <2>1. UNCHANGED <<copies, orphans, excuses>> /\ pc = "record"
    BY <1>6 DEF Record, counters
  <2>2. ASSUME NEW k \in Keys, Settled(k) PROVE Settled(k)'
    <3>1. CASE Same(k) /\ k # cur
      BY <2>2, <3>1 DEF Same, Settled
    <3>2. CASE Recording(k)
      <4>1. ~Gone(k) /\ result = "sent"
        BY <2>2, <3>2, BookedIsMade DEF Recording, Settled
      <4>2. db'.dest[k].status = "sent"
        <5>1. db.dest[k] \in Bookings
          BY DEF DeliveryInv, TypeOK, Databases
        <5> QED BY <3>2, <4>1, <5>1 DEF Recording, Decided, Bookings
      <4> QED BY <4>2 DEF Settled, Status
    <3>3. k = cur => Recording(k)
      BY <1>6, RecordFacts DEF Recording, Status, Gone, Databases
    <3> QED BY <1>6, <3>1, <3>2, <3>3, RecordingStep
  <2> QED BY <2>1, <2>2, CopiesKept
<1>7. CASE \E k \in Keys : FallsDue(k)
  <2>1. /\ \A k \in Keys : Same(k)
        /\ UNCHANGED <<copies, orphans, excuses, pc, cur, result>>
    BY <1>7, FallsDueSame DEF FallsDue, counters, locals
  <2> QED BY <2>1, SettledKept, CopiesKept
<1>8. CASE \/ BookDestination \/ CreateEnds \/ SendEnds \/ Die
           \/ ScriptReads \/ ScriptBlocks
           \/ WakeUp \/ Terminate \/ Start
           \/ \E rep \in Reports : Render(rep)
           \/ \E k \in Keys : RefuseRua(k) \/ StartScript(k)
  <2>1. pc # "record" /\ UNCHANGED <<copies, orphans, excuses>>
    BY <1>8 DEF BookDestination, CreateEnds, SendEnds, Die, ScriptReads,
       ScriptBlocks, WakeUp, Terminate, Start, Render, RefuseRua,
       StartScript, Vanish, counters, Halted
  <2>2. \A k \in Keys : Same(k)
    BY <1>8, SilentStep DEF Silent
  <2> QED BY <2>1, <2>2, SettledKept, CopiesKept
<1>9. CASE (\E rep \in Reports : Expire(rep)) \/ UNCHANGED vars
  <2>1. UNCHANGED <<copies, orphans, excuses, pc, cur, result>>
    BY <1>9 DEF Expire, counters, locals, vars
  <2>2. \A k \in Keys : Same(k)
    BY <1>9, SilentStep DEF Silent
  <2> QED BY <2>1, <2>2, SettledKept, CopiesKept
<1> QED BY <1>1, <1>2, <1>3, <1>4, <1>5, <1>6, <1>7, <1>8, <1>9
        DEF Next, RunLoop, Surroundings

\* A recipient gets a report once, and once more at most for every run that
\* failed after delivering, outlived its timeout, or lost its reportd.
THEOREM CopiesAreExcused == Spec => []OneCopyUnlessExcused
<1>1. Init => DeliveryInv /\ CopiesInv
  <2>1. Init => CopiesInv
    BY DEF Init, CopiesInv
  <2> QED BY <2>1, DeliveryInvInit
<1>2. DeliveryInv /\ CopiesInv => OneCopyUnlessExcused
  BY CountTypes DEF CopiesInv, OneCopyUnlessExcused
<1> QED BY <1>1, <1>2, DeliveryInvStep, CopiesStep, PTL DEF Spec

-----------------------------------------------------------------------------
(* Runs.                                                                   *)

\* Every start but the current one may have lost a run that was not recorded;
\* the current one has none to lose unless a run is under way.
Spendable(k) == pc \in Halted \/ Current(k)

RunsInv ==
    /\ pc \in Running => starts > 0
    /\ \A k \in Keys :
           /\ runs[k] <= MaxRetries + starts
           /\ Status(k) = "absent" /\ ~Gone(k) => runs[k] = 0
           /\ Status(k) = "open" =>
                  /\ runs[k] <= Retries(k) + starts
                  /\ Spendable(k) \/ runs[k] < Retries(k) + starts

LEMMA RunsTypes ==
    ASSUME DeliveryInv
    PROVE  /\ starts \in Nat /\ MaxRetries \in Nat
           /\ \A k \in Keys : /\ runs[k] \in Nat
                              /\ Retries(k) \in Nat /\ Retries(k) <= MaxRetries
                              /\ Status(k) \in {"absent", "open", "sent",
                                                "unknownrua", "timedout"}
<1>1. \A k \in Keys : db.dest[k] \in Bookings /\ runs[k] \in Nat
  BY DEF DeliveryInv, TypeOK, Databases
<1>2. \A k \in Keys : /\ Retries(k) \in Nat /\ Retries(k) <= MaxRetries
                       /\ Status(k) \in {"absent", "open", "sent", "unknownrua",
                                         "timedout"}
  BY <1>1 DEF Bookings, Status, Retries
<1>3. starts \in Nat /\ MaxRetries \in Nat
  BY DeliveryOptions DEF DeliveryInv, TypeOK
<1> QED BY <1>1, <1>2, <1>3

LEMMA PcApart == Running \cap Halted = {} /\ Serving \cup {"record"} \subseteq Running
BY DEF Running, Halted, Serving

\* Nothing is counted, a destination remains as it is or is forgotten, and a
\* run that was under way is so still, or the process has ended.
LEMMA RunsKept ==
    ASSUME DeliveryInv, RunsInv, UNCHANGED <<runs, starts>>,
           pc' \in Running => pc \in Running,
           \A k \in Keys : /\ Same(k) \/ (Gone(k)' /\ Status(k)' # "open")
                           /\ Spendable(k) => Spendable(k)'
    PROVE  RunsInv'
BY DEF RunsInv, Same

LEMMA RunsRecord == ASSUME DeliveryInv, RunsInv, Record PROVE RunsInv'
<1>1. /\ pc = "record" /\ pc' = "send" /\ UNCHANGED <<runs, starts>>
      /\ cur \in Keys /\ db.dest[cur] \in Bookings /\ db.dest[cur].status = "open"
  BY ServedIsOpen DEF Record, counters, DeliveryInv, TypeOK, Databases, Status
<1>2. pc \in Running /\ pc \notin Halted
  BY <1>1 DEF Running, Halted
<1>r. \A k \in Keys : Retries(k)' \in Nat
  <2>1. TypeOK'
    BY RecordStep DEF DeliveryInv
  <2> QED BY <2>1 DEF TypeOK, Databases, Bookings, Retries
<1> SUFFICES ASSUME NEW k \in Keys
             PROVE  /\ runs[k] <= MaxRetries + starts
                    /\ Status(k)' = "absent" /\ ~Gone(k)' => runs[k] = 0
                    /\ Status(k)' = "open" => runs[k] < Retries(k)' + starts
  BY <1>1, <1>2, <1>r, RunsTypes DEF RunsInv
<1>3. CASE Recording(k)
  <2>1. /\ runs[k] <= MaxRetries + starts /\ runs[k] <= Retries(k) + starts
        /\ runs[k] \in Nat /\ starts \in Nat /\ Retries(k) \in Nat
    BY <1>3, RunsTypes DEF RunsInv, Recording
  <2>2. Status(k)' # "absent"
    BY <1>1, <1>3, RecordFacts DEF Recording, Status
  <2>3. Status(k)' = "open" => Retries(k)' = Retries(k) + 1
    <3>1. db'.dest[k] = Decided(db.dest[k], result) /\ db.dest[k] \in Bookings
      BY <1>1, <1>3 DEF Recording
    <3>2. CASE result # "tryagain"
      <4>1. db'.dest[k] = [db.dest[k] EXCEPT !.status = result]
        BY <3>1, <3>2 DEF Decided
      <4>2. result \in {"sent", "unknownrua"}
        BY <3>2 DEF DeliveryInv, TypeOK
      <4> QED BY <3>1, <4>1, <4>2 DEF Status, Bookings
    <3>3. CASE result = "tryagain" /\ db.dest[k].retries < MaxRetries
      <4>1. db'.dest[k] = [db.dest[k] EXCEPT !.retries = @ + 1, !.later = TRUE]
        BY <3>1, <3>3 DEF Decided
      <4> QED BY <3>1, <4>1 DEF Retries, Bookings
    <3>4. CASE result = "tryagain" /\ ~(db.dest[k].retries < MaxRetries)
      <4>1. db'.dest[k] = [db.dest[k] EXCEPT !.status = "timedout"]
        BY <3>1, <3>4 DEF Decided
      <4> QED BY <3>1, <4>1 DEF Status, Bookings
    <3> QED BY <3>2, <3>3, <3>4
  <2> QED BY <2>1, <2>2, <2>3
<1>4. CASE Same(k) /\ k # cur
  <2>1. ~Spendable(k)
    BY <1>2, <1>4 DEF Spendable, Current
  <2> QED BY <1>4, <2>1 DEF RunsInv, Same
<1>5. k = cur => Recording(k)
  BY RecordFacts DEF Recording, Status, Gone, Databases, Record
<1> QED BY <1>3, <1>4, <1>5, RecordingStep

LEMMA RunsStartScript ==
    ASSUME DeliveryInv, RunsInv, NEW x \in Keys, StartScript(x)
    PROVE  RunsInv'
<1>1. /\ runs \in [Keys -> Nat] /\ runs' = [runs EXCEPT ![x] = @ + 1]
      /\ pc = "send" /\ pc' = "write" /\ cur' = x /\ starts' = starts
      /\ Status(x) = "open"
  BY DEF StartScript, DeliveryInv, TypeOK, SendCursor, Status
<1>2. \A k \in Keys : Same(k)
  BY SilentStep DEF Silent
<1>3. pc \in Running /\ pc \notin Halted /\ \A k \in Keys : ~Current(k)
  BY <1>1 DEF Running, Halted, Current, Serving
<1>4. Current(x)'
  BY <1>1 DEF Current, Serving
<1> SUFFICES ASSUME NEW k \in Keys
             PROVE  /\ runs'[k] <= MaxRetries + starts
                    /\ Status(k) = "absent" /\ ~Gone(k) => runs'[k] = 0
                    /\ Status(k) = "open" =>
                           /\ runs'[k] <= Retries(k) + starts
                           /\ Spendable(k)' \/ runs'[k] < Retries(k) + starts
  BY <1>1, <1>2, <1>3 DEF RunsInv, Same
<1>5. runs'[k] = IF k = x THEN runs[k] + 1 ELSE runs[k]
  BY <1>1, OneMore
<1>6. CASE k = x
  <2>1. runs[k] < Retries(k) + starts
    BY <1>1, <1>3, <1>6 DEF RunsInv, Spendable
  <2> QED BY <1>1, <1>4, <1>5, <1>6, <2>1, RunsTypes DEF Spendable
<1>7. CASE k # x
  <2>1. ~Spendable(k)
    BY <1>3 DEF Spendable
  <2> QED BY <1>5, <1>7, <2>1 DEF RunsInv
<1> QED BY <1>6, <1>7

LEMMA RunsBooking == ASSUME DeliveryInv, RunsInv, ReportDone PROVE RunsInv'
<1>1. /\ pc = "render" /\ pc' = "create" /\ UNCHANGED <<runs, starts>>
  BY DEF ReportDone, counters
<1>2. /\ pc \in Running /\ pc \notin Halted /\ starts > 0
      /\ \A k \in Keys : ~Spendable(k)
  BY <1>1 DEF Running, Halted, Spendable, Current, Serving, RunsInv
<1>3. \A k \in Keys : Retries(k)' \in Nat
  <2>1. TypeOK'
    BY ReportDoneStep DEF DeliveryInv
  <2> QED BY <2>1 DEF TypeOK, Databases, Bookings, Retries
<1> SUFFICES ASSUME NEW k \in Keys
             PROVE  /\ runs[k] <= MaxRetries + starts
                    /\ Status(k)' = "absent" /\ ~Gone(k)' => runs[k] = 0
                    /\ Status(k)' = "open" => runs[k] < Retries(k)' + starts
  BY <1>1, <1>2, <1>3, RunsTypes DEF RunsInv
<1>4. CASE Same(k)
  BY <1>2, <1>4 DEF RunsInv, Same
<1>5. CASE Booking(k)
  <2>1. runs[k] = 0
    BY <1>5 DEF Booking, RunsInv
  <2> QED BY <1>2, <1>3, <2>1, RunsTypes
<1> QED BY <1>4, <1>5, BookingStep

\* A run lost with the process is paid for by the start that follows.
LEMMA RunsStart == ASSUME DeliveryInv, RunsInv, Start PROVE RunsInv'
<1>1. /\ pc \in Halted /\ runs' = runs /\ starts' = starts + 1
      /\ \A k \in Keys : Same(k)
  BY SilentStep DEF Start, counters, Silent
<1> SUFFICES ASSUME NEW k \in Keys
             PROVE  /\ runs[k] <= MaxRetries + (starts + 1)
                    /\ Status(k) = "absent" /\ ~Gone(k) => runs[k] = 0
                    /\ Status(k) = "open" => runs[k] < Retries(k) + (starts + 1)
  <2>1. \A k \in Keys : /\ runs[k] \in Nat /\ Retries(k) \in Nat
                        /\ Retries(k)' = Retries(k)
    BY <1>1, RunsTypes DEF Same
  <2>2. starts' > 0 /\ starts \in Nat
    BY <1>1, RunsTypes
  <2> QED BY <1>1, <2>1, <2>2 DEF RunsInv, Same
<1> QED BY RunsTypes DEF RunsInv

LEMMA RunsStep == DeliveryInv /\ RunsInv /\ [Next]_vars => RunsInv'
<1> SUFFICES ASSUME DeliveryInv, RunsInv, [Next]_vars PROVE RunsInv'
  OBVIOUS
<1>1. CASE Record
  BY <1>1, RunsRecord
<1>2. CASE \E k \in Keys : StartScript(k)
  BY <1>2, RunsStartScript
<1>3. CASE ReportDone
  BY <1>3, RunsBooking
<1>4. CASE Start
  BY <1>4, RunsStart
<1>5. CASE CheckDay \/ \E complete \in SUBSET Reports : Collect(complete)
  <2>1. /\ UNCHANGED <<runs, starts>> /\ pc \in Running
        /\ \A k \in Keys : ~Spendable(k)
    BY <1>5, PcApart DEF CheckDay, Collect, counters, Running, Spendable, Current,
       Serving
  <2>2. DeliveryInv'
    BY <1>5, CheckDayStep, CollectStep
  <2>3. ASSUME NEW k \in Keys PROVE Same(k) \/ (Gone(k)' /\ Status(k)' # "open")
    <3>1. k = <<k[1], k[2]>> /\ k[1] \in Reports /\ k[2] \in Destinations
      BY DEF Keys
    <3>2. Gone(k)' => Status(k)' = "absent"
      BY <2>2, <3>1 DEF DeliveryInv, WholeReports, Whole, Gone, Status
    <3> QED BY <1>5, <3>2, CleanUpStep
  <2> QED BY <2>1, <2>3, RunsKept
<1>6. CASE \E k \in Keys : FallsDue(k)
  <2>1. /\ UNCHANGED <<runs, starts, pc, cur>> /\ \A k \in Keys : Same(k)
    BY <1>6, FallsDueSame DEF FallsDue, counters, locals
  <2> QED BY <2>1, RunsKept DEF Spendable, Current
<1>7. CASE Crash \/ Die \/ Terminate
  <2>1. /\ UNCHANGED <<runs, starts>> /\ pc' \in Halted
        /\ \A k \in Keys : Same(k)
    BY <1>7, SilentStep DEF Silent, Crash, Die, Terminate, Vanish, counters, Halted
  <2> QED BY <2>1, PcApart, RunsKept DEF Spendable
<1>8. CASE \/ ScriptReads \/ ScriptBreaksOff \/ ScriptBlocks
           \/ ScriptSucceeds \/ ScriptFails \/ ScriptTimesOut
  <2>1. /\ UNCHANGED <<runs, starts, cur>>
        /\ pc \in Serving /\ pc' \in Serving \cup {"record"}
    BY <1>8 DEF ScriptReads, ScriptBreaksOff, ScriptBlocks, ScriptSucceeds, ScriptFails,
       ScriptTimesOut, counters, locals, Serving
  <2>2. \A k \in Keys : Same(k)
    BY <1>8, SilentStep DEF Silent
  <2> QED BY <2>1, <2>2, PcApart, RunsKept DEF Spendable, Current
<1>9. CASE \/ BookDestination \/ CreateEnds \/ SendEnds \/ WakeUp
           \/ \E rep \in Reports : Render(rep)
           \/ \E k \in Keys : RefuseRua(k)
  <2>1. /\ UNCHANGED <<runs, starts>> /\ pc \in Running
        /\ \A k \in Keys : ~Spendable(k)
    BY <1>9 DEF BookDestination, CreateEnds, SendEnds, WakeUp, Render, RefuseRua,
       counters, Running, Spendable, Current, Serving, Halted
  <2>2. \A k \in Keys : Same(k)
    BY <1>9, SilentStep DEF Silent
  <2> QED BY <2>1, <2>2, RunsKept
<1>10. CASE \/ \E rep \in Reports : Expire(rep)
            \/ \E k \in Keys : OrphanEnds(k)
            \/ UNCHANGED vars
  <2>1. UNCHANGED <<runs, starts, pc, cur>>
    BY <1>10 DEF Expire, OrphanEnds, counters, locals, vars
  <2>2. \A k \in Keys : Same(k)
    BY <1>10, SilentStep DEF Silent
  <2> QED BY <2>1, <2>2, RunsKept DEF Spendable, Current
<1> QED BY <1>1, <1>2, <1>3, <1>4, <1>5, <1>6, <1>7, <1>8, <1>9, <1>10
        DEF Next, RunLoop, Surroundings

\* A destination costs at most max_retries_delivery retries after the first
\* run, and one run more for every restart, however scripts and process fail.
THEOREM RunsAreBounded == Spec => []BoundedRuns
<1>1. Init => DeliveryInv /\ RunsInv
  <2>1. Init => RunsInv
    <3> SUFFICES ASSUME Init PROVE RunsInv
      OBVIOUS
    <3>1. pc \notin Running /\ starts = 0
      BY DEF Init, Running
    <3>2. \A k \in Keys : runs[k] = 0 /\ Status(k) = "absent"
      BY DEF Init, Status, NoBooking
    <3> QED BY <3>1, <3>2, DeliveryOptions DEF RunsInv
  <2> QED BY <2>1, DeliveryInvInit
<1>2. RunsInv => BoundedRuns
  BY DEF RunsInv, BoundedRuns
<1> QED BY <1>1, <1>2, DeliveryInvStep, RunsStep, PTL DEF Spec

=============================================================================
