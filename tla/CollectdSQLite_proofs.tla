------------------------ MODULE CollectdSQLite_proofs ------------------------
(***************************************************************************)
(* Proofs about CollectdSQLite, for every value of its constants: the type *)
(* invariant, the conservation of rows, and that a sealed day is complete; *)
(* then its commit policy; and last that it implements SealedStore.        *)
(***************************************************************************)
EXTENDS CollectdSQLite, TLAPS

LEMMA SpendTypes ==
    ASSUME spent \in [Bounded -> Nat], NEW what \in Bounded, NEW bound,
           Spend(what, bound)
    PROVE  spent' \in [Bounded -> Nat]
BY DEF Spend

LEMMA BudgetKinds ==
    /\ "datagrams" \in Bounded /\ "starts" \in Bounded /\ "busy" \in Bounded
    /\ "full" \in Bounded /\ "partial" \in Bounded /\ "devel" \in Bounded
BY DEF Bounded

LEMMA RollbackTypes ==
    ASSUME TypeOK, Rollback
    PROVE  view' \in Contents /\ lost' \in [Dates -> Int]
<1>1. view' \in Contents
  BY DEF TypeOK, Rollback
<1>2. \A d \in Dates : live.rows[d] \in Nat /\ view.rows[d] \in Nat /\ lost[d] \in Int
  BY DEF TypeOK, Contents
<1>3. lost' \in [Dates -> Int]
  BY <1>2 DEF Rollback
<1>4. QED
  BY <1>1, <1>3

\* A commit, whatever its outcome, keeps the shape of what it changes.
LEMMA CommitTypes ==
    ASSUME TypeOK, DbCommit
    PROVE  /\ unc' \in Nat /\ overdue' \in BOOLEAN
           /\ live' \in Contents /\ view' \in Contents
           /\ lost' \in [Dates -> Int]
           /\ fails' \in Nat
           /\ spent' \in [Bounded -> Nat]
<1> USE DEF TypeOK
<1>1. overdue' \in BOOLEAN
  BY SwitchesAssumption DEF DbCommit, PushNextCommit
<1>2. ASSUME unc = 0, UNCHANGED <<unc, live, view, lost, fails, spent>>
      PROVE  /\ unc' \in Nat /\ live' \in Contents /\ view' \in Contents
             /\ lost' \in [Dates -> Int] /\ fails' \in Nat
             /\ spent' \in [Bounded -> Nat]
  BY <1>2
<1>3. ASSUME CommitSucceeds, unc' = 0
      PROVE  /\ unc' \in Nat /\ live' \in Contents /\ view' \in Contents
             /\ lost' \in [Dates -> Int] /\ fails' \in Nat
             /\ spent' \in [Bounded -> Nat]
  BY <1>3 DEF CommitSucceeds
<1>4. ASSUME CommitFails, UNCHANGED unc
      PROVE  /\ unc' \in Nat /\ live' \in Contents /\ view' \in Contents
             /\ lost' \in [Dates -> Int] /\ fails' \in Nat
             /\ spent' \in [Bounded -> Nat]
  <2>1. spent' \in [Bounded -> Nat]
    BY <1>4, SpendTypes, BudgetKinds DEF CommitFails
  <2>2. view' \in Contents /\ lost' \in [Dates -> Int]
    BY <1>4, RollbackTypes DEF CommitFails
  <2>3. QED
    BY <1>4, <2>1, <2>2 DEF CommitFails
<1>5. QED
  BY <1>1, <1>2, <1>3, <1>4 DEF DbCommit

LEMMA DateTypes ==
    /\ 0 \in Dates
    /\ \A d \in 1 .. LastDate : d \in Dates /\ d - 1 \in Dates
    /\ \A d \in 1 .. LastDate : d < LastDate => d + 1 \in 1 .. LastDate
BY BoundsAssumption DEF Dates

LEMMA BlankType == Blank \in Contents
BY DEF Blank, Contents

LEMMA GotoTypes ==
    ASSUME TypeOK, NEW label \in Running, Goto(label)
    PROVE  pc' \in Running \cup Halted /\ ev' \in Events
BY DEF Goto, TypeOK, Events

LEMMA KeepLocalsTypes ==
    ASSUME TypeOK, NEW label, KeepLocals(label)
    PROVE  datenow' \in Dates /\ yday' \in Dates
BY DateTypes DEF KeepLocals, TypeOK

LEMMA FileTypes ==
    ASSUME TypeOK, NEW n \in Nat, File(n)
    PROVE  view' \in Contents /\ added' \in [Dates -> Int]
<1>1. view.rows \in [Dates -> Nat] /\ datenow \in Dates /\ added \in [Dates -> Int]
  BY DEF TypeOK, Contents
<1>2. [view.rows EXCEPT ![datenow] = @ + n] \in [Dates -> Nat]
  BY <1>1
<1>3. view' = [view EXCEPT !.rows = [view.rows EXCEPT ![datenow] = @ + n]]
  BY DEF File, TypeOK, Contents
<1>4. view' \in Contents
  BY <1>2, <1>3 DEF TypeOK, Contents
<1>5. [added EXCEPT ![datenow] = @ + n] \in [Dates -> Int]
  BY <1>1
<1>6. QED
  BY <1>4, <1>5 DEF File

LEMMA RefileTypes ==
    ASSUME TypeOK, RefileToday
    PROVE  view' \in Contents /\ added' \in [Dates -> Int]
<1>1. Moved \in [Dates -> Nat]
  BY DEF Moved, Refiled, TypeOK, Contents
<1>2. view' \in Contents
  BY <1>1 DEF RefileToday, TypeOK, Contents
<1>3. \A d \in Dates : added[d] \in Int /\ Moved[d] \in Nat /\ view.rows[d] \in Nat
  BY <1>1 DEF TypeOK, Contents
<1>4. QED
  BY <1>2, <1>3 DEF RefileToday

LEMMA InsertTypes ==
    ASSUME TypeOK, InsertDaystatus
    PROVE  view' \in Contents
BY DEF InsertDaystatus, TypeOK, Contents

LEMMA VanishTypes ==
    ASSUME TypeOK, NEW label \in Halted, Vanish(label)
    PROVE  TypeOK'
<1>1. view' \in Contents /\ lost' \in [Dates -> Int]
  BY RollbackTypes DEF Vanish
<1>2. QED
  BY <1>1, DateTypes DEF Vanish, TypeOK, clock, disk, Events

LEMMA InitTypeOK == Init => TypeOK
<1> SUFFICES ASSUME Init PROVE TypeOK
  OBVIOUS
<1>1. /\ added \in [Dates -> Int] /\ lost \in [Dates -> Int]
      /\ removed \in [Dates -> Nat] /\ spent \in [Bounded -> Nat]
  BY DEF Init
<1>2. date \in 1 .. LastDate /\ pc \in Halted /\ ev \in Events
  BY BoundsAssumption DEF Init, Halted, Events
<1>3. QED
  BY <1>1, <1>2, BlankType, DateTypes DEF Init, TypeOK

LEMMA StepTypeOK == TypeOK /\ [Next]_vars => TypeOK'
<1> SUFFICES ASSUME TypeOK, [Next]_vars
             PROVE  TypeOK'
  OBVIOUS
<1> USE DEF TypeOK
<1>l. /\ {"exit", "idle", "seal", "relabel", "unlink", "rename", "connect",
          "setup", "ddl", "overdue", "count", "add", "timed", "begin"} \subseteq Running
      /\ Aborted \in Running
  BY DEF Running, Aborted
<1>1. ASSUME NEW e \in Received, Receive(e) PROVE TypeOK'
  <2>1. spent' \in [Bounded -> Nat]
    BY <1>1 DEF Receive
  <2>2. date \in Dates /\ e \in Events
    BY <1>1, DateTypes DEF Received, Events
  <2>3. pc' \in Running
    BY <1>1, <1>l DEF Receive
  <2>4. ev' \in Events /\ datenow' \in Dates
    BY <1>1, <2>2 DEF Receive
  <2>5. QED
    BY <1>1, <2>1, <2>3, <2>4 DEF Receive, clock, disk, history
<1>2. ASSUME NEW e \in {"timeout", "term"}, SocketTimeout(e) PROVE TypeOK'
  <2>1. pc' \in Running
    BY <1>2, <1>l DEF SocketTimeout
  <2>2. e \in Events
    BY DEF Events
  <2>3. QED
    BY <1>2, <2>1, <2>2 DEF SocketTimeout, clock, memory, disk, history
<1>3. ASSUME DevelRollover PROVE TypeOK'
  <2>1. spent' \in [Bounded -> Nat]
    BY <1>3, SpendTypes, BudgetKinds DEF DevelRollover
  <2>2. QED
    BY <1>3, <2>1, <1>l DEF DevelRollover, clock, memory, disk, history, Events
<1>4. ASSUME Begin PROVE TypeOK'
  <2>1. yday' \in Dates
    BY <1>4, DateTypes DEF Begin
  <2>2. pc' \in Running \cup Halted /\ ev' \in Events
    BY <1>4, GotoTypes, <1>l DEF Begin
  <2>3. QED
    BY <1>4, <2>1, <2>2, CommitTypes DEF Begin
<1>5. ASSUME RelabelConflict PROVE TypeOK'
  BY <1>5, GotoTypes, <1>l DEF RelabelConflict, clock, memory, disk, history
<1>6. ASSUME RelabelCommitted PROVE TypeOK'
  BY <1>6, GotoTypes, <1>l, RefileTypes DEF RelabelCommitted
<1>7. ASSUME RelabelFails PROVE TypeOK'
  <2>1. spent' \in [Bounded -> Nat]
    BY <1>7, SpendTypes, BudgetKinds DEF RelabelFails
  <2>2. view' \in Contents /\ added' \in [Dates -> Int] /\ lost' \in [Dates -> Int]
    BY <1>7, RefileTypes, RollbackTypes DEF RelabelFails
  <2>3. overdue' \in BOOLEAN
    BY <1>7, SwitchesAssumption DEF RelabelFails, Waited
  <2>4. /\ pc' \in Running \cup Halted /\ ev' \in Events
        /\ datenow' \in Dates /\ yday' \in Dates
    BY <1>7, GotoTypes, KeepLocalsTypes, <1>l DEF RelabelFails
  <2>5. QED
    BY <1>7, <2>1, <2>2, <2>3, <2>4 DEF RelabelFails, disk
<1>8. ASSUME SealConflict PROVE TypeOK'
  BY <1>8, GotoTypes, <1>l DEF SealConflict, clock, memory, disk, history
<1>9. ASSUME SealCommitted PROVE TypeOK'
  BY <1>9, GotoTypes, <1>l, InsertTypes DEF SealCommitted, clock, memory
<1>10. ASSUME SealFails PROVE TypeOK'
  <2>1. spent' \in [Bounded -> Nat]
    BY <1>10, SpendTypes, BudgetKinds DEF SealFails
  <2>2. view' \in Contents /\ lost' \in [Dates -> Int]
    BY <1>10, InsertTypes, RollbackTypes DEF SealFails
  <2>3. overdue' \in BOOLEAN
    BY <1>10, SwitchesAssumption DEF SealFails, Waited
  <2>4. /\ pc' \in Running \cup Halted /\ ev' \in Events
        /\ datenow' \in Dates /\ yday' \in Dates
    BY <1>10, GotoTypes, KeepLocalsTypes, <1>l DEF SealFails
  <2>5. QED
    BY <1>10, <2>1, <2>2, <2>3, <2>4 DEF SealFails, disk
<1>11. ASSUME Unlink PROVE TypeOK'
  <2>1. view' \in Contents /\ lost' \in [Dates -> Int]
    BY <1>11, RollbackTypes DEF Unlink
  <2>2. removed' \in [Dates -> Nat]
    <3>1. \A d \in Dates : removed[d] \in Nat /\ yest.rows[d] \in Nat
      BY DEF Contents
    <3>2. QED
      BY <1>11, <3>1 DEF Unlink
  <2>3. QED
    BY <1>11, <2>1, <2>2, BlankType, GotoTypes, <1>l DEF Unlink, clock, memory
<1>12. ASSUME Rename PROVE TypeOK'
  BY <1>12, BlankType, GotoTypes, <1>l DEF Rename, clock, memory, history
<1>13. ASSUME Connect PROVE TypeOK'
  BY <1>13, DateTypes, GotoTypes, <1>l DEF Connect, clock, disk, history
<1>14. ASSUME Setup PROVE TypeOK'
  BY <1>14, GotoTypes, <1>l DEF Setup, clock, memory, history
<1>15. ASSUME SetupDone PROVE TypeOK'
  BY <1>15, GotoTypes, KeepLocalsTypes, <1>l DEF SetupDone, clock, history
<1>16. ASSUME AddRows PROVE TypeOK'
  BY <1>16, FileTypes, GotoTypes, <1>l DEF AddRows, clock, disk
<1>17. ASSUME AddRowsInPart PROVE TypeOK'
  BY <1>17, FileTypes, GotoTypes, KeepLocalsTypes, <1>l DEF AddRowsInPart, clock, disk
<1>18. ASSUME CheckOverdue PROVE TypeOK'
  BY <1>18, CommitTypes, GotoTypes, <1>l DEF CheckOverdue
<1>19. ASSUME CheckCount PROVE TypeOK'
  BY <1>19, CommitTypes, GotoTypes, KeepLocalsTypes, <1>l DEF CheckCount
<1>20. ASSUME TimedCommit PROVE TypeOK'
  BY <1>20, CommitTypes, GotoTypes, KeepLocalsTypes, <1>l DEF TimedCommit
<1>21. ASSUME Exit PROVE TypeOK'
  BY <1>21, VanishTypes DEF Exit, Halted
<1>22. ASSUME Crash PROVE TypeOK'
  BY <1>22, VanishTypes DEF Crash, Halted
<1>23. ASSUME Start PROVE TypeOK'
  <2>1. spent' \in [Bounded -> Nat]
    BY <1>23, SpendTypes, BudgetKinds DEF Start
  <2>2. pc' \in Running \cup Halted /\ ev' \in Events /\ today' \in Dates
    BY <1>23, DateTypes DEF Start, Running, Halted, Events
  <2>3. QED
    BY <1>23, <2>1, <2>2 DEF Start, disk, history
<1>24. ASSUME TimePasses PROVE TypeOK'
  BY <1>24 DEF TimePasses, memory, disk, history
<1>25. ASSUME Midnight PROVE TypeOK'
  BY <1>25, DateTypes DEF Midnight, memory, disk, history
<1>26. ASSUME UNCHANGED vars PROVE TypeOK'
  BY <1>26 DEF vars
<1>27. QED
  BY <1>1, <1>2, <1>3, <1>4, <1>5, <1>6, <1>7, <1>8, <1>9, <1>10, <1>11, <1>12,
     <1>13, <1>14, <1>15, <1>16, <1>17, <1>18, <1>19, <1>20, <1>21, <1>22, <1>23,
     <1>24, <1>25, <1>26
     DEF Next, Handler, Environment

\* Whatever readers, full disks, crashes and restarts do, the process state,
\* the two database files and the histories keep their shape.
THEOREM TypeCorrect == Spec => []TypeOK
<1>1. QED
  BY InitTypeOK, StepTypeOK, PTL DEF Spec

-----------------------------------------------------------------------------
(* A sealed day is complete.  The control part of the invariant first: who *)
(* is how far behind the clock, and under which day a datagram is filed.   *)

LEMMA PcFacts ==
    /\ Aborted \in {"exit", "idle"}
    /\ Rolling \subseteq Running
    /\ Running \cap Halted = {}
BY DEF Aborted, Rolling, Running, Halted

LEMMA ControlInit == Init => KeepsPace /\ FilesToday
BY DEF Init, KeepsPace, FilesToday, Running, Rolling, Received

LEMMA ControlStep ==
    ASSUME Punctual, MaxDevel = 0, TypeOK, KeepsPace, FilesToday, [Next]_vars
    PROVE  KeepsPace' /\ FilesToday'
<1> USE DEF KeepsPace, FilesToday, Goto, Running, Rolling, Received
<1>t. /\ date \in Int /\ date' \in Int /\ today \in Int /\ today' \in Int
      /\ datenow \in Int /\ yday \in Int
  BY StepTypeOK, BoundsAssumption DEF TypeOK, Dates
<1>1. ASSUME NEW e \in Received, Receive(e) PROVE KeepsPace' /\ FilesToday'
  BY <1>1, <1>t DEF Receive, clock
<1>2. ASSUME NEW e \in {"timeout", "term"}, SocketTimeout(e)
      PROVE KeepsPace' /\ FilesToday'
  BY <1>2, <1>t DEF SocketTimeout, clock, memory
<1>3. ASSUME DevelRollover PROVE FALSE
  BY <1>3, BudgetKinds DEF DevelRollover, Spend, TypeOK
<1>4. ASSUME Begin PROVE KeepsPace' /\ FilesToday'
  BY <1>4, <1>t DEF Begin
<1>5. ASSUME RelabelConflict \/ RelabelCommitted \/ RelabelFails PROVE FALSE
  BY <1>5 DEF RelabelConflict, RelabelCommitted, RelabelFails
<1>6. ASSUME SealConflict PROVE KeepsPace' /\ FilesToday'
  BY <1>6, <1>t DEF SealConflict, clock, memory
<1>7. ASSUME SealCommitted PROVE KeepsPace' /\ FilesToday'
  BY <1>7, <1>t DEF SealCommitted, clock, memory
<1>8. ASSUME SealFails PROVE KeepsPace' /\ FilesToday'
  BY <1>8, <1>t, PcFacts DEF SealFails
<1>9. ASSUME Unlink PROVE KeepsPace' /\ FilesToday'
  BY <1>9, <1>t DEF Unlink, clock, memory
<1>10. ASSUME Rename PROVE KeepsPace' /\ FilesToday'
  BY <1>10, <1>t DEF Rename, clock, memory
<1>11. ASSUME Connect PROVE KeepsPace' /\ FilesToday'
  BY <1>11, <1>t DEF Connect, clock
<1>12. ASSUME Setup PROVE KeepsPace' /\ FilesToday'
  BY <1>12, <1>t DEF Setup, clock, memory
<1>13. ASSUME SetupDone PROVE KeepsPace' /\ FilesToday'
  BY <1>13, <1>t DEF SetupDone, KeepLocals, clock
<1>14. ASSUME AddRows PROVE KeepsPace' /\ FilesToday'
  BY <1>14, <1>t DEF AddRows, clock
<1>15. ASSUME AddRowsInPart PROVE KeepsPace' /\ FilesToday'
  BY <1>15, <1>t DEF AddRowsInPart, clock
<1>16. ASSUME CheckOverdue PROVE KeepsPace' /\ FilesToday'
  BY <1>16, <1>t DEF CheckOverdue
<1>17. ASSUME CheckCount PROVE KeepsPace' /\ FilesToday'
  BY <1>17, <1>t DEF CheckCount
<1>18. ASSUME TimedCommit PROVE KeepsPace' /\ FilesToday'
  BY <1>18, <1>t, PcFacts DEF TimedCommit
<1>19. ASSUME NEW label \in Halted, Vanish(label) PROVE KeepsPace' /\ FilesToday'
  BY <1>19 DEF Vanish, Halted
<1>20. ASSUME Exit \/ Crash PROVE KeepsPace' /\ FilesToday'
  BY <1>19, <1>20 DEF Exit, Crash, Halted
<1>21. ASSUME Start PROVE KeepsPace' /\ FilesToday'
  <2>1. CASE pc' \in {"idle", "setup"} /\ ev' \in {"none", "start"} /\ today' = date
    BY <1>21, <2>1, <1>t DEF Start
  <2>2. CASE pc' = "bricked" /\ ev' = ev
    BY <1>21, <2>2, <1>t DEF Start
  <2>3. QED
    BY <1>21, <2>1, <2>2 DEF Start
<1>22. ASSUME TimePasses PROVE KeepsPace' /\ FilesToday'
  BY <1>22, <1>t DEF TimePasses, memory
<1>23. ASSUME Midnight PROVE KeepsPace' /\ FilesToday'
  BY <1>23, <1>t DEF Midnight, memory
<1>24. ASSUME UNCHANGED vars PROVE KeepsPace' /\ FilesToday'
  BY <1>24 DEF vars
<1>25. QED
  BY <1>1, <1>2, <1>3, <1>4, <1>5, <1>6, <1>7, <1>8, <1>9, <1>10, <1>11, <1>12,
     <1>13, <1>14, <1>15, <1>16, <1>17, <1>18, <1>20, <1>21, <1>22, <1>23, <1>24
     DEF Next, Handler, Environment

\* The day a step may still file rows under never moves back.
LEMMA FloorStep ==
    ASSUME Punctual, MaxDevel = 0, TypeOK, KeepsPace, FilesToday, [Next]_vars
    PROVE  /\ Collecting <= Collecting' /\ Newest <= Newest' /\ date <= date'
           /\ Floor <= Floor' /\ Collecting <= Floor
<1> USE DEF Floor, Collecting, Newest, KeepsPace, Goto, Running, Rolling
<1>t. date \in Int /\ date' \in Int /\ today \in Int /\ today' \in Int
  BY StepTypeOK, BoundsAssumption DEF TypeOK, Dates
<1>h. KeepsPace'
  BY ControlStep
<1>1. CASE \E e \in Received : Receive(e)
  BY <1>1, <1>t DEF Receive, clock
<1>2. CASE SocketTimeout("timeout") \/ SocketTimeout("term") \/ DevelRollover
  BY <1>2, <1>t DEF SocketTimeout, DevelRollover, clock, memory
<1>3. CASE Begin \/ SealConflict \/ SealCommitted \/ Unlink \/ Rename
  BY <1>3, <1>t DEF Begin, SealConflict, SealCommitted, Unlink, Rename, clock, memory
<1>4. CASE RelabelConflict \/ RelabelCommitted \/ RelabelFails
  BY <1>4 DEF RelabelConflict, RelabelCommitted, RelabelFails
<1>5. CASE SealFails \/ TimedCommit
  BY <1>5, <1>t, PcFacts DEF SealFails, TimedCommit
<1>6. CASE Connect \/ Setup \/ SetupDone
  BY <1>6, <1>t DEF Connect, Setup, SetupDone, clock, memory
<1>7. CASE AddRows \/ AddRowsInPart \/ CheckOverdue \/ CheckCount
  BY <1>7, <1>t DEF AddRows, AddRowsInPart, CheckOverdue, CheckCount, clock
<1>8. CASE Exit \/ Crash
  <2>1. PICK label \in Halted : Vanish(label)
    BY <1>8 DEF Exit, Crash, Halted
  <2>2. pc' \in Halted /\ date' = date /\ pc \in Running
    BY <1>8, <2>1 DEF Vanish, clock, Exit, Crash
  <2>3. pc' \notin Running
    BY <2>2, PcFacts
  <2>4. QED
    BY <2>2, <2>3, <1>t
<1>9. CASE Start
  BY <1>9, <1>t DEF Start, Halted
<1>10. CASE TimePasses \/ Midnight \/ UNCHANGED vars
  BY <1>10, <1>t DEF TimePasses, Midnight, memory, vars
<1>11. QED
  BY <1>1, <1>2, <1>3, <1>4, <1>5, <1>6, <1>7, <1>8, <1>9, <1>10
     DEF Next, Handler, Environment

\* The data part of the invariant.
DataInv ==
    /\ Conservation
    /\ SealedComplete
    /\ LiveAndPastApart
    /\ ViewExtendsLive

Kept == UNCHANGED <<yest, added, removed>>
NotSwitching == pc' \notin {"unlink", "rename"}

LEMMA DataTypes ==
    ASSUME TypeOK
    PROVE  /\ \A d \in Dates : /\ view.rows[d] \in Nat /\ live.rows[d] \in Nat
                               /\ yest.rows[d] \in Nat /\ removed[d] \in Nat
                               /\ added[d] \in Int /\ lost[d] \in Int /\ d \in Int
           /\ view.done \subseteq Dates /\ live.done \subseteq Dates
           /\ yest.done \subseteq Dates
           /\ date \in Int /\ today \in Int /\ Collecting \in Int /\ Newest \in Int
<1>1. \A d \in Dates : /\ view.rows[d] \in Nat /\ live.rows[d] \in Nat
                        /\ yest.rows[d] \in Nat /\ removed[d] \in Nat
                        /\ added[d] \in Int /\ lost[d] \in Int
  BY DEF TypeOK, Contents
<1>2. /\ view.done \subseteq Dates /\ live.done \subseteq Dates
      /\ yest.done \subseteq Dates
  BY DEF TypeOK, Contents
<1>3. /\ \A d \in Dates : d \in Int
      /\ date \in Int /\ today \in Int /\ Collecting \in Int /\ Newest \in Int
  BY BoundsAssumption DEF TypeOK, Dates, Collecting, Newest
<1>4. QED
  BY <1>1, <1>2, <1>3

\* A step that leaves the rows alone, or commits them, keeps the data part.
LEMMA KeepRows ==
    ASSUME TypeOK, TypeOK', DataInv,
           Collecting <= Collecting', Newest <= Newest', date <= date',
           Kept, NotSwitching, view' = view, lost' = lost,
           live' \in {live, view}
    PROVE  DataInv'
<1>1. Conservation' /\ SealedComplete'
  BY DEF DataInv, Conservation, SealedComplete, Kept
<1>2. LiveAndPastApart'
  <2> SUFFICES ASSUME NEW d \in Dates
               PROVE  /\ Past(d)' => d < Collecting'
                      /\ view'.rows[d] # 0 => ~Past(d)'
                      /\ d \in view'.done => ~Past(d)' /\ d < date'
                      /\ view'.rows[d] # 0 => d <= Newest'
    BY DEF LiveAndPastApart
  <2>1. Past(d)' = Past(d)
    BY DEF Past, Kept
  <2>2. /\ d \in Int /\ Collecting \in Int /\ Collecting' \in Int /\ Newest \in Int
        /\ Newest' \in Int /\ date \in Int /\ date' \in Int
    BY BoundsAssumption DEF TypeOK, Dates, Collecting, Newest
  <2>3. QED
    BY <2>1, <2>2 DEF DataInv, LiveAndPastApart
<1>3. ViewExtendsLive'
  BY DataTypes DEF DataInv, ViewExtendsLive, NotSwitching
<1>4. QED
  BY <1>1, <1>2, <1>3 DEF DataInv

\* A rollback only turns rows that were never sealed into lost ones.
LEMMA RollbackRows ==
    ASSUME TypeOK, TypeOK', DataInv,
           Collecting <= Collecting', Newest <= Newest', date <= date',
           Kept, NotSwitching, Rollback, UNCHANGED live
    PROVE  DataInv'
<1>t. \A d \in Dates : /\ view'.rows[d] = live.rows[d]
                       /\ lost'[d] = lost[d] + view.rows[d] - live.rows[d]
                       /\ Past(d)' = Past(d)
  BY DEF Rollback, Past, Kept
<1>1. Conservation'
  BY <1>t, DataTypes DEF DataInv, Conservation, Kept
<1>2. SealedComplete'
  <2> SUFFICES ASSUME NEW d \in yest.done
               PROVE  added[d] = yest.rows[d] + lost'[d]
    BY DEF SealedComplete, Kept
  <2>1. d \in Dates
    BY DataTypes
  <2>2. view.rows[d] = 0 /\ live.rows[d] <= view.rows[d]
    BY <2>1 DEF DataInv, LiveAndPastApart, ViewExtendsLive, Past
  <2>3. added[d] = yest.rows[d] + lost[d]
    BY DEF DataInv, SealedComplete
  <2>4. QED
    BY <1>t, <2>1, <2>2, <2>3, DataTypes
<1>3. LiveAndPastApart'
  <2> SUFFICES ASSUME NEW d \in Dates
               PROVE  /\ Past(d)' => d < Collecting'
                      /\ view'.rows[d] # 0 => ~Past(d)'
                      /\ d \in view'.done => ~Past(d)' /\ d < date'
                      /\ view'.rows[d] # 0 => d <= Newest'
    BY DEF LiveAndPastApart
  <2>1. /\ d \in Int /\ Collecting \in Int /\ Collecting' \in Int /\ Newest \in Int
        /\ Newest' \in Int /\ date \in Int /\ date' \in Int
    BY BoundsAssumption DEF TypeOK, Dates, Collecting, Newest
  <2>2. /\ view'.rows[d] # 0 => view.rows[d] # 0
        /\ d \in view'.done => d \in view.done
    BY <1>t, DataTypes DEF DataInv, ViewExtendsLive, Rollback
  <2>3. QED
    BY <1>t, <2>1, <2>2 DEF DataInv, LiveAndPastApart
<1>4. ViewExtendsLive'
  BY <1>t, DataTypes DEF DataInv, ViewExtendsLive, NotSwitching, Rollback
<1>5. QED
  BY <1>1, <1>2, <1>3, <1>4 DEF DataInv

\* _db_commit keeps the data part whatever its outcome.
LEMMA CommitRows ==
    ASSUME TypeOK, TypeOK', DataInv,
           Collecting <= Collecting', Newest <= Newest', date <= date',
           Kept, NotSwitching, DbCommit
    PROVE  DataInv'
<1>1. \/ view' = view /\ lost' = lost /\ live' \in {live, view}
      \/ Rollback /\ UNCHANGED live
  BY DEF DbCommit, CommitSucceeds, CommitFails
<1>2. QED
  BY <1>1, KeepRows, RollbackRows

\* INSERT INTO daystatus: the day is the one being collected, which is over.
LEMMA InsertRows ==
    ASSUME TypeOK, TypeOK', DataInv, KeepsPace,
           Collecting <= Collecting', Newest <= Newest', date <= date',
           Kept, pc = "seal", pc' # "rename", InsertDaystatus, lost' = lost,
           \/ live' = view'
           \/ live' = live /\ pc' # "unlink"
    PROVE  DataInv'
<1>t. /\ \A d \in Dates : view'.rows[d] = view.rows[d] /\ Past(d)' = Past(d)
      /\ view'.done = view.done \cup {yday}
  BY DEF InsertDaystatus, Past, Kept, TypeOK, Contents
<1>1. Conservation' /\ SealedComplete'
  BY <1>t DEF DataInv, Conservation, SealedComplete, Kept
<1>2. LiveAndPastApart'
  <2> SUFFICES ASSUME NEW d \in Dates
               PROVE  /\ Past(d)' => d < Collecting'
                      /\ view'.rows[d] # 0 => ~Past(d)'
                      /\ d \in view'.done => ~Past(d)' /\ d < date'
                      /\ view'.rows[d] # 0 => d <= Newest'
    BY DEF LiveAndPastApart
  <2>1. /\ d \in Int /\ Collecting \in Int /\ Collecting' \in Int /\ Newest \in Int
        /\ Newest' \in Int /\ date \in Int /\ date' \in Int
    BY BoundsAssumption DEF TypeOK, Dates, Collecting, Newest
  <2>2. yday = today /\ today < date /\ Collecting = today
    BY DEF KeepsPace, Collecting, Running, Rolling
  <2>3. yday \in Dates /\ ~Past(yday)
    BY <2>2, DataTypes DEF DataInv, LiveAndPastApart, TypeOK
  <2>4. QED
    BY <1>t, <2>1, <2>2, <2>3, DataTypes DEF DataInv, LiveAndPastApart
<1>3. ViewExtendsLive'
  BY <1>t, DataTypes DEF DataInv, ViewExtendsLive
<1>4. QED
  BY <1>1, <1>2, <1>3 DEF DataInv

\* A datagram is filed under the day being collected, which nothing has sealed.
LEMMA FileRows ==
    ASSUME TypeOK, TypeOK', DataInv, KeepsPace, FilesToday,
           Collecting <= Collecting', Newest <= Newest', date <= date',
           NEW n \in Nat, File(n), pc = "add", NotSwitching,
           UNCHANGED <<yest, removed, live, lost>>
    PROVE  DataInv'
<1>t. /\ datenow \in Dates /\ datenow = today /\ Collecting = today /\ Newest = today
      /\ ~Past(datenow)
  BY DataTypes DEF DataInv, LiveAndPastApart, FilesToday, Collecting, Newest, Running, TypeOK
<1>v. /\ view'.done = view.done
      /\ \A d \in Dates :
             /\ Past(d)' = Past(d)
             /\ view'.rows[d] = IF d = datenow THEN view.rows[d] + n ELSE view.rows[d]
             /\ added'[d] = IF d = datenow THEN added[d] + n ELSE added[d]
  BY DEF File, Past, TypeOK, Contents
<1>1. Conservation'
  BY <1>v, DataTypes DEF DataInv, Conservation
<1>2. SealedComplete'
  <2> SUFFICES ASSUME NEW d \in yest.done
               PROVE  added'[d] = yest.rows[d] + lost[d]
    BY DEF SealedComplete
  <2>1. d \in Dates /\ d # datenow
    BY <1>t, DataTypes DEF Past
  <2>2. QED
    BY <1>v, <2>1 DEF DataInv, SealedComplete
<1>3. LiveAndPastApart'
  <2> SUFFICES ASSUME NEW d \in Dates
               PROVE  /\ Past(d)' => d < Collecting'
                      /\ view'.rows[d] # 0 => ~Past(d)'
                      /\ d \in view'.done => ~Past(d)' /\ d < date'
                      /\ view'.rows[d] # 0 => d <= Newest'
    BY DEF LiveAndPastApart
  <2>1. /\ d \in Int /\ Collecting \in Int /\ Collecting' \in Int /\ Newest \in Int
        /\ Newest' \in Int /\ date \in Int /\ date' \in Int
    BY BoundsAssumption DEF TypeOK, Dates, Collecting, Newest
  <2>2. QED
    BY <1>t, <1>v, <2>1 DEF DataInv, LiveAndPastApart
<1>4. ViewExtendsLive'
  BY <1>v, DataTypes DEF DataInv, ViewExtendsLive, NotSwitching
<1>5. QED
  BY <1>1, <1>2, <1>3, <1>4 DEF DataInv

LEMMA BlankFacts == Blank.done = {} /\ \A d \in Dates : Blank.rows[d] = 0
BY DEF Blank

\* What the old ".yesterday" file held becomes removed, and nothing else moves.
LEMMA UnlinkRows ==
    ASSUME TypeOK, TypeOK', DataInv,
           Collecting <= Collecting', Newest <= Newest', date <= date', Unlink
    PROVE  DataInv'
<1>t. /\ view = live /\ view' = live /\ live' = live /\ yest' = Blank
      /\ pc' = "rename"
      /\ \A d \in Dates : /\ removed'[d] = removed[d] + yest.rows[d]
                          /\ lost'[d] = lost[d] + view.rows[d] - live.rows[d]
                          /\ added'[d] = added[d]
  BY DEF Unlink, Rollback, DataInv, ViewExtendsLive, Goto
<1>l. \A d \in Dates : lost'[d] = lost[d]
  BY <1>t, DataTypes
<1>p. \A d \in Dates : Past(d)' => Past(d)
  BY <1>t, BlankFacts, DataTypes DEF Past
<1>1. Conservation'
  BY <1>t, <1>l, BlankFacts, DataTypes DEF DataInv, Conservation
<1>2. SealedComplete'
  BY <1>t, BlankFacts DEF SealedComplete
<1>3. LiveAndPastApart'
  <2> SUFFICES ASSUME NEW d \in Dates
               PROVE  /\ Past(d)' => d < Collecting'
                      /\ view'.rows[d] # 0 => ~Past(d)'
                      /\ d \in view'.done => ~Past(d)' /\ d < date'
                      /\ view'.rows[d] # 0 => d <= Newest'
    BY DEF LiveAndPastApart
  <2>1. /\ d \in Int /\ Collecting \in Int /\ Collecting' \in Int /\ Newest \in Int
        /\ Newest' \in Int /\ date \in Int /\ date' \in Int
    BY BoundsAssumption DEF TypeOK, Dates, Collecting, Newest
  <2>2. QED
    BY <1>t, <1>p, <2>1 DEF DataInv, LiveAndPastApart
<1>4. ViewExtendsLive'
  BY <1>t, DataTypes DEF DataInv, ViewExtendsLive
<1>5. QED
  BY <1>1, <1>2, <1>3, <1>4 DEF DataInv

\* The live file becomes the ".yesterday" file: every day in it is over, and a
\* sealed one has all its rows there because none was ever removed.
LEMMA RenameRows ==
    ASSUME TypeOK, TypeOK', DataInv, KeepsPace, Rename
    PROVE  DataInv'
<1>t. /\ view = live /\ yest = Blank /\ yest' = live /\ live' = Blank
      /\ view' = Blank /\ pc' = "connect"
      /\ UNCHANGED <<added, lost, removed>>
  BY DEF Rename, DataInv, ViewExtendsLive, Goto, history
<1>c. /\ Collecting = today /\ Newest = today /\ today < date
      /\ Collecting' = date
  BY <1>t DEF Rename, KeepsPace, Collecting, Newest, Running, Rolling, clock, memory
<1>1. Conservation'
  BY <1>t, BlankFacts, DataTypes DEF DataInv, Conservation
<1>2. SealedComplete'
  <2> SUFFICES ASSUME NEW d \in live.done
               PROVE  added[d] = live.rows[d] + lost[d]
    BY <1>t DEF SealedComplete
  <2>1. d \in Dates /\ removed[d] = 0
    BY <1>t, DataTypes DEF DataInv, LiveAndPastApart, Past
  <2>2. QED
    BY <1>t, <2>1, BlankFacts, DataTypes DEF DataInv, Conservation
<1>3. LiveAndPastApart'
  <2> SUFFICES ASSUME NEW d \in Dates, Past(d)'
               PROVE  d < date
    BY <1>t, <1>c, BlankFacts DEF LiveAndPastApart
  <2>1. live.rows[d] # 0 \/ removed[d] # 0 \/ d \in live.done
    BY <1>t DEF Past
  <2>2. CASE removed[d] # 0
    BY <1>c, <2>2, DataTypes DEF DataInv, LiveAndPastApart, Past
  <2>3. CASE live.rows[d] # 0 \/ d \in live.done
    BY <1>t, <1>c, <2>3, DataTypes DEF DataInv, LiveAndPastApart
  <2>4. QED
    BY <2>1, <2>2, <2>3
<1>4. ViewExtendsLive'
  BY <1>t, BlankFacts DEF ViewExtendsLive
<1>5. QED
  BY <1>1, <1>2, <1>3, <1>4 DEF DataInv

LEMMA DataInit == Init => DataInv
<1> SUFFICES ASSUME Init PROVE DataInv
  OBVIOUS
<1>1. /\ pc = "down" /\ view = Blank /\ live = Blank /\ yest = Blank
      /\ \A d \in Dates : added[d] = 0 /\ lost[d] = 0 /\ removed[d] = 0
  BY DEF Init
<1>2. QED
  BY <1>1, BlankFacts DEF DataInv, Conservation, SealedComplete,
     LiveAndPastApart, ViewExtendsLive, Past

LEMMA DataStep ==
    ASSUME Punctual, MaxDevel = 0, TypeOK, KeepsPace, FilesToday, DataInv, [Next]_vars
    PROVE  DataInv'
<1>t. TypeOK'
  BY StepTypeOK
<1>f. Collecting <= Collecting' /\ Newest <= Newest' /\ date <= date'
  BY FloorStep
<1> USE DEF Kept, NotSwitching, Goto
<1>1. ASSUME NEW e \in Received, Receive(e) PROVE DataInv'
  BY <1>1, <1>t, <1>f, KeepRows DEF Receive, disk, history
<1>2. ASSUME NEW e \in {"timeout", "term"}, SocketTimeout(e) PROVE DataInv'
  BY <1>2, <1>t, <1>f, KeepRows DEF SocketTimeout, disk, history
<1>3. ASSUME DevelRollover PROVE FALSE
  BY <1>3, BudgetKinds DEF DevelRollover, Spend, TypeOK
<1>4. ASSUME Begin PROVE DataInv'
  BY <1>4, <1>t, <1>f, CommitRows DEF Begin
<1>5. ASSUME RelabelConflict \/ RelabelCommitted \/ RelabelFails PROVE FALSE
  BY <1>5 DEF RelabelConflict, RelabelCommitted, RelabelFails, KeepsPace
<1>6. ASSUME SealConflict PROVE DataInv'
  BY <1>6, <1>t, <1>f, KeepRows DEF SealConflict, disk, history
<1>7. ASSUME SealCommitted PROVE DataInv'
  BY <1>7, <1>t, <1>f, InsertRows DEF SealCommitted
<1>8. ASSUME SealFails PROVE DataInv'
  <2>1. CASE InsertDaystatus /\ UNCHANGED lost
    BY <1>8, <2>1, <1>t, <1>f, InsertRows, PcFacts DEF SealFails, disk
  <2>2. CASE Rollback
    BY <1>8, <2>2, <1>t, <1>f, RollbackRows, PcFacts DEF SealFails, disk
  <2>3. QED
    BY <1>8, <2>1, <2>2 DEF SealFails
<1>9. ASSUME Unlink PROVE DataInv'
  BY <1>9, <1>t, <1>f, UnlinkRows
<1>10. ASSUME Rename PROVE DataInv'
  BY <1>10, <1>t, RenameRows
<1>11. ASSUME Connect \/ Setup PROVE DataInv'
  BY <1>11, <1>t, <1>f, KeepRows DEF Connect, Setup, disk, history
<1>12. ASSUME SetupDone PROVE DataInv'
  BY <1>12, <1>t, <1>f, KeepRows DEF SetupDone, history
<1>13. ASSUME AddRows PROVE DataInv'
  BY <1>13, <1>t, <1>f, FileRows DEF AddRows, disk
<1>14. ASSUME AddRowsInPart PROVE DataInv'
  BY <1>14, <1>t, <1>f, FileRows DEF AddRowsInPart, disk
<1>15. ASSUME CheckOverdue PROVE DataInv'
  BY <1>15, <1>t, <1>f, CommitRows, KeepRows DEF CheckOverdue
<1>16. ASSUME CheckCount PROVE DataInv'
  BY <1>16, <1>t, <1>f, CommitRows, KeepRows DEF CheckCount
<1>17. ASSUME TimedCommit PROVE DataInv'
  BY <1>17, <1>t, <1>f, CommitRows, PcFacts DEF TimedCommit
<1>18. ASSUME NEW label \in Halted, Vanish(label) PROVE DataInv'
  BY <1>18, <1>t, <1>f, RollbackRows DEF Vanish, disk, Halted
<1>19. ASSUME Exit \/ Crash PROVE DataInv'
  BY <1>18, <1>19 DEF Exit, Crash, Halted
<1>20. ASSUME Start PROVE DataInv'
  BY <1>20, <1>t, <1>f, KeepRows DEF Start, disk, history
<1>21. ASSUME TimePasses PROVE DataInv'
  <2>1. CASE NotSwitching
    BY <1>21, <2>1, <1>t, <1>f, KeepRows DEF TimePasses, disk, history
  <2>2. QED
    BY <1>21, <2>1 DEF TimePasses
<1>22. ASSUME Midnight \/ UNCHANGED vars PROVE DataInv'
  <2>1. /\ UNCHANGED <<pc, view, live, yest, added, removed, lost>>
    BY <1>22 DEF Midnight, vars, disk, history
  <2>2. CASE NotSwitching
    BY <2>1, <2>2, <1>t, <1>f, KeepRows
  <2>3. CASE pc' \in {"unlink", "rename"}
    <3>1. Conservation' /\ SealedComplete' /\ ViewExtendsLive'
      BY <2>1 DEF DataInv, Conservation, SealedComplete, ViewExtendsLive
    <3>2. LiveAndPastApart'
      <4>1. \A d \in Dates : d \in Int
        BY DataTypes
      <4>2. /\ Collecting \in Int /\ Collecting' \in Int /\ Newest \in Int
            /\ Newest' \in Int /\ date \in Int /\ date' \in Int
        BY <1>t, BoundsAssumption DEF TypeOK, Dates, Collecting, Newest
      <4>3. \A d \in Dates : Past(d)' = Past(d)
        BY <2>1 DEF Past
      <4>4. QED
        BY <2>1, <1>f, <4>1, <4>2, <4>3 DEF DataInv, LiveAndPastApart
    <3>3. QED
      BY <3>1, <3>2 DEF DataInv
  <2>4. QED
    BY <2>2, <2>3
<1>23. QED
  BY <1>1, <1>2, <1>3, <1>4, <1>5, <1>6, <1>7, <1>8, <1>9, <1>10, <1>11, <1>12,
     <1>13, <1>14, <1>15, <1>16, <1>17, <1>19, <1>20, <1>21, <1>22
     DEF Next, Handler, Environment

\* For a process that keeps pace with the calendar, at every moment and after
\* any failed commits, crashes and restarts: the ".yesterday" file holds, for
\* every day it declares complete, all rows ever filed under that day except
\* those a rollback took.
THEOREM SealedDayIsComplete ==
    ASSUME Punctual, MaxDevel = 0
    PROVE  Spec => []SealedComplete
<1>1. Init => SealedInv
  BY InitTypeOK, ControlInit, DataInit DEF SealedInv, DataInv
<1>2. SealedInv /\ [Next]_vars => SealedInv'
  BY StepTypeOK, ControlStep, DataStep DEF SealedInv, DataInv
<1>3. SealedInv => SealedComplete
  BY DEF SealedInv
<1>4. QED
  BY <1>1, <1>2, <1>3, PTL DEF Spec

-----------------------------------------------------------------------------
(* No row is copied or dropped, also by late processes and development     *)
(* rollovers, which SealedDayIsComplete excludes.                          *)

\* While the files are switched nothing is pending, and the target is free.
SwitchClean ==
    /\ pc \in {"unlink", "rename"} => view = live
    /\ pc = "rename" => yest = Blank

PlacedInv == TypeOK /\ Conservation /\ SwitchClean

\* A rollback moves rows from the connection's view to the lost ones.
LEMMA RollbackConserves ==
    ASSUME TypeOK, Conservation, Rollback, UNCHANGED <<yest, added, removed>>
    PROVE  Conservation'
BY DataTypes DEF Rollback, Conservation

LEMMA CommitConserves ==
    ASSUME TypeOK, Conservation, DbCommit, UNCHANGED <<yest, added, removed>>
    PROVE  Conservation'
<1>1. (view' = view /\ lost' = lost) \/ Rollback
  BY DEF DbCommit, CommitSucceeds, CommitFails
<1>2. QED
  BY <1>1, RollbackConserves DEF Conservation

LEMMA RefileConserves ==
    ASSUME TypeOK, Conservation, RefileToday, UNCHANGED <<yest, lost, removed>>
    PROVE  Conservation'
<1>1. Moved \in [Dates -> Nat]
  BY DEF Moved, Refiled, TypeOK, Contents
<1>2. \A d \in Dates : /\ view'.rows[d] = Moved[d] /\ Moved[d] \in Nat
                       /\ added'[d] = added[d] + Moved[d] - view.rows[d]
  BY <1>1 DEF RefileToday, TypeOK, Contents
<1>3. QED
  BY <1>2, DataTypes DEF Conservation

LEMMA FileConserves ==
    ASSUME TypeOK, Conservation, NEW n \in Nat, File(n),
           UNCHANGED <<yest, lost, removed>>
    PROVE  Conservation'
<1>1. datenow \in Dates
  BY DEF TypeOK
<1>2. \A d \in Dates :
          /\ view'.rows[d] = IF d = datenow THEN view.rows[d] + n ELSE view.rows[d]
          /\ added'[d] = IF d = datenow THEN added[d] + n ELSE added[d]
  BY DEF File, TypeOK, Contents
<1>3. QED
  BY <1>2, DataTypes DEF Conservation

LEMMA InsertConserves ==
    ASSUME TypeOK, Conservation, InsertDaystatus,
           UNCHANGED <<yest, added, lost, removed>>
    PROVE  Conservation'
<1>1. view'.rows = view.rows
  BY DEF InsertDaystatus, TypeOK, Contents
<1>2. QED
  BY <1>1 DEF Conservation

LEMMA PlacedStep == PlacedInv /\ [Next]_vars => PlacedInv'
<1> SUFFICES ASSUME PlacedInv, [Next]_vars
             PROVE  Conservation' /\ SwitchClean'
  BY StepTypeOK DEF PlacedInv
<1> USE DEF PlacedInv, SwitchClean, Goto
<1>1. CASE (\E e \in Received : Receive(e)) \/ SocketTimeout("timeout")
           \/ SocketTimeout("term") \/ DevelRollover \/ Start
  BY <1>1 DEF Receive, SocketTimeout, DevelRollover, Start, disk, history, Conservation
<1>2. CASE Begin \/ CheckOverdue \/ CheckCount \/ TimedCommit
  <2>1. Conservation'
    BY <1>2, CommitConserves
       DEF Begin, CheckOverdue, CheckCount, TimedCommit, Conservation
  <2>2. QED
    BY <1>2, <2>1, PcFacts DEF Begin, CheckOverdue, CheckCount, TimedCommit
<1>3. CASE RelabelConflict \/ SealConflict
  BY <1>3 DEF RelabelConflict, SealConflict, disk, history, Conservation
<1>4. CASE RelabelCommitted
  BY <1>4, RefileConserves DEF RelabelCommitted
<1>5. CASE RelabelFails
  BY <1>5, RefileConserves, RollbackConserves, PcFacts DEF RelabelFails, disk
<1>6. CASE SealCommitted
  BY <1>6, InsertConserves DEF SealCommitted
<1>7. CASE SealFails
  BY <1>7, InsertConserves, RollbackConserves, PcFacts DEF SealFails, disk
<1>8. CASE Unlink
  <2>1. \A d \in Dates : /\ removed'[d] = removed[d] + yest.rows[d]
                         /\ yest'.rows[d] = 0 /\ view'.rows[d] = view.rows[d]
                         /\ lost'[d] = lost[d] + view.rows[d] - live.rows[d]
                         /\ view.rows[d] = live.rows[d] /\ added'[d] = added[d]
    BY <1>8, BlankFacts DEF Unlink, Rollback
  <2>2. Conservation'
    BY <2>1, DataTypes DEF Conservation
  <2>3. QED
    BY <1>8, <2>2 DEF Unlink, Rollback
<1>9. CASE Rename
  <2>1. \A d \in Dates : /\ view'.rows[d] = 0 /\ yest'.rows[d] = view.rows[d]
                         /\ yest.rows[d] = 0
    BY <1>9, BlankFacts DEF Rename
  <2>2. Conservation'
    BY <1>9, <2>1, DataTypes DEF Conservation, Rename, history
  <2>3. QED
    BY <1>9, <2>2 DEF Rename
<1>10. CASE Connect \/ Setup \/ SetupDone
  BY <1>10 DEF Connect, Setup, SetupDone, disk, history, Conservation
<1>11. CASE AddRows \/ AddRowsInPart
  BY <1>11, FileConserves DEF AddRows, AddRowsInPart, disk
<1>12. CASE Exit \/ Crash
  <2>1. PICK label \in Halted : Vanish(label)
    BY <1>12 DEF Exit, Crash, Halted
  <2>2. QED
    BY <2>1, RollbackConserves DEF Vanish, disk, Halted
<1>13. CASE TimePasses \/ Midnight \/ UNCHANGED vars
  BY <1>13 DEF TimePasses, Midnight, vars, disk, history, Conservation
<1>14. QED
  BY <1>1, <1>2, <1>3, <1>4, <1>5, <1>6, <1>7, <1>8, <1>9, <1>10, <1>11, <1>12,
     <1>13 DEF Next, Handler, Environment

\* Every row is in exactly one place, for every setting of the options and
\* whatever the environment does: the rollover never copies or drops a row.
THEOREM RowsAreConserved == Spec => []Conservation
<1>1. Init => PlacedInv
  <2>1. Init => Conservation
    BY BlankFacts DEF Init, Conservation
  <2>2. QED
    BY <2>1, InitTypeOK DEF Init, PlacedInv, SwitchClean
<1>2. PlacedInv => Conservation
  BY DEF PlacedInv
<1>3. QED
  BY <1>1, <1>2, PlacedStep, PTL DEF Spec

-----------------------------------------------------------------------------
(***************************************************************************)
(* The commit policy: what an orderly life never loses, how much is at risk*)
(* between two commits, and what a half set up database holds.              *)
(***************************************************************************)

\* The steps that leave the database and the commit bookkeeping alone.
Plain ==
    \/ \E e \in Received : Receive(e)
    \/ SocketTimeout("timeout") \/ SocketTimeout("term") \/ DevelRollover
    \/ RelabelConflict \/ SealConflict \/ Midnight \/ UNCHANGED vars

LEMMA PlainSteps ==
    ASSUME Plain
    PROVE  /\ UNCHANGED <<live, view, file, lost, unc, overdue, fails>>
           /\ pc' # pc => pc' \in Running
           /\ pc' \in {"overdue", "count", "relabel", "unlink", "rename",
                       "connect", "setup", "ddl"} => pc' = pc
           /\ pc' = "seal" => pc' = pc
           /\ pc' = "idle" => pc' = pc
BY DEF Plain, Receive, SocketTimeout, DevelRollover, RelabelConflict, SealConflict,
   Midnight, Goto, Running, clock, memory, disk, history, vars

-----------------------------------------------------------------------------
(* A database that was only half set up.                                   *)

\* A file that is not set up has no rows, and only start and rollover meet it.
TornInv ==
    /\ file # "ready" => live = Blank /\ pc \in Halted \cup {"connect", "setup", "ddl"}
    /\ pc \in {"connect", "setup"} => file = "none"
    /\ pc \in {"setup", "connect", "ddl"} => live = Blank

LEMMA TornStep == TornInv /\ [Next]_vars => TornInv'
<1> SUFFICES ASSUME TornInv, [Next]_vars PROVE TornInv'
  OBVIOUS
<1> USE DEF TornInv, Goto, Halted
<1>1. CASE Plain
  <2>1. /\ UNCHANGED <<live, file>>
        /\ pc' \in {"connect", "setup", "ddl"} => pc' = pc
    BY <1>1, PlainSteps
  <2>2. pc \in Halted \cup {"connect", "setup", "ddl"} => pc' = pc
    BY <1>1 DEF Plain, Receive, SocketTimeout, DevelRollover, RelabelConflict,
       SealConflict, Midnight, vars
  <2>3. QED
    BY <2>1, <2>2
<1>2. CASE Begin \/ CheckOverdue \/ CheckCount \/ TimedCommit
  BY <1>2, PcFacts DEF Begin, CheckOverdue, CheckCount, TimedCommit
<1>3. CASE RelabelCommitted \/ RelabelFails \/ SealCommitted \/ SealFails
  BY <1>3, PcFacts DEF RelabelCommitted, RelabelFails, SealCommitted, SealFails, disk
<1>4. CASE Unlink
  BY <1>4 DEF Unlink
<1>5. CASE Rename
  BY <1>5 DEF Rename
<1>6. CASE Connect
  BY <1>6 DEF Connect, disk
<1>7. CASE Setup
  BY <1>7 DEF Setup
<1>8. CASE SetupDone
  BY <1>8 DEF SetupDone
<1>9. CASE AddRows \/ AddRowsInPart
  BY <1>9 DEF AddRows, AddRowsInPart, disk
<1>10. CASE Exit \/ Crash
  BY <1>10 DEF Exit, Crash, Vanish, disk
<1>11. CASE Start
  BY <1>11 DEF Start, disk
<1>12. CASE TimePasses
  BY <1>12 DEF TimePasses, disk
<1>13. QED
  BY <1>1, <1>2, <1>3, <1>4, <1>5, <1>6, <1>7, <1>8, <1>9, <1>10, <1>11, <1>12
     DEF Next, Handler, Environment, Plain

\* A database that is absent or half set up, whatever crash left it so, holds
\* nothing: it may be deleted to let the daemon start again.
THEOREM TornDatabaseIsEmpty == Spec => []TornHoldsNothing
<1>1. Init => TornInv
  BY DEF Init, TornInv, Halted
<1>2. TornInv => TornHoldsNothing
  BY DEF TornInv, TornHoldsNothing
<1>3. QED
  BY <1>1, <1>2, TornStep, PTL DEF Spec

-----------------------------------------------------------------------------
(* An orderly life.                                                        *)

\* No commit failed, no datagram was interrupted, and nothing is killed.
Orderly == ~Crashes /\ spent.busy = 0 /\ spent.full = 0 /\ spent.partial = 0

\* Without uncommitted datagrams the connection sees what is committed, and so
\* it does wherever the transaction could be thrown away.
OrderlyInv ==
    Orderly =>
        /\ \A d \in Dates : lost[d] = 0
        /\ unc = 0 => view = live
        /\ pc \in {"relabel", "seal", "unlink", "rename", "connect", "setup",
                   "ddl", "exit"} => view = live
        /\ pc \in Halted => view = live
        /\ ev # "partial"

\* What has been spent stays spent.
LEMMA OrderlyBefore ==
    ASSUME TypeOK, [Next]_vars, Orderly'
    PROVE  Orderly
<1>t. /\ spent \in [Bounded -> Nat] /\ spent' \in [Bounded -> Nat]
      /\ {"busy", "full", "partial", "devel", "starts", "datagrams"} \subseteq Bounded
  BY StepTypeOK DEF TypeOK, Bounded
<1> SUFFICES \A b \in Bounded : spent[b] <= spent'[b]
  BY <1>t DEF Orderly
<1>1. ASSUME NEW what \in Bounded, NEW bound, Spend(what, bound)
      PROVE  \A b \in Bounded : spent[b] <= spent'[b]
  BY <1>1, <1>t DEF Spend
<1>2. ASSUME UNCHANGED spent PROVE \A b \in Bounded : spent[b] <= spent'[b]
  BY <1>2, <1>t
<1>3. ASSUME NEW e \in Received, Receive(e)
      PROVE  \A b \in Bounded : spent[b] <= spent'[b]
  BY <1>3, <1>t DEF Receive
<1>4. ASSUME DbCommit PROVE \A b \in Bounded : spent[b] <= spent'[b]
  BY <1>4, <1>1, <1>2, <1>t DEF DbCommit, CommitSucceeds, CommitFails
<1>5. CASE Begin \/ CheckOverdue \/ CheckCount \/ TimedCommit
  BY <1>5, <1>4, <1>2 DEF Begin, CheckOverdue, CheckCount, TimedCommit
<1>6. CASE RelabelFails \/ SealFails
  BY <1>6, <1>1, <1>t DEF RelabelFails, SealFails
<1>7. CASE Start \/ DevelRollover
  BY <1>7, <1>1, <1>t DEF Start, DevelRollover
<1>8. CASE ~ \/ \E e \in Received : Receive(e)
             \/ Begin \/ CheckOverdue \/ CheckCount \/ TimedCommit
             \/ RelabelFails \/ SealFails \/ Start \/ DevelRollover
  BY <1>8, <1>2 DEF Next, Handler, Environment, SocketTimeout, RelabelConflict,
     RelabelCommitted, SealConflict, SealCommitted, Unlink, Rename, Connect, Setup,
     SetupDone, AddRows, AddRowsInPart, Exit, Crash, Vanish, TimePasses, Midnight, vars
<1>9. QED
  BY <1>3, <1>5, <1>6, <1>7, <1>8

\* In an orderly life a commit succeeds.
LEMMA OrderlyCommit ==
    ASSUME TypeOK, DbCommit, Orderly', unc = 0 => view = live
    PROVE  UNCHANGED lost /\ unc' = 0 /\ view' = live'
<1>1. ASSUME CommitFails PROVE FALSE
  BY <1>1, BudgetKinds DEF CommitFails, Spend, TypeOK, Orderly
<1>2. QED
  BY <1>1 DEF DbCommit, CommitSucceeds

LEMMA OrderlyStep == TypeOK /\ OrderlyInv /\ [Next]_vars => OrderlyInv'
<1> SUFFICES ASSUME TypeOK, OrderlyInv, [Next]_vars, Orderly'
             PROVE  /\ \A d \in Dates : lost'[d] = 0
                    /\ unc' = 0 => view' = live'
                    /\ pc' \in {"relabel", "seal", "unlink", "rename", "connect",
                                "setup", "ddl", "exit"} => view' = live'
                    /\ pc' \in Halted => view' = live'
                    /\ ev' # "partial"
  BY DEF OrderlyInv
<1>o. /\ \A d \in Dates : lost[d] = 0
      /\ unc = 0 => view = live
      /\ pc \in {"relabel", "seal", "unlink", "rename", "connect", "setup", "ddl",
                 "exit"} => view = live
      /\ pc \in Halted => view = live
      /\ ev # "partial"
  BY OrderlyBefore DEF OrderlyInv
<1> USE DEF Goto, Halted
<1>1. CASE \E e \in Received : Receive(e)
  <2>1. PICK e \in Received : Receive(e)
    BY <1>1
  <2>2. e # "partial"
    BY <2>1, BudgetKinds DEF Receive, Orderly, TypeOK
  <2>3. QED
    BY <2>1, <2>2, <1>o DEF Receive, disk, history
<1>2. CASE Plain /\ ~\E e \in Received : Receive(e)
  BY <1>2, <1>o DEF Plain, SocketTimeout, DevelRollover, RelabelConflict, SealConflict,
     Midnight, clock, memory, disk, history, vars
<1>3. CASE Begin \/ CheckCount \/ TimedCommit \/ CheckOverdue
  <2>1. CASE DbCommit
    BY <1>3, <2>1, <1>o, OrderlyCommit DEF Begin, CheckCount, TimedCommit, CheckOverdue
  <2>2. CASE UNCHANGED <<unc, live, view, lost>> /\ pc' \notin {"seal", "relabel", "exit"}
    BY <1>3, <2>2, <1>o DEF Begin, CheckCount, TimedCommit, CheckOverdue, Aborted
  <2>3. QED
    BY <1>3, <2>1, <2>2 DEF Begin, CheckCount, TimedCommit, CheckOverdue
<1>4. CASE RelabelFails \/ SealFails
  BY <1>4, BudgetKinds DEF RelabelFails, SealFails, Spend, TypeOK, Orderly
<1>5. CASE RelabelCommitted \/ SealCommitted
  BY <1>5, <1>o DEF RelabelCommitted, SealCommitted, memory
<1>6. CASE Unlink
  BY <1>6, <1>o, DataTypes DEF Unlink, Rollback
<1>7. CASE Rename
  BY <1>7, <1>o DEF Rename, history
<1>8. CASE Connect \/ Setup \/ SetupDone
  BY <1>8, <1>o DEF Connect, Setup, SetupDone, disk, history, memory
<1>9. CASE AddRows
  BY <1>9, <1>o, DataTypes DEF AddRows, disk, TypeOK
<1>10. CASE AddRowsInPart
  BY <1>10, <1>o DEF AddRowsInPart
<1>11. CASE Exit
  BY <1>11, <1>o, DataTypes DEF Exit, Vanish, Rollback, disk
<1>12. CASE Crash
  BY <1>12 DEF Crash, Orderly
<1>13. CASE Start
  BY <1>13, <1>o DEF Start, disk, history, Halted
<1>14. CASE TimePasses
  BY <1>14, <1>o DEF TimePasses, disk, history, memory
<1>15. QED
  BY <1>1, <1>2, <1>3, <1>4, <1>5, <1>6, <1>7, <1>8, <1>9, <1>10, <1>11, <1>12,
     <1>13, <1>14 DEF Next, Handler, Environment, Plain

\* As long as no commit fails, no datagram is interrupted and nobody kills the
\* process, no row is lost: rollovers, also late and development ones, orderly
\* stops, restarts and uncaught errors all find their rows committed.
THEOREM OrderlyLifeKeepsAll == Spec => []OrderlyKeepsAll
<1>1. Init => TypeOK /\ OrderlyInv
  <2>1. Init => OrderlyInv
    BY DEF Init, OrderlyInv
  <2>2. QED
    BY <2>1, InitTypeOK
<1>2. TypeOK /\ OrderlyInv => OrderlyKeepsAll
  BY DEF OrderlyInv, OrderlyKeepsAll, Orderly
<1>3. QED
  BY <1>1, <1>2, StepTypeOK, OrderlyStep, PTL DEF Spec

-----------------------------------------------------------------------------
(* How much is at risk.                                                    *)

\* The bound between two events.
Risk == MaxUncommitted + RetryCount * fails

\* One more datagram than between two events until the count is looked at; what
\* the seal has committed still counts until the new connection.
Committed == {"unlink", "rename", "connect"}
RiskInv ==
    /\ pc \notin Committed => unc <= Risk
    /\ pc \notin Committed \cup {"overdue", "count"} => unc < Risk

LEMMA RiskAny ==
    ASSUME NEW n \in Nat
    PROVE  RetryCount * n \in Nat /\ 0 < MaxUncommitted + RetryCount * n
<1>1. RetryCount * n \in Nat
  BY OptionsAssumption
<1>2. QED
  BY <1>1, OptionsAssumption

LEMMA RiskTypes ==
    ASSUME TypeOK
    PROVE  /\ unc \in Nat /\ fails \in Nat /\ Risk \in Nat /\ Risk > 0
           /\ RetryCount * (fails + 1) = RetryCount * fails + RetryCount
           /\ RetryCount \in Nat /\ RetryCount > 0
BY OptionsAssumption DEF TypeOK, Risk

\* A batch that is not due is not full, or between two attempts.
LEMMA NotDue ==
    ASSUME TypeOK, ~CommitDue, unc <= Risk
    PROVE  unc < Risk
<1>1. (RetryCount * fails) % RetryCount = 0
  BY RiskTypes
<1>2. unc # Risk
  <2> SUFFICES ASSUME unc = Risk PROVE FALSE
    OBVIOUS
  <2>1. unc >= MaxUncommitted /\ unc - MaxUncommitted = RetryCount * fails
    BY RiskTypes, OptionsAssumption DEF Risk
  <2>2. QED
    BY <1>1, <2>1 DEF CommitDue
<1>3. unc \in Nat /\ Risk \in Nat
  BY RiskTypes
<1>4. QED
  BY <1>2, <1>3

\* A commit empties the batch, or allows RetryCount datagrams more.
LEMMA CommitRisk ==
    ASSUME TypeOK, TypeOK', DbCommit, unc <= Risk
    PROVE  unc' < Risk'
<1>1. CASE unc' = 0
  <2>1. fails' \in Nat
    BY DEF TypeOK
  <2>2. 0 < Risk'
    BY <2>1, RiskAny DEF Risk
  <2>3. QED
    BY <1>1, <2>2
<1>2. CASE unc' = unc /\ fails' = fails + 1
  <2>1. Risk' = Risk + RetryCount
    BY <1>2, RiskTypes, OptionsAssumption DEF Risk
  <2>2. QED
    BY <1>2, <2>1, RiskTypes
<1>3. QED
  BY <1>1, <1>2 DEF DbCommit, CommitSucceeds, CommitFails

LEMMA RiskStep == TypeOK /\ RiskInv /\ [Next]_vars => RiskInv'
<1> SUFFICES ASSUME TypeOK, RiskInv, [Next]_vars PROVE RiskInv'
  OBVIOUS
<1>t. TypeOK'
  BY StepTypeOK
<1> USE DEF RiskInv, Goto, Committed
<1>1. CASE Plain
  <2>1. UNCHANGED <<unc, fails>>
    BY <1>1, PlainSteps
  <2>2. pc \in Committed \cup {"overdue", "count"} => pc' = pc
    BY <1>1 DEF Plain, Receive, SocketTimeout, DevelRollover, RelabelConflict,
       SealConflict, Midnight, vars
  <2>3. QED
    BY <2>1, <2>2 DEF Risk
<1>2. CASE DbCommit /\ pc \notin Committed
  <2>1. unc' < Risk'
    BY <1>2, <1>t, CommitRisk
  <2>2. unc' \in Nat /\ Risk' \in Int
    BY <1>t, OptionsAssumption DEF TypeOK, Risk
  <2>3. QED
    BY <2>1, <2>2
<1>3. CASE (Begin \/ CheckOverdue \/ CheckCount \/ TimedCommit)
           /\ ~(DbCommit /\ pc \notin Committed)
  <2>1. CASE CheckOverdue
    BY <1>3, <2>1 DEF CheckOverdue, Risk
  <2>2. CASE CheckCount
    BY <1>3, <2>2, NotDue DEF CheckCount, Risk
  <2>3. QED
    BY <1>3, <2>1, <2>2 DEF Begin, TimedCommit
<1>4. ASSUME unc' = 0 PROVE RiskInv'
  <2>1. fails' \in Nat
    BY <1>t DEF TypeOK
  <2>2. RetryCount * fails' \in Nat
    BY <2>1, RiskAny
  <2>3. QED
    BY <1>4, <2>2, OptionsAssumption DEF Risk
<1>5. CASE RelabelCommitted \/ Connect \/ Exit \/ Crash
  BY <1>4, <1>5 DEF RelabelCommitted, Connect, Exit, Crash, Vanish
<1>6. ASSUME unc < Risk, unc' = unc, fails' = fails + 1
      PROVE  RiskInv'
  <2>1. Risk' = Risk + RetryCount
    BY <1>6, RiskTypes, OptionsAssumption DEF Risk
  <2>2. QED
    BY <1>6, <2>1, RiskTypes
<1>7. CASE RelabelFails \/ SealFails
  BY <1>6, <1>7 DEF RelabelFails, SealFails
<1>8. CASE AddRows
  <2>1. unc' = unc + 1 /\ fails' = fails /\ unc < Risk /\ pc' = "overdue"
    BY <1>8 DEF AddRows
  <2>2. QED
    BY <2>1, RiskTypes DEF Risk
<1>9. CASE AddRowsInPart \/ Unlink \/ Rename \/ Setup \/ SetupDone
  BY <1>9 DEF AddRowsInPart, Unlink, Rename, Setup, SetupDone, memory, history, Risk
<1>10. CASE Start \/ TimePasses
  BY <1>10 DEF Start, TimePasses, memory, history, Halted, Risk
<1>11. CASE SealCommitted
  BY <1>11 DEF SealCommitted
<1>12. QED
  BY <1>1, <1>2, <1>3, <1>5, <1>7, <1>8, <1>9, <1>10, <1>11
     DEF Next, Handler, Environment, Plain

\* Between two events the datagrams at risk stay below a full batch plus
\* RetryCount for each commit that failed since the last one that succeeded,
\* for every setting of both options.
THEOREM RiskIsBounded == Spec => []UncommittedBound
<1>1. Init => TypeOK /\ RiskInv
  <2>1. Init => unc = 0 /\ fails = 0 /\ pc = "down"
    BY DEF Init
  <2>2. Init => RiskInv
    BY <2>1, OptionsAssumption, RiskAny DEF RiskInv, Risk, Committed
  <2>3. QED
    BY <2>2, InitTypeOK
<1>2. RiskInv => UncommittedBound
  BY DEF RiskInv, UncommittedBound, Risk, Committed
<1>3. QED
  BY <1>1, <1>2, StepTypeOK, RiskStep, PTL DEF Spec

-----------------------------------------------------------------------------
(***************************************************************************)
(* A storage of tlsrpt-collectd keeps its promise to those who fetch from  *)
(* it: CollectdSQLite implements SealedStore, and a day stays available for*)
(* a day, as long as the process sees every date.                          *)
(***************************************************************************)

LEMMA SealedInvStep ==
    ASSUME Punctual, MaxDevel = 0, SealedInv, [Next]_vars
    PROVE  SealedInv'
BY StepTypeOK, ControlStep, DataStep DEF SealedInv, DataInv

LEMMA SealedInvInit == Init => SealedInv
BY InitTypeOK, ControlInit, DataInit DEF SealedInv, DataInv

-----------------------------------------------------------------------------
(* Rows are deleted a day after they have become available.                *)

\* What the ".yesterday" file holds is older than the day being collected, and
\* when it is deleted that day is over as well.
LEMMA RetainedStep ==
    ASSUME Punctual, MaxDevel = 0, SealedInv, RetainedADay, [Next]_vars
    PROVE  RetainedADay'
<1>t. TypeOK /\ date \in Int /\ date' \in Int /\ date <= date'
  <2>1. TypeOK /\ TypeOK'
    BY StepTypeOK DEF SealedInv
  <2>2. date \in Int /\ date' \in Int
    BY <2>1, BoundsAssumption DEF TypeOK
  <2>3. date <= date'
    BY FloorStep DEF SealedInv
  <2>4. QED
    BY <2>1, <2>2, <2>3
<1>1. CASE Unlink
  <2> SUFFICES ASSUME NEW d \in Dates, removed'[d] > 0
               PROVE  d + 2 <= date'
    BY DEF RetainedADay
  <2>1. /\ removed'[d] = removed[d] + yest.rows[d] /\ date' = date
        /\ pc = "unlink"
    BY <1>1 DEF Unlink, clock
  <2>2. CASE removed[d] > 0
    BY <2>1, <2>2 DEF RetainedADay
  <2>3. CASE yest.rows[d] # 0
    <3>1. d < Collecting /\ Collecting = today /\ today < date
      BY <2>1, <2>3 DEF SealedInv, LiveAndPastApart, Past, Collecting, Running,
         KeepsPace, Rolling
    <3>2. d \in Int /\ today \in Int
      BY <1>t, DataTypes
    <3>3. QED
      BY <1>t, <2>1, <3>1, <3>2
  <2>4. QED
    BY <1>t, <2>1, <2>2, <2>3, DataTypes
<1>2. CASE ~Unlink
  <2>1. removed' = removed
    BY <1>2 DEF Next, Handler, Environment, Receive, SocketTimeout, DevelRollover,
       Begin, RelabelConflict, RelabelCommitted, RelabelFails, SealConflict,
       SealCommitted, SealFails, Rename, Connect, Setup, SetupDone, AddRows,
       AddRowsInPart, CheckOverdue, CheckCount, TimedCommit, Exit, Crash, Vanish,
       Start, TimePasses, Midnight, history, vars
  <2> SUFFICES ASSUME NEW d \in Dates, removed[d] > 0
               PROVE  d + 2 <= date'
    BY <2>1 DEF RetainedADay
  <2>2. d + 2 <= date /\ d \in Int
    BY <1>t, DataTypes DEF RetainedADay
  <2>3. QED
    BY <1>t, <2>2
<1>3. QED
  BY <1>1, <1>2

\* The rows of a day are deleted at the second midnight after it at the
\* earliest, whatever failed, crashed and restarted in between.
THEOREM ADayToFetch ==
    ASSUME Punctual, MaxDevel = 0
    PROVE  Spec => []RetainedADay
<1>1. Init => RetainedADay
  BY DEF Init, RetainedADay
<1>2. SealedInv /\ RetainedADay /\ [Next]_vars => SealedInv' /\ RetainedADay'
  BY SealedInvStep, RetainedStep
<1>3. QED
  BY <1>1, <1>2, SealedInvInit, PTL DEF Spec

-----------------------------------------------------------------------------
(* The refinement.                                                         *)

LEMMA RefineTypes ==
    ASSUME SealedInv
    PROVE  /\ TypeOK /\ KeepsPace /\ FilesToday /\ LiveAndPastApart /\ ViewExtendsLive
           /\ view.done \subseteq Dates /\ live.done \subseteq Dates /\ yest.done \subseteq Dates
           /\ live.done \subseteq view.done
           /\ \A d \in Dates : d \in Int
           /\ date \in Int /\ today \in Int /\ yday \in Int /\ Floor \in Int /\ Floor \in Dates
<1>1. /\ TypeOK /\ KeepsPace /\ FilesToday /\ LiveAndPastApart /\ ViewExtendsLive
  BY DEF SealedInv
<1>2. yday \in Dates /\ Floor \in Dates /\ \A d \in Dates : d \in Int
  BY <1>1, DateTypes, BoundsAssumption DEF TypeOK, Floor, Dates
<1> QED BY <1>1, <1>2, DataTypes DEF ViewExtendsLive

LEMMA SealsInit == Init => SealsInOrder
BY BlankFacts DEF Init, SealsInOrder

\* A commit or a rollback keeps the order of the days declared.
LEMMA SealsKept ==
    ASSUME SealedInv, SealedInv', SealsInOrder, Floor <= Floor', yest' = yest,
           \/ view' = view /\ live' \in {live, view}
           \/ view' = live /\ live' = live,
           pc' \in {"unlink", "rename"} => pc' = pc
    PROVE  SealsInOrder'
<1>1. Floor' \in Int
  BY BoundsAssumption DEF SealedInv, TypeOK, Dates, Floor
<1>2. \A d \in view.done : d < Floor'
  BY <1>1, RefineTypes DEF SealsInOrder
<1> QED BY <1>2, RefineTypes DEF SealsInOrder

\* The day that is declared is over, and later than all declared before it.
LEMMA InsertIsLast ==
    ASSUME SealedInv, SealsInOrder, pc = "seal", InsertDaystatus
    PROVE  /\ view'.done = view.done \cup {yday} /\ view'.rows = view.rows
           /\ yday \in Dates /\ yday < date /\ Floor = date
           /\ \A e \in view.done \cup yest.done : e < yday
<1>1. view'.done = view.done \cup {yday} /\ view'.rows = view.rows
  BY RefineTypes DEF InsertDaystatus, TypeOK, Contents
<1>2. /\ yday = today /\ yday \in Dates /\ today < date /\ date <= today + 1
      /\ Floor = date /\ Collecting = today
  BY RefineTypes DEF KeepsPace, Running, Rolling, TypeOK, Floor, Collecting
<1>3. \A e \in yest.done : e < yday
  BY <1>2, RefineTypes DEF LiveAndPastApart, Past
<1>4. \A e \in view.done : e < yday
  <2> SUFFICES ASSUME NEW e \in view.done PROVE e < yday
    OBVIOUS
  <2>1. e # yday /\ e < date /\ e \in Int
    BY <1>2, RefineTypes DEF SealsInOrder, InsertDaystatus
  <2> QED BY <1>2, <2>1, RefineTypes
<1> QED BY <1>1, <1>2, <1>3, <1>4

LEMMA SealsInserted ==
    ASSUME SealedInv, SealedInv', SealsInOrder, pc = "seal", InsertDaystatus,
           Floor <= Floor', yest' = yest,
           \/ live' = view'
           \/ live' = live /\ pc' \notin {"unlink", "rename"}
    PROVE  SealsInOrder'
<1>1. /\ view'.done = view.done \cup {yday} /\ view'.rows = view.rows
      /\ yday \in Dates /\ yday < date /\ Floor = date
      /\ \A e \in view.done \cup yest.done : e < yday
  BY InsertIsLast
<1>2. \A d \in view'.done : d < Floor' /\ \A e \in yest.done : e < d
  <2> SUFFICES ASSUME NEW d \in view'.done PROVE d < Floor' /\ \A e \in yest.done : e < d
    OBVIOUS
  <2>0. Floor \in Int /\ Floor' \in Int
    BY BoundsAssumption DEF SealedInv, TypeOK, Dates, Floor
  <2>1. d \in Int
    BY <1>1, RefineTypes DEF SealsInOrder
  <2>2. d < Floor
    BY <1>1 DEF SealsInOrder
  <2>3. \A e \in yest.done : e < d
    BY <1>1 DEF SealsInOrder
  <2> QED BY <2>0, <2>1, <2>2, <2>3
<1>3. \A d \in view'.done \ live'.done, e \in live'.done : e < d
  BY <1>1, RefineTypes DEF SealsInOrder
<1>4. \A d \in live'.done : view'.rows[d] = live'.rows[d]
  BY <1>1 DEF SealsInOrder
<1>5. pc' \in {"unlink", "rename"} => live'.done # {}
  BY <1>1
<1> QED BY <1>2, <1>3, <1>4, <1>5 DEF SealsInOrder

\* Rows are filed under a day that is not declared.
LEMMA SealsFiled ==
    ASSUME SealedInv, SealedInv', SealsInOrder, NEW n \in Nat, File(n), pc = "add",
           pc' \in {"overdue", "idle"}, Floor <= Floor', yest' = yest, live' = live
    PROVE  SealsInOrder'
<1>1. datenow = Floor /\ datenow \in Dates
  BY RefineTypes DEF FilesToday, Floor, TypeOK
<1>2. /\ view'.done = view.done
      /\ \A d \in Dates : d # datenow => view'.rows[d] = view.rows[d]
  BY RefineTypes DEF File, TypeOK, Contents
<1>3. \A d \in live.done : d \in Dates /\ d # datenow
  BY <1>1, RefineTypes DEF SealsInOrder
<1>4. \A d \in view.done : d < Floor'
  <2>1. Floor' \in Int
    BY RefineTypes, BoundsAssumption DEF SealedInv, TypeOK, Dates, Floor
  <2> QED BY <2>1, RefineTypes DEF SealsInOrder
<1> QED BY <1>2, <1>3, <1>4 DEF SealsInOrder

LEMMA SealsStep ==
    ASSUME Punctual, MaxDevel = 0, SealedInv, SealsInOrder, [Next]_vars
    PROVE  SealsInOrder'
<1>h. SealedInv' /\ Floor <= Floor' /\ TypeOK
  BY SealedInvStep, FloorStep DEF SealedInv
<1> USE DEF Goto
<1>c. ASSUME DbCommit
      PROVE  \/ view' = view /\ live' \in {live, view}
             \/ view' = live /\ live' = live
  BY <1>c DEF DbCommit, CommitSucceeds, CommitFails, Rollback
<1>1. CASE Begin \/ CheckOverdue \/ CheckCount \/ TimedCommit
  <2>1. \/ view' = view /\ live' \in {live, view}
        \/ view' = live /\ live' = live
    BY <1>1, <1>c DEF Begin, CheckOverdue, CheckCount, TimedCommit
  <2>2. yest' = yest /\ pc' \notin {"unlink", "rename"}
    BY <1>1, PcFacts DEF Begin, CheckOverdue, CheckCount, TimedCommit
  <2> QED BY <1>h, <2>1, <2>2, SealsKept
<1>2. CASE RelabelConflict \/ RelabelCommitted \/ RelabelFails \/ DevelRollover
  <2>1. ~DevelRollover
    BY BudgetKinds, <1>h DEF DevelRollover, Spend, TypeOK
  <2> QED BY <1>2, <2>1
       DEF RelabelConflict, RelabelCommitted, RelabelFails, SealedInv, KeepsPace
<1>3. CASE SealCommitted
  BY <1>3, <1>h, SealsInserted DEF SealCommitted
<1>4. CASE SealFails
  <2>1. CASE InsertDaystatus
    BY <1>4, <2>1, <1>h, SealsInserted, PcFacts DEF SealFails, disk
  <2>2. CASE Rollback
    BY <1>4, <2>2, <1>h, SealsKept, PcFacts DEF SealFails, disk, Rollback
  <2> QED BY <1>4, <2>1, <2>2 DEF SealFails
<1>5. CASE Unlink
  <2>1. view' = live /\ live' = live /\ yest' = Blank /\ live.done # {} /\ date' = date
        /\ pc = "unlink" /\ pc' = "rename"
    BY <1>5 DEF Unlink, Rollback, SealsInOrder, clock
  <2>2. Floor' = Floor
    BY <2>1 DEF Floor
  <2> QED BY <2>1, <2>2, BlankFacts, RefineTypes DEF SealsInOrder
<1>6. CASE Rename
  BY <1>6, BlankFacts DEF Rename, SealsInOrder
<1>7. CASE AddRows
  <2>1. PICK n \in {0, 1} : File(n)
    BY <1>7 DEF AddRows
  <2> QED BY <1>7, <2>1, <1>h, SealsFiled DEF AddRows, disk
<1>8. CASE AddRowsInPart
  <2>1. PICK n \in {0, 1} : File(n)
    BY <1>8 DEF AddRowsInPart
  <2> QED BY <1>8, <2>1, <1>h, SealsFiled DEF AddRowsInPart, disk
<1>9. CASE Exit \/ Crash
  <2>1. view' = live /\ live' = live /\ yest' = yest /\ pc' \in {"stopped", "died", "crashed"}
    BY <1>9 DEF Exit, Crash, Vanish, Rollback, disk
  <2> QED BY <1>h, <2>1, SealsKept
<1>10. CASE \/ \E e \in Received : Receive(e)
            \/ SocketTimeout("timeout") \/ SocketTimeout("term") \/ SealConflict
            \/ Connect \/ Setup \/ SetupDone \/ Start
            \/ TimePasses \/ Midnight \/ UNCHANGED vars
  <2>1. view' = view /\ live' = live /\ yest' = yest
    BY <1>10 DEF Receive, SocketTimeout, SealConflict, Connect, Setup, SetupDone, Start,
       TimePasses, Midnight, disk, history, vars
  <2>2. pc' \in {"unlink", "rename"} => pc' = pc
    BY <1>10 DEF Receive, SocketTimeout, SealConflict, Connect, Setup, SetupDone, Start,
       TimePasses, Midnight, vars
  <2> QED BY <1>h, <2>1, <2>2, SealsKept
<1> QED
  BY <1>1, <1>2, <1>3, <1>4, <1>5, <1>6, <1>7, <1>8, <1>9, <1>10
     DEF Next, Handler, Environment

\* What counts for the readers is what is in one of the two files, or was
\* removed with an old one; of a day declared it is what the file holds.
Counted ==
    /\ \A d \in Dates : added[d] - lost[d] \in Nat
    /\ \A d \in yest.done : d \in Dates /\ added[d] - lost[d] = yest.rows[d]
    /\ Floor \in Dates

LEMMA CountedNow == SealedInv => Counted
<1> SUFFICES ASSUME SealedInv PROVE Counted
  OBVIOUS
<1>t. TypeOK /\ Conservation /\ SealedComplete
  BY DEF SealedInv
<1>1. \A d \in Dates : added[d] - lost[d] = view.rows[d] + yest.rows[d] + removed[d]
  BY <1>t, DataTypes DEF Conservation
<1>2. \A d \in Dates : added[d] - lost[d] \in Nat
  BY <1>t, <1>1, DataTypes
<1>3. \A d \in yest.done : d \in Dates /\ added[d] - lost[d] = yest.rows[d]
  BY <1>t, DataTypes DEF SealedComplete
<1> QED BY <1>2, <1>3, RefineTypes DEF Counted

LEMMA CountedThen == SealedInv' => Counted'
BY CountedNow, PTL

LEMMA PromiseInit == Init => Promise!Init
<1> SUFFICES ASSUME Init PROVE Promise!Init
  OBVIOUS
<1>1. \A d \in Dates : added[d] - lost[d] = 0
  BY DEF Init
<1>2. [d \in yest.done |-> yest.rows[d]] = [d \in {} |-> 0] /\ live.done = {}
  BY BlankFacts DEF Init
<1>3. Floor \in Dates
  BY CountedNow, SealedInvInit DEF Counted
<1> QED BY <1>1, <1>2, <1>3 DEF Promise!Init, Promise!NoFile

\* A step that neither files nor commits rows, and leaves the ".yesterday" file
\* alone, can only lose rows of days not declared, and let the next day begin.
LEMMA MapsToLose ==
    ASSUME SealedInv, SealedInv', yest' = yest, live' = live, Floor <= Floor',
           \A d \in Dates : added'[d] - lost'[d] <= added[d] - lost[d],
           \A d \in live.done : added'[d] - lost'[d] = added[d] - lost[d]
    PROVE  Promise!Lose
<1>1. [d \in Dates |-> added[d] - lost[d]]' \in [Dates -> Nat]
  <2>1. \A d \in Dates : added'[d] - lost'[d] \in Nat
    BY CountedThen DEF Counted
  <2> QED BY <2>1
<1>2. \A d \in live.done \cup yest.done : d \in Dates /\ added'[d] - lost'[d] = added[d] - lost[d]
  BY CountedNow, CountedThen, RefineTypes DEF Counted
<1>3. Floor' \in Dates
  BY CountedThen DEF Counted
<1> QED BY <1>1, <1>2, <1>3 DEF Promise!Lose, Promise!DaysPass

\* Rows are filed under the day being collected.
LEMMA MapsToCollect ==
    ASSUME SealedInv, SealedInv', NEW n \in {0, 1}, File(n), pc = "add",
           Floor <= Floor', UNCHANGED <<yest, live, lost>>
    PROVE  Promise!Collect
<1>t. TypeOK /\ datenow = Floor /\ datenow \in Dates
  BY RefineTypes DEF FilesToday, Floor, TypeOK
<1>1. /\ added \in [Dates -> Int]
      /\ \A d \in Dates : added[d] \in Int /\ lost[d] \in Int
  BY <1>t, DataTypes DEF TypeOK
<1>2. \A d \in Dates : added'[d] - lost'[d] =
          IF d = datenow THEN (added[d] - lost[d]) + n ELSE added[d] - lost[d]
  BY <1>1 DEF File
<1>3. [d \in Dates |-> added[d] - lost[d]]' =
          [[d \in Dates |-> added[d] - lost[d]] EXCEPT ![datenow] = @ + n]
  BY <1>1, <1>2, <1>t
<1>4. datenow >= Floor
  BY <1>t, RefineTypes
<1>5. UNCHANGED <<live.done, [d \in yest.done |-> yest.rows[d]]>>
  OBVIOUS
<1>6. Floor' \in Dates
  BY CountedThen DEF Counted
<1> QED BY <1>t, <1>3, <1>4, <1>5, <1>6 DEF Promise!Collect, Promise!DaysPass

\* The steps at which Floor stands still: no datagram is being filed.
Still == date' = date /\ {pc, pc'} \cap {"setup", "ddl", "add"} = {}

\* A commit seals the days it makes durable.
LEMMA MapsToSeal ==
    ASSUME SealedInv, SealedInv', Still, UNCHANGED <<yest, added, lost>>,
           live.done \subseteq live'.done,
           \A d \in live'.done \ live.done :
               d < Floor /\ \A e \in live.done \cup yest.done : e < d
    PROVE  Promise!Seal
<1> DEFINE days == live'.done \ live.done
<1>1. Floor' = Floor
  BY DEF Still, Floor
<1>2. days \in SUBSET Dates /\ live'.done = live.done \cup days
  <2>1. live'.done \subseteq Dates
    BY DEF SealedInv, TypeOK, Contents
  <2> QED BY <2>1
<1>3. /\ [d \in Dates |-> added[d] - lost[d]]' = [d \in Dates |-> added[d] - lost[d]]
      /\ [d \in yest.done |-> yest.rows[d]]' = [d \in yest.done |-> yest.rows[d]]
  OBVIOUS
<1>4. \A d \in days : d < Floor /\ \A e \in live.done \cup yest.done : e < d
  OBVIOUS
<1> HIDE DEF days
<1>5. DOMAIN [d \in yest.done |-> yest.rows[d]] = yest.done
  OBVIOUS
<1> QED BY <1>1, <1>2, <1>3, <1>4, <1>5 DEF Promise!Seal

LEMMA MapsToDrop ==
    ASSUME SealedInv, SealsInOrder, Unlink
    PROVE  Promise!Drop
<1>t. /\ TypeOK /\ view = live /\ yest' = Blank /\ pc = "unlink" /\ pc' = "rename"
      /\ date' = date /\ added' = added /\ live' = live /\ live.done # {}
      /\ lost' = [d \in Dates |-> lost[d] + view.rows[d] - live.rows[d]]
  BY DEF SealedInv, SealsInOrder, ViewExtendsLive, Unlink, Rollback, Goto, clock
<1>1. \A d \in Dates : added'[d] - lost'[d] = added[d] - lost[d]
  BY <1>t, DataTypes
<1>2. [d \in Dates |-> added[d] - lost[d]]' = [d \in Dates |-> added[d] - lost[d]]
  BY <1>1
<1>3. Floor' = Floor
  BY <1>t DEF Floor
<1>4. [d \in yest.done |-> yest.rows[d]]' = [d \in {} |-> 0]
  BY <1>t, BlankFacts
<1> QED BY <1>t, <1>2, <1>3, <1>4 DEF Promise!Drop, Promise!NoFile

\* The file that is renamed declares the sealed days, with all their rows.
LEMMA MapsToPublish ==
    ASSUME SealedInv, SealedInv', SealsInOrder, Rename
    PROVE  Promise!Publish
<1>t. /\ yest = Blank /\ yest' = live /\ live' = Blank /\ added' = added /\ lost' = lost
      /\ live.done # {} /\ live.done \subseteq Dates
      /\ date' = date /\ pc = "rename" /\ pc' = "connect"
  BY RefineTypes DEF ViewExtendsLive, SealsInOrder, Rename, history, clock, Goto
<1>1. [d \in yest.done |-> yest.rows[d]] = [d \in {} |-> 0] /\ live'.done = {}
  BY <1>t, BlankFacts
<1>2. [d \in yest.done |-> yest.rows[d]]' =
          [d \in live.done |-> [e \in Dates |-> added[e] - lost[e]][d]]
  BY <1>t, CountedThen DEF Counted
<1>3. Floor' = Floor
  BY <1>t DEF Floor
<1>4. [d \in Dates |-> added[d] - lost[d]]' = [d \in Dates |-> added[d] - lost[d]]
  BY <1>t
<1> QED BY <1>t, <1>1, <1>2, <1>3, <1>4 DEF Promise!Publish, Promise!NoFile

\* A rollback takes no row of the live database away, and none of a sealed day.
LEMMA RollbackLoses ==
    ASSUME SealedInv, SealsInOrder, Rollback, added' = added
    PROVE  /\ \A d \in Dates : added'[d] - lost'[d] <= added[d] - lost[d]
           /\ \A d \in live.done : added'[d] - lost'[d] = added[d] - lost[d]
<1>1. \A d \in Dates : /\ lost'[d] = lost[d] + view.rows[d] - live.rows[d]
                       /\ live.rows[d] <= view.rows[d]
  BY DEF Rollback, SealedInv, ViewExtendsLive
<1>2. \A d \in live.done : d \in Dates /\ view.rows[d] = live.rows[d]
  BY RefineTypes DEF SealsInOrder
<1> QED BY <1>1, <1>2, RefineTypes, DataTypes

LEMMA PromiseStep ==
    ASSUME Punctual, MaxDevel = 0, SealedInv, SealsInOrder, [Next]_vars
    PROVE  [Promise!Next]_Promise!storeVars
<1>h. SealedInv' /\ TypeOK
  BY SealedInvStep DEF SealedInv
<1>f. Floor <= Floor'
  BY FloorStep DEF SealedInv
<1>k. ASSUME UNCHANGED <<added, lost, yest, live>> PROVE Promise!Next
  <2>1. \A d \in Dates : added'[d] - lost'[d] <= added[d] - lost[d]
    BY <1>h, <1>k, DataTypes
  <2> QED BY <1>f, <1>h, <1>k, <2>1, MapsToLose DEF Promise!Next
<1>r. ASSUME Rollback, UNCHANGED <<added, yest, live>> PROVE Promise!Next
  BY <1>f, <1>h, <1>r, RollbackLoses, MapsToLose DEF Promise!Next
<1>c. ASSUME DbCommit, UNCHANGED <<added, yest>>, Still PROVE Promise!Next
  <2>1. CASE UNCHANGED <<live, lost>>
    BY <1>c, <1>k, <2>1
  <2>2. CASE Rollback /\ UNCHANGED live
    BY <1>c, <1>r, <2>2
  <2>3. CASE live' = view /\ UNCHANGED lost
    BY <1>c, <1>h, <2>3, RefineTypes, MapsToSeal DEF SealsInOrder, Promise!Next
  <2> QED BY <1>c, <2>1, <2>2, <2>3 DEF DbCommit, CommitSucceeds, CommitFails
<1>1. CASE Begin \/ CheckCount \/ TimedCommit
  <2>1. (DbCommit /\ UNCHANGED <<added, yest>> /\ Still) \/ UNCHANGED <<added, lost, yest, live>>
    BY <1>1, PcFacts DEF Begin, CheckCount, TimedCommit, Goto, Still
  <2> QED BY <1>c, <1>k, <2>1
<1>2. CASE CheckOverdue
  <2>1. (DbCommit /\ UNCHANGED <<added, yest>> /\ Still) \/ UNCHANGED <<added, lost, yest, live>>
    BY <1>2 DEF CheckOverdue, Goto, Still
  <2> QED BY <1>c, <1>k, <2>1
<1>3. CASE RelabelConflict \/ RelabelCommitted \/ RelabelFails \/ DevelRollover
  <2>1. ~DevelRollover
    BY BudgetKinds, <1>h DEF DevelRollover, Spend, TypeOK
  <2> QED BY <1>3, <2>1
       DEF RelabelConflict, RelabelCommitted, RelabelFails, SealedInv, KeepsPace
<1>4. CASE SealFails
  BY <1>4, <1>k, <1>r DEF SealFails, disk
<1>5. CASE SealCommitted
  <2>1. /\ pc = "seal" /\ pc' = "unlink" /\ date' = date /\ UNCHANGED <<yest, added, lost>>
        /\ InsertDaystatus /\ live' = view'
    BY <1>5 DEF SealCommitted, Goto, clock
  <2>2. /\ view'.done = view.done \cup {yday} /\ yday < date /\ Floor = date
        /\ \A e \in view.done \cup yest.done : e < yday
    BY <2>1, InsertIsLast
  <2>3. live.done \subseteq live'.done /\ live.done \subseteq view.done
    BY <2>1, <2>2, RefineTypes
  <2>4. \A d \in live'.done \ live.done :
            d < Floor /\ \A e \in live.done \cup yest.done : e < d
    BY <2>1, <2>2, <2>3 DEF SealsInOrder
  <2> QED BY <1>h, <2>1, <2>3, <2>4, MapsToSeal DEF Still, Promise!Next
<1>6. CASE Unlink
  BY <1>6, MapsToDrop DEF Promise!Next
<1>7. CASE Rename
  BY <1>7, <1>h, MapsToPublish DEF Promise!Next
<1>8. CASE AddRows
  <2>1. PICK n \in {0, 1} : File(n)
    BY <1>8 DEF AddRows
  <2> QED BY <1>8, <1>f, <1>h, <2>1, MapsToCollect DEF AddRows, disk, Promise!Next
<1>9. CASE AddRowsInPart
  <2>1. PICK n \in {0, 1} : File(n)
    BY <1>9 DEF AddRowsInPart
  <2> QED BY <1>9, <1>f, <1>h, <2>1, MapsToCollect DEF AddRowsInPart, disk, Promise!Next
<1>10. CASE Exit \/ Crash
  BY <1>10, <1>r DEF Exit, Crash, Vanish, disk
<1>11. CASE \/ \E e \in Received : Receive(e)
            \/ SocketTimeout("timeout") \/ SocketTimeout("term") \/ SealConflict
            \/ Connect \/ Setup \/ SetupDone \/ Start
            \/ TimePasses \/ Midnight \/ UNCHANGED vars
  <2>1. UNCHANGED <<added, lost, yest, live>>
    BY <1>11 DEF Receive, SocketTimeout, SealConflict, Connect, Setup,
       SetupDone, Start, TimePasses, Midnight, disk, history, vars
  <2> QED BY <2>1, <1>k
<1> QED
  BY <1>1, <1>2, <1>3, <1>4, <1>5, <1>6, <1>7, <1>8, <1>9, <1>10, <1>11
     DEF Next, Handler, Environment

\* Whatever the rollover goes through, and wherever a crash or a failed commit
\* breaks it off, the storage does what SealedStore promises: each day declared
\* is over, declared once and after every earlier one, and keeps all its rows;
\* those who read the ".yesterday" file see it so, and the file is deleted only
\* when a newer declared day is to take its place.
THEOREM StorageKeepsItsPromise ==
    ASSUME Punctual, MaxDevel = 0
    PROVE  Spec => StoreKeepsPromise
<1>1. Init => SealedInv /\ SealsInOrder /\ Promise!Init
  BY SealedInvInit, SealsInit, PromiseInit
<1>2. SealedInv /\ SealsInOrder /\ [Next]_vars =>
          SealedInv' /\ SealsInOrder' /\ [Promise!Next]_Promise!storeVars
  BY SealedInvStep, SealsStep, PromiseStep
<1> QED BY <1>1, <1>2, PTL DEF Spec, StoreKeepsPromise, Promise!Spec

=============================================================================
