---------------------------- MODULE Startup_proofs ----------------------------
(***************************************************************************)
(* How daemons start and what they leave behind: the safety properties of  *)
(* Startup, for every number of processes and of mishaps, all options and  *)
(* all databases.                                                          *)
(***************************************************************************)
EXTENDS Startup, TLAPS

LEMMA BackendsKept == ASSUME UNCHANGED settings PROVE Backends' = Backends
BY DEF Backends, settings

-----------------------------------------------------------------------------
(* The initial states.                                                     *)

LEMMA StartupInit == Init => StartupInv
<1> SUFFICES ASSUME Init PROVE StartupInv
  OBVIOUS
<1> USE DEF Init
<1>1. config.outcome = "fits" => Backends \in Seq(Databases \cup {"dummy", "strange"})
  <2>1. PICK given \in Givens : config = options_from_cmd_env_cfg(given)
    OBVIOUS
  <2>2. CASE daemon = "collectd"
    BY <2>1, <2>2, StartupAssumption DEF Backends
  <2>3. CASE daemon # "collectd"
    BY <2>3, StartupAssumption DEF Backends
  <2> QED BY <2>2, <2>3
<1>2. TypeOK
  BY <1>1 DEF TypeOK, Steps, None, Codes, Never
<1>3. On = {}
  BY DEF On
<1> QED
  BY <1>2, <1>3 DEF StartupInv, Alone, Course, SocketCourse, DatabaseCourse, PidFileCourse,
     ExplainedForGood, None, Never, Opening

-----------------------------------------------------------------------------
(* Steps: where a process is and what it has.                              *)

LEMMA CodesAre == {Never, Killed} \cup 0 .. 8 = Codes
BY DEF Codes, Never, Killed

\* A rollover cut short takes a good database only, and leaves none that is
\* another's.
LEMMA CutShortKeeps ==
    ASSUME StartupInv, UNCHANGED settings, UNCHANGED db \/ CutShort
    PROVE  /\ db' \in [Databases -> {"missing", "torn", "good", "foreign"}]
           /\ \A name \in Databases :
                  db'[name] = db[name] \/ (db[name] = "good" /\ db'[name] \in {"missing", "torn"})
<1>1. db \in [Databases -> {"missing", "torn", "good", "foreign"}]
  BY DEF StartupInv, TypeOK
<1>2. CASE UNCHANGED db
  BY <1>1, <1>2
<1>3. CASE CutShort
  <2>1. PICK name \in Databases, left \in {"missing", "torn"} :
            db[name] = "good" /\ db' = [db EXCEPT ![name] = left]
    BY <1>3 DEF CutShort
  <2> QED BY <1>1, <2>1
<1> QED BY <1>2, <1>3

LEMMA CutShortCourse ==
    ASSUME StartupInv, UNCHANGED settings, UNCHANGED db \/ CutShort, UNCHANGED <<at, beside>>,
           NEW p \in Processes, NEW step \in {"off", "leave"},
           pc' = [pc EXCEPT ![p] = step], failed \subseteq failed'
    PROVE  /\ DatabaseCourse'
           /\ \A name \in Databases : Stuck(name) => Stuck(name)'
<1>1. Backends' = Backends /\ daemon' = daemon
  BY BackendsKept DEF settings
<1>2. \A name \in Databases :
          db'[name] = db[name] \/ (db[name] = "good" /\ db'[name] \in {"missing", "torn"})
  BY CutShortKeeps
<1>3. \A q \in Processes : pc'[q] = pc[q] \/ (q = p /\ pc'[q] \in {"off", "leave"})
  BY DEF StartupInv, TypeOK
<1>4. \A q \in Processes : pc'[q] \in {"setup", "version"} =>
          pc[q] = pc'[q] /\ Backends[at[q]] \in Databases
  BY <1>3 DEF StartupInv, Course
<1>5. DatabaseCourse'
  BY <1>1, <1>2, <1>4 DEF DatabaseCourse, StartupInv
<1>6. ASSUME NEW name \in Databases, Stuck(name) PROVE Stuck(name)'
  <2>1. db'[name] = db[name]
    BY <1>2, <1>6 DEF Stuck
  <2> QED BY <1>1, <1>4, <1>6, <2>1 DEF Stuck
<1> QED BY <1>5, <1>6

LEMMA ReadOptionsStep ==
    ASSUME StartupInv, NEW p \in Processes, ReadOptions(p)
    PROVE  StartupInv'
<1> USE DEF ReadOptions, QuitAtOnce, StartupInv, Goto, Quit, Smooth, Error, Mishap, settings, On, None, Never, Killed, Opening
<1>1. Backends' = Backends /\ UNCHANGED <<daemon, config, ConfigFits>>
  BY BackendsKept DEF ConfigFits
<1>2. TypeOK'
  <2>1. pc' \in [Processes -> Steps]
    BY DEF TypeOK, Steps
  <2>2. at' \in [Processes -> Nat \ {0}]
    <3>1. at \in [Processes -> Nat \ {0}]
      BY DEF TypeOK
    <3>2. at[p] + 1 \in Nat \ {0}
      BY <3>1
    <3>3. at' = at \/ at' = [at EXCEPT ![p] = 1] \/ at' = [at EXCEPT ![p] = at[p] + 1]
      OBVIOUS
    <3> QED BY ONLY <3>1, <3>2, <3>3, p \in Processes
  <2>3. code' \in [Processes -> Codes]
    <3>1. code' = code \/ \E n \in Codes : code' = [code EXCEPT ![p] = n]
      BY CodesAre
    <3>2. code \in [Processes -> Codes]
      BY DEF TypeOK
    <3> QED BY ONLY <3>1, <3>2, p \in Processes
  <2>4. db' \in [Databases -> {"missing", "torn", "good", "foreign"}]
    BY DEF TypeOK
  <2>5. socket' \in Processes \cup {None} /\ pidfile' \in Processes \cup {None}
    BY DEF TypeOK
  <2>6. beside' \subseteq Processes /\ failed' \subseteq Processes
    BY DEF TypeOK
  <2> QED BY <1>1, <2>1, <2>2, <2>3, <2>4, <2>5, <2>6 DEF TypeOK
<1>3. Alone'
  BY DEF Alone, TypeOK
<1>4. Course'
  <2> SUFFICES ASSUME NEW q \in Processes
               PROVE  /\ pc'[q] \notin {"off", "options"} => ConfigFits
                      /\ pc'[q] \in {"clear", "bind", "flush"} => daemon = "collectd"
                      /\ pc'[q] = "fetchers" => daemon = "reportd"
                      /\ pc'[q] = "open" /\ Backends # <<>> => at'[q] \in DOMAIN Backends
                      /\ pc'[q] \in {"setup", "version"} =>
                             at'[q] \in DOMAIN Backends /\ Backends[at'[q]] \in Databases
                      /\ pc'[q] \notin {"off", "flush", "leave"} => code'[q] = Never
    BY <1>1 DEF Course
  <2>1. CASE q # p
    <3>1. pc'[q] = pc[q] /\ at'[q] = at[q] /\ code'[q] = code[q]
      BY <2>1 DEF TypeOK
    <3> QED BY <3>1 DEF Course
  <2>2. CASE q = p
    BY <2>2 DEF Course, TypeOK
  <2> QED BY <2>1, <2>2
<1>5. SocketCourse'
  BY <1>1 DEF SocketCourse, Course, Alone, TypeOK
<1>6. DatabaseCourse'
  BY <1>1 DEF DatabaseCourse, Course, Alone, TypeOK
<1>7. PidFileCourse'
  <2>1. pidfile' = pidfile /\ failed \subseteq failed'
    OBVIOUS
  <2>2. \A q \in Processes \ {p} : code'[q] = code[q] /\ pc'[q] = pc[q]
    BY DEF TypeOK
  <2>3. pc'[p] = "off" => ~ConfigFits \/ p \in failed'
    BY DEF TypeOK, ConfigFits
  <2> QED BY <1>1, <2>1, <2>2, <2>3 DEF PidFileCourse, TypeOK
<1>8. ExplainedForGood'
  <2>1. Obstacle => Obstacle'
    BY <1>1 DEF Obstacle, Stuck, TypeOK
  <2>2. \A q \in Processes \ {p} : code'[q] = code[q]
    BY DEF TypeOK
  <2>3. \A q \in Processes : q \in beside \cup failed => q \in beside' \cup failed'
    OBVIOUS
  <2>4. code'[p] \in 1 .. 8 => ~ConfigFits \/ p \in failed'
    <3>1. code[p] = -1
      BY DEF Course
    <3>2. CASE code' = code
      BY <3>1, <3>2
    <3>3. CASE ~ConfigFits
      BY <3>3
    <3>4. CASE failed' = failed \cup {p}
      BY <3>4
    <3> QED BY <3>2, <3>3, <3>4 DEF ConfigFits
  <2> QED BY <1>1, <2>1, <2>2, <2>3, <2>4 DEF ExplainedForGood, Obstacle
<1> QED BY <1>2, <1>3, <1>4, <1>5, <1>6, <1>7, <1>8

LEMMA EnterStep ==
    ASSUME StartupInv, NEW p \in Processes, Enter(p)
    PROVE  StartupInv'
<1> USE DEF Enter, StartupInv, Goto, Quit, Smooth, Error, Mishap, settings, On, None, Never, Killed, Opening
<1>1. Backends' = Backends /\ UNCHANGED <<daemon, config, ConfigFits>>
  BY BackendsKept DEF ConfigFits
<1>2. TypeOK'
  BY <1>1, CodesAre DEF TypeOK, Steps
<1>3. Alone'
  BY DEF Alone, TypeOK
<1>4. Course'
  BY <1>1 DEF Course, TypeOK
<1>5. SocketCourse'
  BY <1>1 DEF SocketCourse, Course, Alone, TypeOK
<1>6. DatabaseCourse'
  BY <1>1 DEF DatabaseCourse, Course, Alone, TypeOK
<1>7. PidFileCourse'
  BY <1>1 DEF PidFileCourse, Course, TypeOK
<1>8. ExplainedForGood'
  BY <1>1 DEF ExplainedForGood, Obstacle, Stuck, Course, TypeOK
<1> QED BY <1>2, <1>3, <1>4, <1>5, <1>6, <1>7, <1>8

LEMMA LeaveStep ==
    ASSUME StartupInv, NEW p \in Processes, Leave(p)
    PROVE  StartupInv'
<1> USE DEF Leave, StartupInv, Goto, Quit, Smooth, Error, Mishap, settings, On, None, Never, Killed, Opening
<1>1. Backends' = Backends /\ UNCHANGED <<daemon, config, ConfigFits>>
  BY BackendsKept DEF ConfigFits
<1>2. TypeOK'
  BY <1>1, CodesAre DEF TypeOK, Steps
<1>3. Alone'
  BY DEF Alone, TypeOK
<1>4. Course'
  BY <1>1 DEF Course, TypeOK
<1>5. SocketCourse'
  BY <1>1 DEF SocketCourse, Course, Alone, TypeOK
<1>6. DatabaseCourse'
  BY <1>1 DEF DatabaseCourse, Course, Alone, TypeOK
<1>7. PidFileCourse'
  BY <1>1 DEF PidFileCourse, Course, TypeOK
<1>8. ExplainedForGood'
  BY <1>1 DEF ExplainedForGood, Obstacle, Stuck, Course, TypeOK
<1> QED BY <1>2, <1>3, <1>4, <1>5, <1>6, <1>7, <1>8

LEMMA ClearStep ==
    ASSUME StartupInv, NEW p \in Processes, Clear(p)
    PROVE  StartupInv'
<1> USE DEF Clear, StartupInv, Goto, Quit, Smooth, Error, Mishap, settings, On, None, Never, Killed, Opening
<1>1. Backends' = Backends /\ UNCHANGED <<daemon, config, ConfigFits>>
  BY BackendsKept DEF ConfigFits
<1>2. TypeOK'
  BY <1>1, CodesAre DEF TypeOK, Steps
<1>3. Alone'
  BY DEF Alone, TypeOK
<1>4. Course'
  BY <1>1 DEF Course, TypeOK
<1>5. SocketCourse'
  <2>1. daemon' = "reportd" => socket' = None
    BY <1>1 DEF SocketCourse, Course, TypeOK
  <2>2. ASSUME NEW q \in Processes \ beside', daemon' = "collectd", pc'[q] \in Opening \cup {"loop"}
        PROVE  socket' = q
    <3>1. pc' = [pc EXCEPT ![p] = "bind"] /\ pc[p] = "clear" /\ pc \in [Processes -> Steps] /\ beside' = beside
      BY DEF TypeOK
    <3>2. q # p
      BY <2>2, <3>1
    <3>3. pc[q] # "off" /\ pc[p] # "off"
      BY <2>2, <3>1, <3>2
    <3> QED BY <2>2, <3>1, <3>2, <3>3 DEF Alone
  <2>3. ASSUME NEW q \in Processes \ beside', pc'[q] = "bind", q \notin failed',
               config'.value["socketname"] # Empty
        PROVE  socket' = None
    BY <1>1, <2>3 DEF SocketCourse, Course, Alone, TypeOK
  <2>4. \A q \in Processes : socket' = q /\ code'[q] = 0 => q \in failed'
    <3>1. \A q \in Processes : socket' = q => socket = q \/ code'[q] # 0
      BY StartupAssumption DEF Course, TypeOK
    <3>2. \A q \in Processes : code'[q] = 0 => code[q] = 0 \/ socket' # q \/ q \in failed'
      BY StartupAssumption DEF TypeOK
    <3>3. failed \subseteq failed'
      OBVIOUS
    <3> QED BY <3>1, <3>2, <3>3 DEF SocketCourse
  <2> QED BY <2>1, <2>2, <2>3, <2>4 DEF SocketCourse
<1>6. DatabaseCourse'
  BY <1>1 DEF DatabaseCourse, Course, Alone, TypeOK
<1>7. PidFileCourse'
  BY <1>1 DEF PidFileCourse, Course, TypeOK
<1>8. ExplainedForGood'
  BY <1>1 DEF ExplainedForGood, Obstacle, Stuck, Course, TypeOK
<1> QED BY <1>2, <1>3, <1>4, <1>5, <1>6, <1>7, <1>8

LEMMA BindStep ==
    ASSUME StartupInv, NEW p \in Processes, Bind(p)
    PROVE  StartupInv'
<1> USE DEF Bind, StartupInv, Goto, Quit, Smooth, Error, Mishap, settings, On, None, Never, Killed, Opening
<1>1. Backends' = Backends /\ UNCHANGED <<daemon, config, ConfigFits>>
  BY BackendsKept DEF ConfigFits
<1>2. TypeOK'
  <2>1. pc' \in [Processes -> Steps]
    BY DEF TypeOK, Steps
  <2>2. at' \in [Processes -> Nat \ {0}]
    <3>1. at \in [Processes -> Nat \ {0}]
      BY DEF TypeOK
    <3>2. at[p] + 1 \in Nat \ {0}
      BY <3>1
    <3>3. at' = at \/ at' = [at EXCEPT ![p] = 1] \/ at' = [at EXCEPT ![p] = at[p] + 1]
      OBVIOUS
    <3> QED BY ONLY <3>1, <3>2, <3>3, p \in Processes
  <2>3. code' \in [Processes -> Codes]
    <3>1. code' = code \/ \E n \in Codes : code' = [code EXCEPT ![p] = n]
      BY CodesAre
    <3>2. code \in [Processes -> Codes]
      BY DEF TypeOK
    <3> QED BY ONLY <3>1, <3>2, p \in Processes
  <2>4. db' \in [Databases -> {"missing", "torn", "good", "foreign"}]
    BY DEF TypeOK
  <2>5. socket' \in Processes \cup {None} /\ pidfile' \in Processes \cup {None}
    BY DEF TypeOK
  <2>6. beside' \subseteq Processes /\ failed' \subseteq Processes
    BY DEF TypeOK
  <2> QED BY <1>1, <2>1, <2>2, <2>3, <2>4, <2>5, <2>6 DEF TypeOK
<1>3. Alone'
  BY DEF Alone, TypeOK
<1>4. Course'
  <2> SUFFICES ASSUME NEW q \in Processes
               PROVE  /\ pc'[q] \notin {"off", "options"} => ConfigFits
                      /\ pc'[q] \in {"clear", "bind", "flush"} => daemon = "collectd"
                      /\ pc'[q] = "fetchers" => daemon = "reportd"
                      /\ pc'[q] = "open" /\ Backends # <<>> => at'[q] \in DOMAIN Backends
                      /\ pc'[q] \in {"setup", "version"} =>
                             at'[q] \in DOMAIN Backends /\ Backends[at'[q]] \in Databases
                      /\ pc'[q] \notin {"off", "flush", "leave"} => code'[q] = Never
    BY <1>1 DEF Course
  <2>1. CASE q # p
    <3>1. pc'[q] = pc[q] /\ at'[q] = at[q] /\ code'[q] = code[q]
      BY <2>1 DEF TypeOK
    <3> QED BY <3>1 DEF Course
  <2>2. CASE q = p
    <3>1. ConfigFits
      BY DEF Course
    <3>2. Backends \in Seq(Databases \cup {"dummy", "strange"})
      BY <3>1 DEF TypeOK, ConfigFits
    <3>3. Backends # <<>> => 1 \in DOMAIN Backends
      BY <3>2
    <3> QED BY <2>2, <3>1, <3>3 DEF Course, TypeOK
  <2> QED BY <2>1, <2>2
<1>5. SocketCourse'
  <2>1. daemon' = "reportd" => socket' = None
    BY <1>1 DEF SocketCourse, Course, TypeOK
  <2>2. ASSUME NEW q \in Processes \ beside', daemon' = "collectd", pc'[q] \in Opening \cup {"loop"}
        PROVE  socket' = q
    BY <1>1, <2>2 DEF SocketCourse, Course, Alone, TypeOK
  <2>3. ASSUME NEW q \in Processes \ beside', pc'[q] = "bind", q \notin failed',
               config'.value["socketname"] # Empty
        PROVE  socket' = None
    BY <1>1, <2>3 DEF SocketCourse, Course, Alone, TypeOK
  <2>4. \A q \in Processes : socket' = q /\ code'[q] = 0 => q \in failed'
    <3>1. \A q \in Processes : socket' = q => socket = q \/ code'[q] # 0
      BY StartupAssumption DEF Course, TypeOK
    <3>2. \A q \in Processes : code'[q] = 0 => code[q] = 0 \/ socket' # q \/ q \in failed'
      BY StartupAssumption DEF TypeOK
    <3>3. failed \subseteq failed'
      OBVIOUS
    <3> QED BY <3>1, <3>2, <3>3 DEF SocketCourse
  <2> QED BY <2>1, <2>2, <2>3, <2>4 DEF SocketCourse
<1>6. DatabaseCourse'
  BY <1>1 DEF DatabaseCourse, Course, Alone, TypeOK
<1>7. PidFileCourse'
  BY <1>1 DEF PidFileCourse, Course, TypeOK
<1>8. ExplainedForGood'
  <2>1. \A name \in Databases : Stuck(name) => Stuck(name)'
    BY <1>1 DEF Stuck, Course, DatabaseCourse, TypeOK
  <2>2. Obstacle => Obstacle'
    BY <1>1, <2>1 DEF Obstacle
  <2>3. \A q \in Processes \ {p} : code'[q] = code[q]
    BY DEF TypeOK
  <2>4. \A q \in Processes : q \in beside \cup failed => q \in beside' \cup failed'
    OBVIOUS
  <2>5. code'[p] \in 1 .. 8 => Obstacle' \/ p \in beside' \cup failed'
    <3>1. CASE code' = code
      BY <3>1 DEF Course
    <3>2. CASE config.value["socketname"] = Empty
      <4>1. Obstacle
        BY <3>2 DEF Obstacle, Course
      <4> QED BY <4>1, <2>2
    <3>3. CASE config.value["socketname"] # Empty /\ socket # None
      BY <3>3 DEF SocketCourse
    <3>4. CASE Error(p)
      BY <3>4 DEF TypeOK
    <3> QED BY <3>1, <3>2, <3>3, <3>4
  <2> QED BY <2>2, <2>3, <2>4, <2>5 DEF ExplainedForGood
<1> QED BY <1>2, <1>3, <1>4, <1>5, <1>6, <1>7, <1>8

LEMMA CheckFetchersStep ==
    ASSUME StartupInv, NEW p \in Processes, CheckFetchers(p)
    PROVE  StartupInv'
<1> USE DEF CheckFetchers, StartupInv, Goto, Quit, Smooth, Error, Mishap, settings, On, None, Never, Killed, Opening
<1>1. Backends' = Backends /\ UNCHANGED <<daemon, config, ConfigFits>>
  BY BackendsKept DEF ConfigFits
<1>2. TypeOK'
  <2>1. pc' \in [Processes -> Steps]
    BY DEF TypeOK, Steps
  <2>2. at' \in [Processes -> Nat \ {0}]
    <3>1. at \in [Processes -> Nat \ {0}]
      BY DEF TypeOK
    <3>2. at[p] + 1 \in Nat \ {0}
      BY <3>1
    <3>3. at' = at \/ at' = [at EXCEPT ![p] = 1] \/ at' = [at EXCEPT ![p] = at[p] + 1]
      OBVIOUS
    <3> QED BY ONLY <3>1, <3>2, <3>3, p \in Processes
  <2>3. code' \in [Processes -> Codes]
    <3>1. code' = code \/ \E n \in Codes : code' = [code EXCEPT ![p] = n]
      BY CodesAre
    <3>2. code \in [Processes -> Codes]
      BY DEF TypeOK
    <3> QED BY ONLY <3>1, <3>2, p \in Processes
  <2>4. db' \in [Databases -> {"missing", "torn", "good", "foreign"}]
    BY DEF TypeOK
  <2>5. socket' \in Processes \cup {None} /\ pidfile' \in Processes \cup {None}
    BY DEF TypeOK
  <2>6. beside' \subseteq Processes /\ failed' \subseteq Processes
    BY DEF TypeOK
  <2> QED BY <1>1, <2>1, <2>2, <2>3, <2>4, <2>5, <2>6 DEF TypeOK
<1>3. Alone'
  BY DEF Alone, TypeOK
<1>4. Course'
  <2> SUFFICES ASSUME NEW q \in Processes
               PROVE  /\ pc'[q] \notin {"off", "options"} => ConfigFits
                      /\ pc'[q] \in {"clear", "bind", "flush"} => daemon = "collectd"
                      /\ pc'[q] = "fetchers" => daemon = "reportd"
                      /\ pc'[q] = "open" /\ Backends # <<>> => at'[q] \in DOMAIN Backends
                      /\ pc'[q] \in {"setup", "version"} =>
                             at'[q] \in DOMAIN Backends /\ Backends[at'[q]] \in Databases
                      /\ pc'[q] \notin {"off", "flush", "leave"} => code'[q] = Never
    BY <1>1 DEF Course
  <2>1. CASE q # p
    <3>1. pc'[q] = pc[q] /\ at'[q] = at[q] /\ code'[q] = code[q]
      BY <2>1 DEF TypeOK
    <3> QED BY <3>1 DEF Course
  <2>2. CASE q = p
    <3>1. ConfigFits
      BY DEF Course
    <3>2. Backends \in Seq(Databases \cup {"dummy", "strange"})
      BY <3>1 DEF TypeOK, ConfigFits
    <3>3. Backends # <<>> => 1 \in DOMAIN Backends
      BY <3>2
    <3> QED BY <2>2, <3>1, <3>3 DEF Course, TypeOK
  <2> QED BY <2>1, <2>2
<1>5. SocketCourse'
  BY <1>1 DEF SocketCourse, Course, Alone, TypeOK
<1>6. DatabaseCourse'
  BY <1>1 DEF DatabaseCourse, Course, Alone, TypeOK
<1>7. PidFileCourse'
  BY <1>1 DEF PidFileCourse, Course, TypeOK
<1>8. ExplainedForGood'
  <2>1. \A name \in Databases : Stuck(name) => Stuck(name)'
    BY <1>1 DEF Stuck, Course, DatabaseCourse, TypeOK
  <2>2. Obstacle => Obstacle'
    BY <1>1, <2>1 DEF Obstacle
  <2>3. \A q \in Processes \ {p} : code'[q] = code[q]
    BY DEF TypeOK
  <2>4. \A q \in Processes : q \in beside \cup failed => q \in beside' \cup failed'
    OBVIOUS
  <2>5. code'[p] \in 1 .. 8 => Obstacle' \/ p \in beside' \cup failed'
    <3>1. CASE config.value["fetchers"] \notin FetcherLists
      <4>1. Obstacle
        BY <3>1 DEF Obstacle, Course
      <4> QED BY <4>1, <2>2
    <3>2. CASE code' = code
      BY <3>2 DEF Course
    <3> QED BY <3>1, <3>2
  <2> QED BY <2>2, <2>3, <2>4, <2>5 DEF ExplainedForGood
<1> QED BY <1>2, <1>3, <1>4, <1>5, <1>6, <1>7, <1>8

LEMMA OpenStep ==
    ASSUME StartupInv, NEW p \in Processes, Open(p)
    PROVE  StartupInv'
<1> USE DEF Open, StartupInv, Goto, Quit, Smooth, Error, Mishap, settings, On, None, Never, Killed, Opening, Opened
<1>1. Backends' = Backends /\ UNCHANGED <<daemon, config, ConfigFits>>
  BY BackendsKept DEF ConfigFits
<1>2. TypeOK'
  <2>1. pc' \in [Processes -> Steps]
    BY DEF TypeOK, Steps
  <2>2. at' \in [Processes -> Nat \ {0}]
    <3>1. at \in [Processes -> Nat \ {0}]
      BY DEF TypeOK
    <3>2. at[p] + 1 \in Nat \ {0}
      BY <3>1
    <3>3. at' = at \/ at' = [at EXCEPT ![p] = 1] \/ at' = [at EXCEPT ![p] = at[p] + 1]
      OBVIOUS
    <3> QED BY ONLY <3>1, <3>2, <3>3, p \in Processes
  <2>3. code' \in [Processes -> Codes]
    <3>1. code' = code \/ code' = [code EXCEPT ![p] = 2] \/ code' = [code EXCEPT ![p] = 4] \/ code' = [code EXCEPT ![p] = 8]
      OBVIOUS
    <3>2. code \in [Processes -> Codes] /\ {2, 3, 4, 8} \subseteq Codes
      BY DEF TypeOK, Codes
    <3> QED BY ONLY <3>1, <3>2, p \in Processes
  <2>4. db' \in [Databases -> {"missing", "torn", "good", "foreign"}]
    BY DEF TypeOK
  <2>5. socket' \in Processes \cup {None} /\ pidfile' \in Processes \cup {None}
    BY DEF TypeOK
  <2>6. beside' \subseteq Processes /\ failed' \subseteq Processes
    BY DEF TypeOK
  <2> QED BY <1>1, <2>1, <2>2, <2>3, <2>4, <2>5, <2>6 DEF TypeOK
<1>3. Alone'
  BY DEF Alone, TypeOK
<1>4. Course'
  <2> SUFFICES ASSUME NEW q \in Processes
               PROVE  /\ pc'[q] \notin {"off", "options"} => ConfigFits
                      /\ pc'[q] \in {"clear", "bind", "flush"} => daemon = "collectd"
                      /\ pc'[q] = "fetchers" => daemon = "reportd"
                      /\ pc'[q] = "open" /\ Backends # <<>> => at'[q] \in DOMAIN Backends
                      /\ pc'[q] \in {"setup", "version"} =>
                             at'[q] \in DOMAIN Backends /\ Backends[at'[q]] \in Databases
                      /\ pc'[q] \notin {"off", "flush", "leave"} => code'[q] = Never
    BY <1>1 DEF Course
  <2>1. CASE q # p
    <3>1. pc'[q] = pc[q] /\ at'[q] = at[q] /\ code'[q] = code[q]
      BY <2>1 DEF TypeOK
    <3> QED BY <3>1 DEF Course
  <2>2. CASE q = p
    BY <2>2 DEF Course, TypeOK
  <2> QED BY <2>1, <2>2
<1>5. SocketCourse'
  BY <1>1 DEF SocketCourse, Course, Alone, TypeOK
<1>6. DatabaseCourse'
  BY <1>1 DEF DatabaseCourse, Course, Alone, TypeOK
<1>7. PidFileCourse'
  BY <1>1 DEF PidFileCourse, Course, TypeOK
<1>8. ExplainedForGood'
  <2>1. \A name \in Databases : Stuck(name) => Stuck(name)'
    BY <1>1 DEF Stuck, Course, DatabaseCourse, TypeOK
  <2>2. Obstacle => Obstacle'
    BY <1>1, <2>1 DEF Obstacle
  <2>3. \A q \in Processes \ {p} : code'[q] = code[q]
    BY DEF TypeOK
  <2>4. \A q \in Processes : q \in beside \cup failed => q \in beside' \cup failed'
    OBVIOUS
  <2>5. code'[p] \in 1 .. 8 => Obstacle' \/ p \in beside' \cup failed'
    <3>1. CASE code' = code
      BY <3>1 DEF Course
    <3>2. CASE Backends = <<>>
      <4>1. daemon = "collectd"
        BY <3>2 DEF Backends, TypeOK
      <4> QED BY <3>2, <4>1, <2>2 DEF Obstacle
    <3>3. CASE Backends # <<>> /\ Backends[at[p]] = "strange"
      BY <3>3, <2>2 DEF Obstacle, Course
    <3>4. CASE Backends[at[p]] \in Databases /\ db[Backends[at[p]]] = "foreign"
      BY <3>4, <2>2 DEF Obstacle, Stuck
    <3>5. CASE Error(p)
      BY <3>5 DEF TypeOK
    <3> QED BY <3>1, <3>2, <3>3, <3>4, <3>5
  <2> QED BY <2>2, <2>3, <2>4, <2>5 DEF ExplainedForGood
<1> QED BY <1>2, <1>3, <1>4, <1>5, <1>6, <1>7, <1>8

LEMMA SetupStep ==
    ASSUME StartupInv, NEW p \in Processes, Setup(p)
    PROVE  StartupInv'
<1> USE DEF Setup, StartupInv, Goto, Quit, Smooth, Error, Mishap, settings, On, None, Never, Killed, Opening
<1>1. Backends' = Backends /\ UNCHANGED <<daemon, config, ConfigFits>>
  BY BackendsKept DEF ConfigFits
<1>2. TypeOK'
  <2>1. pc' \in [Processes -> Steps]
    BY DEF TypeOK, Steps
  <2>2. at' \in [Processes -> Nat \ {0}]
    <3>1. at \in [Processes -> Nat \ {0}]
      BY DEF TypeOK
    <3>2. at[p] + 1 \in Nat \ {0}
      BY <3>1
    <3>3. at' = at \/ at' = [at EXCEPT ![p] = 1] \/ at' = [at EXCEPT ![p] = at[p] + 1]
      OBVIOUS
    <3> QED BY ONLY <3>1, <3>2, <3>3, p \in Processes
  <2>3. code' \in [Processes -> Codes]
    <3>1. code' = code \/ \E n \in Codes : code' = [code EXCEPT ![p] = n]
      BY CodesAre
    <3>2. code \in [Processes -> Codes]
      BY DEF TypeOK
    <3> QED BY ONLY <3>1, <3>2, p \in Processes
  <2>4. db' \in [Databases -> {"missing", "torn", "good", "foreign"}]
    BY DEF TypeOK
  <2>5. socket' \in Processes \cup {None} /\ pidfile' \in Processes \cup {None}
    BY DEF TypeOK
  <2>6. beside' \subseteq Processes /\ failed' \subseteq Processes
    BY DEF TypeOK
  <2> QED BY <1>1, <2>1, <2>2, <2>3, <2>4, <2>5, <2>6 DEF TypeOK
<1>3. Alone'
  BY DEF Alone, TypeOK
<1>4. Course'
  <2> SUFFICES ASSUME NEW q \in Processes
               PROVE  /\ pc'[q] \notin {"off", "options"} => ConfigFits
                      /\ pc'[q] \in {"clear", "bind", "flush"} => daemon = "collectd"
                      /\ pc'[q] = "fetchers" => daemon = "reportd"
                      /\ pc'[q] = "open" /\ Backends # <<>> => at'[q] \in DOMAIN Backends
                      /\ pc'[q] \in {"setup", "version"} =>
                             at'[q] \in DOMAIN Backends /\ Backends[at'[q]] \in Databases
                      /\ pc'[q] \notin {"off", "flush", "leave"} => code'[q] = Never
    BY <1>1 DEF Course
  <2>1. CASE q # p
    <3>1. pc'[q] = pc[q] /\ at'[q] = at[q] /\ code'[q] = code[q]
      BY <2>1 DEF TypeOK
    <3> QED BY <3>1 DEF Course
  <2>2. CASE q = p
    BY <2>2 DEF Course, TypeOK
  <2> QED BY <2>1, <2>2
<1>5. SocketCourse'
  BY <1>1 DEF SocketCourse, Course, Alone, TypeOK
<1>6. DatabaseCourse'
  BY <1>1 DEF DatabaseCourse, Course, Alone, TypeOK
<1>7. PidFileCourse'
  BY <1>1 DEF PidFileCourse, Course, TypeOK
<1>8. ExplainedForGood'
  <2>1. \A name \in Databases : Stuck(name) => Stuck(name)'
    BY <1>1 DEF Stuck, Course, DatabaseCourse, TypeOK
  <2>2. Obstacle => Obstacle'
    BY <1>1, <2>1 DEF Obstacle
  <2>3. \A q \in Processes \ {p} : code'[q] = code[q]
    BY DEF TypeOK
  <2>4. \A q \in Processes : q \in beside \cup failed => q \in beside' \cup failed'
    OBVIOUS
  <2>5. code'[p] \in 1 .. 8 => Obstacle' \/ p \in beside' \cup failed'
    <3> DEFINE name == Backends[at[p]]
    <3>1. CASE code' = code
      BY <3>1 DEF Course
    <3>2. CASE db[name] # "missing" /\ p \notin beside \cup failed
      <4>1. db[name] = "torn" /\ name \in Databases
        BY <3>2 DEF DatabaseCourse, Course
      <4>2. \A q \in Processes : pc[q] # "version"
        BY <3>2 DEF Alone
      <4>3. Stuck(name)
        BY <4>1, <4>2 DEF Stuck
      <4> QED BY <4>1, <4>3, <2>2 DEF Obstacle
    <3>3. CASE p \in beside \cup failed
      BY <3>3
    <3>4. CASE Error(p)
      BY <3>4
    <3> QED BY <3>1, <3>2, <3>3, <3>4
  <2> QED BY <2>2, <2>3, <2>4, <2>5 DEF ExplainedForGood
<1> QED BY <1>2, <1>3, <1>4, <1>5, <1>6, <1>7, <1>8

LEMMA SetupDoneStep ==
    ASSUME StartupInv, NEW p \in Processes, SetupDone(p)
    PROVE  StartupInv'
<1> USE DEF SetupDone, StartupInv, Goto, Quit, Smooth, Error, Mishap, settings, On, None, Never, Killed, Opening, Opened
<1>1. Backends' = Backends /\ UNCHANGED <<daemon, config, ConfigFits>>
  BY BackendsKept DEF ConfigFits
<1>2. TypeOK'
  <2>1. pc' \in [Processes -> Steps]
    BY DEF TypeOK, Steps
  <2>2. at' \in [Processes -> Nat \ {0}]
    <3>1. at \in [Processes -> Nat \ {0}]
      BY DEF TypeOK
    <3>2. at[p] + 1 \in Nat \ {0}
      BY <3>1
    <3>3. at' = at \/ at' = [at EXCEPT ![p] = 1] \/ at' = [at EXCEPT ![p] = at[p] + 1]
      OBVIOUS
    <3> QED BY ONLY <3>1, <3>2, <3>3, p \in Processes
  <2>3. code' \in [Processes -> Codes]
    <3>1. code' = code \/ code' = [code EXCEPT ![p] = 3]
      OBVIOUS
    <3>2. code \in [Processes -> Codes] /\ {2, 3, 4, 8} \subseteq Codes
      BY DEF TypeOK, Codes
    <3> QED BY ONLY <3>1, <3>2, p \in Processes
  <2>4. db' \in [Databases -> {"missing", "torn", "good", "foreign"}]
    BY DEF TypeOK
  <2>5. socket' \in Processes \cup {None} /\ pidfile' \in Processes \cup {None}
    BY DEF TypeOK
  <2>6. beside' \subseteq Processes /\ failed' \subseteq Processes
    BY DEF TypeOK
  <2> QED BY <1>1, <2>1, <2>2, <2>3, <2>4, <2>5, <2>6 DEF TypeOK
<1>3. Alone'
  BY DEF Alone, TypeOK
<1>4. Course'
  <2>1. at'[p] \in Nat /\ \A q \in Processes \ {p} : at'[q] = at[q] /\ pc'[q] = pc[q]
    BY DEF TypeOK
  <2> QED BY <1>1, <2>1 DEF Course, TypeOK
<1>5. SocketCourse'
  BY <1>1 DEF SocketCourse, Course, Alone, TypeOK
<1>6. DatabaseCourse'
  <2>1. \A q \in Processes : pc'[q] \in {"setup", "version"} =>
              q # p /\ pc'[q] = pc[q] /\ at'[q] = at[q]
    BY DEF TypeOK
  <2>2. \A name \in Databases : db'[name] = db[name] \/ db'[name] = "good"
    BY DEF TypeOK
  <2>3. \A q \in Processes : pc'[q] = "version" => db'[Backends[at[q]]] # "foreign"
    BY <2>1, <2>2 DEF DatabaseCourse, Course
  <2>4. \A q \in Processes \ beside : pc'[q] # "setup"
    BY <2>1 DEF Alone
  <2> QED BY <1>1, <2>1, <2>3, <2>4 DEF DatabaseCourse
<1>7. PidFileCourse'
  BY <1>1 DEF PidFileCourse, Course, TypeOK
<1>8. ExplainedForGood'
  <2>1. \A name \in Databases : Stuck(name) => Stuck(name)'
    <3>1. db' = db \/ db' = [db EXCEPT ![Backends[at[p]]] = "good"]
      OBVIOUS
    <3>2. \A q \in Processes : pc'[q] = "version" => pc[q] = "version" /\ at'[q] = at[q]
      BY DEF TypeOK
    <3>3. db[Backends[at[p]]] # "foreign"
      BY DEF DatabaseCourse
    <3>4. ASSUME NEW name \in Databases, Stuck(name) PROVE name # Backends[at[p]]
      BY <3>3, <3>4 DEF Stuck
    <3>5. \A name \in Databases : Stuck(name) => db'[name] = db[name]
      BY <3>1, <3>4 DEF TypeOK
    <3> QED BY <1>1, <3>2, <3>5 DEF Stuck
  <2>2. Obstacle => Obstacle'
    BY <1>1, <2>1 DEF Obstacle
  <2>3. \A q \in Processes \ {p} : code'[q] = code[q]
    BY DEF TypeOK
  <2>4. \A q \in Processes : q \in beside \cup failed => q \in beside' \cup failed'
    OBVIOUS
  <2>5. code'[p] \in 1 .. 8 => Obstacle' \/ p \in beside' \cup failed'
    <3>1. CASE code' = code
      BY <3>1 DEF Course
    <3>2. CASE Error(p)
      BY <3>2 DEF TypeOK
    <3> QED BY <3>1, <3>2
  <2> QED BY <2>2, <2>3, <2>4, <2>5 DEF ExplainedForGood
<1> QED BY <1>2, <1>3, <1>4, <1>5, <1>6, <1>7, <1>8

LEMMA FlushStep ==
    ASSUME StartupInv, NEW p \in Processes, Flush(p)
    PROVE  StartupInv'
<1> USE DEF Flush, StartupInv, Goto, Quit, Smooth, Error, Mishap, settings, On, None, Never, Killed, Opening
<1>0. DatabaseCourse' /\ \A name \in Databases : Stuck(name) => Stuck(name)'
  BY CutShortCourse
<1>1. Backends' = Backends /\ UNCHANGED <<daemon, config, ConfigFits>>
  BY BackendsKept DEF ConfigFits
<1>2. TypeOK'
  <2>1. pc' \in [Processes -> Steps]
    BY DEF TypeOK, Steps
  <2>2. at' \in [Processes -> Nat \ {0}]
    <3>1. at \in [Processes -> Nat \ {0}]
      BY DEF TypeOK
    <3>2. at[p] + 1 \in Nat \ {0}
      BY <3>1
    <3>3. at' = at \/ at' = [at EXCEPT ![p] = 1] \/ at' = [at EXCEPT ![p] = at[p] + 1]
      OBVIOUS
    <3> QED BY ONLY <3>1, <3>2, <3>3, p \in Processes
  <2>3. code' \in [Processes -> Codes]
    <3>1. code' = code \/ \E n \in Codes : code' = [code EXCEPT ![p] = n]
      BY CodesAre
    <3>2. code \in [Processes -> Codes]
      BY DEF TypeOK
    <3> QED BY ONLY <3>1, <3>2, p \in Processes
  <2>4. db' \in [Databases -> {"missing", "torn", "good", "foreign"}]
    BY CutShortKeeps
  <2>5. socket' \in Processes \cup {None} /\ pidfile' \in Processes \cup {None}
    BY DEF TypeOK
  <2>6. beside' \subseteq Processes /\ failed' \subseteq Processes
    BY DEF TypeOK
  <2> QED BY <1>1, <2>1, <2>2, <2>3, <2>4, <2>5, <2>6 DEF TypeOK
<1>3. Alone'
  BY DEF Alone, TypeOK
<1>4. Course'
  BY <1>1 DEF Course, TypeOK
<1>5. SocketCourse'
  BY <1>1 DEF SocketCourse, Course, Alone, TypeOK
<1>6. DatabaseCourse'
  BY <1>0
<1>7. PidFileCourse'
  BY <1>1 DEF PidFileCourse, Course, TypeOK
<1>8. ExplainedForGood'
  <2>1. Obstacle => Obstacle'
    BY <1>1, <1>0 DEF Obstacle
  <2>2. \A q \in Processes \ {p} : code'[q] = code[q]
    BY DEF TypeOK
  <2>3. \A q \in Processes : q \in beside \cup failed => q \in beside' \cup failed'
    OBVIOUS
  <2>4. code'[p] \in 1 .. 8 => Obstacle' \/ p \in beside' \cup failed'
    BY <2>1 DEF TypeOK, ExplainedForGood
  <2> QED BY <2>1, <2>2, <2>3, <2>4 DEF ExplainedForGood
<1> QED BY <1>2, <1>3, <1>4, <1>5, <1>6, <1>7, <1>8

LEMMA BeginStep ==
    ASSUME StartupInv, NEW p \in Processes, Begin(p)
    PROVE  StartupInv'
<1> USE DEF Begin, StartupInv, Goto, Quit, Smooth, Error, Mishap, settings, On, None, Never, Killed, Opening
<1>1. Backends' = Backends /\ UNCHANGED <<daemon, config, ConfigFits>>
  BY BackendsKept DEF ConfigFits
<1>2. TypeOK'
  BY <1>1, CodesAre DEF TypeOK, Steps
<1>3. Alone'
  BY DEF Alone, TypeOK
<1>4. Course'
  BY <1>1 DEF Course, TypeOK
<1>5. SocketCourse'
  BY <1>1 DEF SocketCourse, Course, Alone, TypeOK
<1>6. DatabaseCourse'
  BY <1>1 DEF DatabaseCourse, Course, Alone, TypeOK
<1>7. PidFileCourse'
  BY <1>1 DEF PidFileCourse, Course, TypeOK
<1>8. ExplainedForGood'
  BY <1>1 DEF ExplainedForGood, Obstacle, Stuck, Course, TypeOK
<1> QED BY <1>2, <1>3, <1>4, <1>5, <1>6, <1>7, <1>8

LEMMA StopStep ==
    ASSUME StartupInv, NEW p \in Processes, Stop(p)
    PROVE  StartupInv'
<1> USE DEF Stop, StartupInv, Goto, Quit, Smooth, Error, Mishap, settings, On, None, Never, Killed, Opening
<1>1. Backends' = Backends /\ UNCHANGED <<daemon, config, ConfigFits>>
  BY BackendsKept DEF ConfigFits
<1>2. TypeOK'
  <2>1. pc' \in [Processes -> Steps]
    BY DEF TypeOK, Steps
  <2>2. at' \in [Processes -> Nat \ {0}]
    <3>1. at \in [Processes -> Nat \ {0}]
      BY DEF TypeOK
    <3>2. at[p] + 1 \in Nat \ {0}
      BY <3>1
    <3>3. at' = at \/ at' = [at EXCEPT ![p] = 1] \/ at' = [at EXCEPT ![p] = at[p] + 1]
      OBVIOUS
    <3> QED BY ONLY <3>1, <3>2, <3>3, p \in Processes
  <2>3. code' \in [Processes -> Codes]
    <3>1. code' = code \/ \E n \in Codes : code' = [code EXCEPT ![p] = n]
      BY CodesAre
    <3>2. code \in [Processes -> Codes]
      BY DEF TypeOK
    <3> QED BY ONLY <3>1, <3>2, p \in Processes
  <2>4. db' \in [Databases -> {"missing", "torn", "good", "foreign"}]
    BY DEF TypeOK
  <2>5. socket' \in Processes \cup {None} /\ pidfile' \in Processes \cup {None}
    BY DEF TypeOK
  <2>6. beside' \subseteq Processes /\ failed' \subseteq Processes
    BY DEF TypeOK
  <2> QED BY <1>1, <2>1, <2>2, <2>3, <2>4, <2>5, <2>6 DEF TypeOK
<1>3. Alone'
  BY DEF Alone, TypeOK
<1>4. Course'
  <2> SUFFICES ASSUME NEW q \in Processes
               PROVE  /\ pc'[q] \notin {"off", "options"} => ConfigFits
                      /\ pc'[q] \in {"clear", "bind", "flush"} => daemon = "collectd"
                      /\ pc'[q] = "fetchers" => daemon = "reportd"
                      /\ pc'[q] = "open" /\ Backends # <<>> => at'[q] \in DOMAIN Backends
                      /\ pc'[q] \in {"setup", "version"} =>
                             at'[q] \in DOMAIN Backends /\ Backends[at'[q]] \in Databases
                      /\ pc'[q] \notin {"off", "flush", "leave"} => code'[q] = Never
    BY <1>1 DEF Course
  <2>1. CASE q # p
    <3>1. pc'[q] = pc[q] /\ at'[q] = at[q] /\ code'[q] = code[q]
      BY <2>1 DEF TypeOK
    <3> QED BY <3>1 DEF Course
  <2>2. CASE q = p
    BY <2>2 DEF Course, TypeOK
  <2> QED BY <2>1, <2>2
<1>5. SocketCourse'
  <2>1. daemon' = "reportd" => socket' = None
    BY <1>1 DEF SocketCourse, Course, TypeOK
  <2>2. ASSUME NEW q \in Processes \ beside', daemon' = "collectd", pc'[q] \in Opening \cup {"loop"}
        PROVE  socket' = q
    BY <1>1, <2>2 DEF SocketCourse, Course, Alone, TypeOK
  <2>3. ASSUME NEW q \in Processes \ beside', pc'[q] = "bind", q \notin failed',
               config'.value["socketname"] # Empty
        PROVE  socket' = None
    BY <1>1, <2>3 DEF SocketCourse, Course, Alone, TypeOK
  <2>4. \A q \in Processes : socket' = q /\ code'[q] = 0 => q \in failed'
    <3>1. \A q \in Processes : socket' = q => socket = q \/ code'[q] # 0
      BY StartupAssumption DEF Course, TypeOK
    <3>2. \A q \in Processes : code'[q] = 0 => code[q] = 0 \/ socket' # q \/ q \in failed'
      <4>1. \A q \in Processes : code'[q] = 0 => code[q] = 0 \/ q = p
        BY DEF TypeOK
      <4>2. code'[p] = 0 => socket' = None \/ p \in failed'
        BY DEF SocketCourse, TypeOK
      <4> QED BY <4>1, <4>2, StartupAssumption
    <3>3. failed \subseteq failed'
      OBVIOUS
    <3> QED BY <3>1, <3>2, <3>3 DEF SocketCourse
  <2> QED BY <2>1, <2>2, <2>3, <2>4 DEF SocketCourse
<1>6. DatabaseCourse'
  BY <1>1 DEF DatabaseCourse, Course, Alone, TypeOK
<1>7. PidFileCourse'
  BY <1>1 DEF PidFileCourse, Course, TypeOK
<1>8. ExplainedForGood'
  BY <1>1 DEF ExplainedForGood, Obstacle, Stuck, Course, TypeOK
<1> QED BY <1>2, <1>3, <1>4, <1>5, <1>6, <1>7, <1>8

LEMMA SetupExitsStep ==
    ASSUME StartupInv, NEW p \in Processes, SetupExits(p)
    PROVE  StartupInv'
<1> USE DEF SetupExits, StartupInv, Goto, Quit, Smooth, Error, Mishap, settings, On, None, Never, Killed, Opening
<1>0. DatabaseCourse' /\ \A name \in Databases : Stuck(name) => Stuck(name)'
  BY CutShortCourse
<1>1. Backends' = Backends /\ UNCHANGED <<daemon, config, ConfigFits>>
  BY BackendsKept DEF ConfigFits
<1>2. TypeOK'
  <2>1. pc' \in [Processes -> Steps]
    BY DEF TypeOK, Steps
  <2>2. code' \in [Processes -> Codes]
    <3>1. code' = [code EXCEPT ![p] = 3] /\ 3 \in Codes
      BY DEF Codes
    <3>2. code \in [Processes -> Codes]
      BY DEF TypeOK
    <3> QED BY ONLY <3>1, <3>2, p \in Processes
  <2>3. db' \in [Databases -> {"missing", "torn", "good", "foreign"}]
    BY CutShortKeeps
  <2>4. failed' \subseteq Processes
    BY DEF TypeOK
  <2> QED BY <1>1, <2>1, <2>2, <2>3, <2>4 DEF TypeOK
<1>3. Alone'
  BY DEF Alone, TypeOK
<1>4. Course'
  BY <1>1 DEF Course, TypeOK
<1>5. SocketCourse'
  BY <1>1 DEF SocketCourse, Course, Alone, TypeOK
<1>6. DatabaseCourse'
  BY <1>0
<1>7. PidFileCourse'
  BY <1>1 DEF PidFileCourse, Course, TypeOK
<1>8. ExplainedForGood'
  <2>1. Obstacle => Obstacle'
    BY <1>1, <1>0 DEF Obstacle
  <2>2. \A q \in Processes \ {p} : code'[q] = code[q]
    BY DEF TypeOK
  <2>3. \A q \in Processes : q \in beside \cup failed => q \in beside' \cup failed'
    OBVIOUS
  <2>4. code'[p] \in 1 .. 8 => Obstacle' \/ p \in beside' \cup failed'
    BY DEF TypeOK
  <2> QED BY <2>1, <2>2, <2>3, <2>4 DEF ExplainedForGood
<1> QED BY <1>2, <1>3, <1>4, <1>5, <1>6, <1>7, <1>8

LEMMA DieStep ==
    ASSUME StartupInv, NEW p \in Processes, Die(p)
    PROVE  StartupInv'
<1> USE DEF Die, StartupInv, Goto, Quit, Smooth, Error, Mishap, settings, On, None, Never, Killed, Opening
<1>0. DatabaseCourse' /\ \A name \in Databases : Stuck(name) => Stuck(name)'
  BY CutShortCourse
<1>1. Backends' = Backends /\ UNCHANGED <<daemon, config, ConfigFits>>
  BY BackendsKept DEF ConfigFits
<1>2. TypeOK'
  <2>1. pc' \in [Processes -> Steps]
    BY DEF TypeOK, Steps
  <2>2. code' \in [Processes -> Codes]
    <3>1. code' = [code EXCEPT ![p] = 8] /\ 8 \in Codes
      BY DEF Codes
    <3>2. code \in [Processes -> Codes]
      BY DEF TypeOK
    <3> QED BY ONLY <3>1, <3>2, p \in Processes
  <2>3. db' \in [Databases -> {"missing", "torn", "good", "foreign"}]
    BY CutShortKeeps
  <2>4. failed' \subseteq Processes
    BY DEF TypeOK
  <2> QED BY <1>1, <2>1, <2>2, <2>3, <2>4 DEF TypeOK
<1>3. Alone'
  BY DEF Alone, TypeOK
<1>4. Course'
  BY <1>1 DEF Course, TypeOK
<1>5. SocketCourse'
  BY <1>1 DEF SocketCourse, Course, Alone, TypeOK
<1>6. DatabaseCourse'
  BY <1>0
<1>7. PidFileCourse'
  BY <1>1 DEF PidFileCourse, Course, TypeOK
<1>8. ExplainedForGood'
  <2>1. Obstacle => Obstacle'
    BY <1>1, <1>0 DEF Obstacle
  <2>2. \A q \in Processes \ {p} : code'[q] = code[q]
    BY DEF TypeOK
  <2>3. \A q \in Processes : q \in beside \cup failed => q \in beside' \cup failed'
    OBVIOUS
  <2>4. code'[p] \in 1 .. 8 => Obstacle' \/ p \in beside' \cup failed'
    BY DEF TypeOK
  <2> QED BY <2>1, <2>2, <2>3, <2>4 DEF ExplainedForGood
<1> QED BY <1>2, <1>3, <1>4, <1>5, <1>6, <1>7, <1>8

LEMMA KillStep ==
    ASSUME StartupInv, NEW p \in Processes, Kill(p)
    PROVE  StartupInv'
<1> USE DEF Kill, StartupInv, Goto, Quit, Smooth, Error, Mishap, settings, On, None, Never, Killed, Opening
<1>0. DatabaseCourse' /\ \A name \in Databases : Stuck(name) => Stuck(name)'
  BY CutShortCourse
<1>1. Backends' = Backends /\ UNCHANGED <<daemon, config, ConfigFits>>
  BY BackendsKept DEF ConfigFits
<1>2. TypeOK'
  <2>1. pc' \in [Processes -> Steps]
    BY DEF TypeOK, Steps
  <2>2. code' \in [Processes -> Codes]
    <3>1. code' = code \/ \E n \in Codes : code' = [code EXCEPT ![p] = n]
      BY CodesAre
    <3>2. code \in [Processes -> Codes]
      BY DEF TypeOK
    <3> QED BY ONLY <3>1, <3>2, p \in Processes
  <2>3. db' \in [Databases -> {"missing", "torn", "good", "foreign"}]
    BY CutShortKeeps
  <2>4. failed' \subseteq Processes
    BY DEF TypeOK
  <2> QED BY <1>1, <2>1, <2>2, <2>3, <2>4 DEF TypeOK
<1>3. Alone'
  BY DEF Alone, TypeOK
<1>4. Course'
  BY <1>1 DEF Course, TypeOK
<1>5. SocketCourse'
  BY <1>1 DEF SocketCourse, Course, Alone, TypeOK
<1>6. DatabaseCourse'
  BY <1>0
<1>7. PidFileCourse'
  BY <1>1 DEF PidFileCourse, Course, TypeOK
<1>8. ExplainedForGood'
  <2>1. Obstacle => Obstacle'
    BY <1>1, <1>0 DEF Obstacle
  <2>2. \A q \in Processes \ {p} : code'[q] = code[q]
    BY DEF TypeOK
  <2>3. \A q \in Processes : q \in beside \cup failed => q \in beside' \cup failed'
    OBVIOUS
  <2>4. code'[p] \in 1 .. 8 => Obstacle' \/ p \in beside' \cup failed'
    BY DEF TypeOK
  <2> QED BY <2>1, <2>2, <2>3, <2>4 DEF ExplainedForGood
<1> QED BY <1>2, <1>3, <1>4, <1>5, <1>6, <1>7, <1>8

-----------------------------------------------------------------------------
(* The theorems.                                                           *)

LEMMA StartupStep == StartupInv /\ [Next]_vars => StartupInv'
<1> SUFFICES ASSUME StartupInv, [Next]_vars PROVE StartupInv'
  OBVIOUS
<1>1. CASE Next
  BY <1>1, ReadOptionsStep, EnterStep, LeaveStep, ClearStep, BindStep, CheckFetchersStep, OpenStep,
     SetupStep, SetupDoneStep, FlushStep, BeginStep, StopStep, SetupExitsStep, DieStep, KillStep DEF Next, Step
<1>2. CASE UNCHANGED vars
  <2>1. Backends' = Backends
    BY <1>2, BackendsKept DEF vars
  <2> QED
    BY <1>2, <2>1 DEF vars, settings, ConfigFits, StartupInv, TypeOK, Alone, Course, SocketCourse,
       DatabaseCourse, PidFileCourse, ExplainedForGood, Obstacle, Stuck, On
<1> QED BY <1>1, <1>2

\* Starts, kills and ends of any number of processes keep the invariant: a
\* process that is alone owns what it has bound, a database is set up by those
\* who found none, and exit codes are decided where the code decides them.
THEOREM StartupInvariance == Spec => []StartupInv
BY StartupInit, StartupStep, PTL DEF Spec

\* Nobody but a process beside it takes the socket from a collectd in its loop:
\* remove_datagram_socket and bind at each start, however the last one ended.
THEOREM SocketIsOurs == Spec => []Reachable
<1>1. StartupInv => Reachable
  BY DEF StartupInv, SocketCourse, Reachable
<1> QED BY <1>1, StartupInvariance, PTL

\* Each exit code of a start that failed has a cause that can still be seen:
\* no kill, however early, makes the next start of collectd or reportd fail but
\* through a database left half set up.
THEOREM FailuresHaveReasons == Spec => []StartsFailForAReason
<1>1. StartupInv => StartsFailForAReason
  <2>1. \A name \in Databases : Stuck(name) => db[name] \in {"torn", "foreign"}
    BY DEF Stuck
  <2> QED BY <2>1 DEF StartupInv, ExplainedForGood, Obstacle, StartsFailForAReason
<1> QED BY <1>1, StartupInvariance, PTL

\* A process that ends takes its PID file and its socket with it unless it was
\* killed, ended with an error or could not remove them (PidFile.__exit__, the
\* end of tlsrpt_collectd_daemon).
THEOREM LeftoversHaveReasons == Spec => []LeftoversExplained
<1>1. StartupInv => LeftoversExplained
  BY StartupAssumption DEF StartupInv, TypeOK, SocketCourse, PidFileCourse, LeftoversExplained
<1> QED BY <1>1, StartupInvariance, PTL
=============================================================================
