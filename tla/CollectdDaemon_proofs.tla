------------------------ MODULE CollectdDaemon_proofs ------------------------
(***************************************************************************)
(* The main loop of tlsrpt-collectd keeps DaemonInv: datagrams are counted *)
(* once and in order by every storage, completely by the first but for what *)
(* SQLite rolled back, and flushed at shutdown, for all datagrams, storages, *)
(* errors and signals.                                                     *)
(***************************************************************************)
EXTENDS CollectdDaemon, FiniteSetTheorems, SequenceTheorems, TLAPS

-----------------------------------------------------------------------------
(* Sequences of policies.                                                  *)

LEMMA IndexFacts ==
    /\ Len(Storages) \in Nat /\ Len(Storages) >= 1
    /\ Index = 1 .. Len(Storages) /\ 1 \in Index
BY StorageAssumption DEF Index

LEMMA UsableFits == \A q \in Seq(BOOLEAN) : Usable(q) \in 0 .. Len(q)
<1> SUFFICES ASSUME NEW q \in Seq(BOOLEAN) PROVE Usable(q) \in 0 .. Len(q)
  OBVIOUS
<1> DEFINE good == {n \in 1 .. Len(q) : \A k \in 1 .. n : q[k]}
<1>1. Len(q) \in Nat /\ DOMAIN q = 1 .. Len(q)
  OBVIOUS
<1>2. IsFiniteSet(1 .. Len(q)) /\ Cardinality(1 .. Len(q)) = Len(q)
  BY <1>1, FS_Interval, SMTT(30)
<1>3. good \subseteq 1 .. Len(q)
  OBVIOUS
<1>4. Cardinality(good) \in Nat /\ Cardinality(good) <= Len(q)
  BY <1>2, <1>3, FS_Subset, FS_CardinalityType
<1>5. Usable(q) = Cardinality(good)
  BY <1>1 DEF Usable
<1> QED BY <1>1, <1>4, <1>5

\* Rows that are committed keep their place in what is counted.
LEMMA CommitKeepsCount ==
    ASSUME NEW s \in Seq(Parts), NEW p \in Seq(Parts), NEW q \in Seq(Parts)
    PROVE  /\ (s \o p) \o <<>> = s \o p
           /\ s \o (p \o q) = (s \o p) \o q
           /\ (s \o (p \o q)) \o <<>> = (s \o p) \o q
<1>1. s \o p \in Seq(Parts) /\ p \o q \in Seq(Parts) /\ s \o (p \o q) \in Seq(Parts)
  OBVIOUS
<1>2. s \o (p \o q) = (s \o p) \o q
  BY ConcatAssociative, SMTT(30)
<1>3. (s \o p) \o <<>> = s \o p
  BY <1>1, ConcatEmptySeq
<1>4. (s \o (p \o q)) \o <<>> = s \o (p \o q)
  BY <1>1, ConcatEmptySeq
<1> QED BY <1>2, <1>3, <1>4

LEMMA ConcatElements ==
    ASSUME NEW a \in Seq(Parts), NEW b \in Seq(Parts)
    PROVE  /\ Elements(a \o b) = Elements(a) \cup Elements(b)
           /\ Elements(a) \subseteq Parts
           /\ \A m \in DOMAIN a : m \in DOMAIN (a \o b) /\ (a \o b)[m] = a[m]
<1>1. /\ a \o b \in Seq(Parts) /\ Len(a \o b) = Len(a) + Len(b)
      /\ \A m \in 1 .. Len(a) + Len(b) :
             (a \o b)[m] = IF m <= Len(a) THEN a[m] ELSE b[m - Len(a)]
  BY ConcatProperties
<1>2. /\ Len(a) \in Nat /\ DOMAIN a = 1 .. Len(a) /\ Len(b) \in Nat /\ DOMAIN b = 1 .. Len(b)
      /\ DOMAIN (a \o b) = 1 .. Len(a) + Len(b)
  BY ONLY <1>1, a \in Seq(Parts), b \in Seq(Parts)
<1>3. \A m \in DOMAIN a : m \in DOMAIN (a \o b) /\ (a \o b)[m] = a[m]
  BY ONLY <1>1, <1>2
<1>4. ASSUME NEW m \in DOMAIN b
      PROVE  Len(a) + m \in DOMAIN (a \o b) /\ (a \o b)[Len(a) + m] = b[m]
  <2>1. /\ Len(a) + m \in 1 .. Len(a) + Len(b) /\ ~(Len(a) + m <= Len(a))
        /\ (Len(a) + m) - Len(a) = m
    BY ONLY <1>2, m \in DOMAIN b
  <2> QED BY ONLY <1>1, <1>2, <2>1
<1>5. ASSUME NEW m \in DOMAIN (a \o b) PROVE (a \o b)[m] \in Elements(a) \cup Elements(b)
  <2>1. CASE m <= Len(a)
    <3>1. m \in DOMAIN a /\ (a \o b)[m] = a[m]
      BY <1>1, <1>2, <1>5, <2>1
    <3> QED BY <3>1 DEF Elements
  <2>2. CASE ~(m <= Len(a))
    <3>1. m - Len(a) \in DOMAIN b /\ (a \o b)[m] = b[m - Len(a)]
      BY <1>1, <1>2, <1>5, <2>2
    <3> QED BY <3>1 DEF Elements
  <2> QED BY <2>1, <2>2
<1>6. Elements(a \o b) \subseteq Elements(a) \cup Elements(b)
  BY <1>5 DEF Elements
<1>7. Elements(a) \cup Elements(b) \subseteq Elements(a \o b)
  BY <1>3, <1>4 DEF Elements
<1>8. Elements(a) \subseteq Parts
  <2>1. \A m \in DOMAIN a : a[m] \in Parts
    OBVIOUS
  <2> QED BY <2>1 DEF Elements
<1> QED BY <1>3, <1>6, <1>7, <1>8

LEMMA EmptyRows == <<>> \in Seq(Parts) /\ Elements(<<>>) = {}
BY DEF Elements

LEMMA PrefixFacts ==
    ASSUME cur \in Datagrams, NEW n \in 0 .. Len(Policies[cur])
    PROVE  /\ Prefix(n) \in Seq(Parts) /\ Len(Prefix(n)) = n
           /\ \A k \in 1 .. n : Prefix(n)[k] = <<cur, k>>
<1>1. Policies[cur] \in Seq(BOOLEAN)
  BY DatagramAssumption
<1>2. n \in Nat /\ \A k \in 1 .. n : k \in DOMAIN Policies[cur] /\ k \in Nat
  BY <1>1
<1>3. \A k \in 1 .. n : <<cur, k>> \in Parts
  BY <1>2 DEF Parts
<1> QED BY <1>2, <1>3 DEF Prefix

\* Distinct datagrams have one position each.
LEMMA PositionOf ==
    ASSUME InboxInOrder, NEW k \in DOMAIN sent
    PROVE  Position(sent[k]) = k
BY DEF InboxInOrder, Position

LEMMA TypeFacts ==
    ASSUME DaemonInv
    PROVE  /\ TypeOK /\ InboxInOrder
           /\ Len(sent) \in Nat /\ Len(inbox) \in Nat /\ Taken \in Nat /\ Taken <= Len(sent)
           /\ DOMAIN sent = 1 .. Len(sent) /\ DOMAIN inbox = 1 .. Len(inbox)
           /\ \A k \in 1 .. Taken : k \in DOMAIN sent /\ sent[k] \in Datagrams
           /\ \A i \in Index : /\ saved[i] \in Seq(Parts) /\ pending[i] \in Seq(Parts)
                               /\ full[i] \in Nat /\ Counted(i) \in Seq(Parts)
<1>1. TypeOK /\ InboxInOrder
  BY DEF DaemonInv
<1>2. sent \in Seq(Datagrams) /\ inbox \in Seq(Datagrams) /\ Len(inbox) <= Len(sent)
  BY <1>1 DEF TypeOK, InboxInOrder
<1>3. \A i \in Index : /\ saved[i] \in Seq(Parts) /\ pending[i] \in Seq(Parts)
                       /\ full[i] \in Nat /\ Counted(i) \in Seq(Parts)
  BY <1>1 DEF TypeOK, Counted
<1>4. /\ Len(sent) \in Nat /\ Len(inbox) \in Nat /\ Taken \in Nat /\ Taken <= Len(sent)
      /\ DOMAIN sent = 1 .. Len(sent) /\ DOMAIN inbox = 1 .. Len(inbox)
  BY <1>2 DEF Taken
<1>5. \A k \in 1 .. Taken : k \in DOMAIN sent /\ sent[k] \in Datagrams
  BY <1>2, <1>4
<1> QED BY <1>1, <1>3, <1>4, <1>5

-----------------------------------------------------------------------------
(* What becomes of the counts.                                             *)

\* Nothing more is counted; the socket is as it was, or closed.
LEMMA CountsShrink ==
    ASSUME DaemonInv, sent' = sent, inbox' \in {inbox, <<>>},
           pc' = "store" => pc = "store" /\ inbox' = inbox /\ at' \in Index /\ at' >= at,
           \A i \in Index : \A m \in DOMAIN Counted(i)' :
               m \in DOMAIN Counted(i) /\ Counted(i)'[m] = Counted(i)[m]
    PROVE  InboxInOrder' /\ CountedWasTaken' /\ InOrderOnce'
<1>1. /\ TypeOK /\ InboxInOrder /\ CountedWasTaken /\ InOrderOnce
      /\ Len(sent) \in Nat /\ Len(inbox) \in Nat /\ Taken <= Len(sent) /\ Taken \in Nat
  BY TypeFacts DEF DaemonInv
<1>2. Len(inbox') \in Nat /\ Len(inbox') <= Len(sent) /\ Taken' \in Nat /\ Taken <= Taken'
  BY <1>1 DEF Taken
<1>3. InboxInOrder'
  BY <1>1, <1>2 DEF InboxInOrder, Taken
<1>4. CountedWasTaken'
  <2> SUFFICES ASSUME NEW i \in Index, NEW m \in DOMAIN Counted(i)'
               PROVE  \E k \in 1 .. Taken' : /\ Counted(i)'[m][1] = sent[k]
                                             /\ pc' = "store" /\ i >= at' => k < Taken'
    BY DEF CountedWasTaken
  <2>1. PICK k \in 1 .. Taken : /\ Counted(i)[m][1] = sent[k]
                                /\ pc = "store" /\ i >= at => k < Taken
    BY <1>1 DEF CountedWasTaken
  <2>2. k \in 1 .. Taken' /\ Counted(i)'[m][1] = sent[k]
    BY <1>1, <1>2, <2>1
  <2>3. ASSUME pc' = "store", i >= at' PROVE k < Taken'
    <3>1. i >= at
      BY <1>1, <2>3, IndexFacts DEF TypeOK
    <3> QED BY <1>1, <1>2, <2>1, <2>3, <3>1
  <2> QED BY <2>2, <2>3
<1>5. \A d : Position(d)' = Position(d)
  BY DEF Position
<1>6. InOrderOnce'
  <2> SUFFICES ASSUME NEW i \in Index, NEW m \in DOMAIN Counted(i)',
                      NEW l \in DOMAIN Counted(i)', m < l
               PROVE  \/ Position(Counted(i)'[m][1]) < Position(Counted(i)'[l][1])
                      \/ /\ Counted(i)'[m][1] = Counted(i)'[l][1]
                         /\ Counted(i)'[m][2] < Counted(i)'[l][2]
    BY <1>5 DEF InOrderOnce
  <2>1. /\ m \in DOMAIN Counted(i) /\ Counted(i)'[m] = Counted(i)[m]
        /\ l \in DOMAIN Counted(i) /\ Counted(i)'[l] = Counted(i)[l]
    OBVIOUS
  <2> QED BY <1>1, <2>1 DEF InOrderOnce
<1> QED BY <1>3, <1>4, <1>6

LEMMA CountsKept ==
    ASSUME DaemonInv, sent' = sent, inbox' \in {inbox, <<>>}, pc' # "store",
           \A i \in Index : Counted(i)' = Counted(i)
    PROVE  InboxInOrder' /\ CountedWasTaken' /\ InOrderOnce'
BY CountsShrink

\* Nothing is written.
LEMMA NothingWritten ==
    ASSUME UNCHANGED <<pending, saved, lost>>
    PROVE  /\ \A i : Counted(i)' = Counted(i)
           /\ \A i, x : Accounted(i, x)' <=> Accounted(i, x)
<1>1. \A i : Counted(i)' = Counted(i)
  BY DEF Counted
<1> QED BY <1>1 DEF Accounted

\* A storage counts policies 1 to n of the current datagram.
LEMMA CountsGrow ==
    ASSUME DaemonInv, pc = "store", NEW n \in 0 .. Len(Policies[cur]),
           sent' = sent, inbox' = inbox,
           pc' = "store" => at' = at + 1,
           \A i \in Index : Counted(i)' = IF i = at THEN Counted(i) \o Prefix(n)
                                          ELSE Counted(i)
    PROVE  InboxInOrder' /\ CountedWasTaken' /\ InOrderOnce'
<1>1. /\ TypeOK /\ InboxInOrder /\ CountedWasTaken /\ InOrderOnce
      /\ Taken \in Nat /\ Taken >= 1 /\ cur = sent[Taken] /\ cur \in Datagrams
      /\ at \in Index
      /\ \A k \in 1 .. Taken : k \in DOMAIN sent
      /\ \A i \in Index : Counted(i) \in Seq(Parts)
  BY TypeFacts DEF DaemonInv, CurrentIsLast, TypeOK
<1>2. Taken' = Taken
  BY DEF Taken
<1>3. InboxInOrder'
  BY <1>1, <1>2 DEF InboxInOrder
<1> DEFINE c == Counted(at)
           p == Prefix(n)
<1>4. /\ c \in Seq(Parts) /\ p \in Seq(Parts) /\ Len(p) = n /\ n \in Nat
      /\ \A k \in 1 .. n : p[k] = <<cur, k>>
  <2>1. n \in Nat
    BY <1>1, DatagramAssumption
  <2> QED BY <1>1, <2>1, PrefixFacts
<1>5. /\ Len(c) \in Nat /\ DOMAIN c = 1 .. Len(c)
      /\ DOMAIN (c \o p) = 1 .. Len(c) + n
      /\ \A m \in 1 .. Len(c) : (c \o p)[m] = c[m]
      /\ \A m \in Len(c) + 1 .. Len(c) + n : (c \o p)[m] = <<cur, m - Len(c)>>
  <2> HIDE DEF c, p
  <2>1. /\ c \o p \in Seq(Parts) /\ Len(c \o p) = Len(c) + n /\ Len(c) \in Nat
        /\ \A m \in 1 .. Len(c) + n : (c \o p)[m] = IF m <= Len(c) THEN c[m] ELSE p[m - Len(c)]
    <3>1. c \in Seq(Parts) /\ p \in Seq(Parts) /\ Len(p) = n
      BY <1>4
    <3>2. /\ c \o p \in Seq(Parts) /\ Len(c \o p) = Len(c) + Len(p)
          /\ \A m \in 1 .. Len(c) + Len(p) :
                 (c \o p)[m] = IF m <= Len(c) THEN c[m] ELSE p[m - Len(c)]
      BY ONLY <3>1, ConcatProperties
    <3>3. Len(c) \in Nat
      BY ONLY <3>1
    <3> QED BY ONLY <3>1, <3>2, <3>3
  <2>2. ASSUME NEW m \in Len(c) + 1 .. Len(c) + n
        PROVE  (c \o p)[m] = <<cur, m - Len(c)>>
    <3>1. m - Len(c) \in 1 .. n /\ ~(m <= Len(c)) /\ m \in 1 .. Len(c) + n
      BY <1>4, <2>1
    <3> QED BY <1>4, <2>1, <3>1
  <2>3. DOMAIN (c \o p) = 1 .. Len(c) + n
    BY ONLY <2>1
  <2>4. DOMAIN c = 1 .. Len(c)
    BY ONLY <1>4
  <2>5. \A m \in 1 .. Len(c) : (c \o p)[m] = c[m]
    BY <1>4, <2>1
  <2> QED BY <2>1, <2>2, <2>3, <2>4, <2>5
<1>6. \A m \in 1 .. Len(c) : \E k \in 1 .. Taken - 1 : c[m][1] = sent[k]
  <2>1. at >= at
    BY <1>1, IndexFacts
  <2>2. ASSUME NEW m \in 1 .. Len(c) PROVE \E k \in 1 .. Taken - 1 : c[m][1] = sent[k]
    <3>1. PICK k \in 1 .. Taken : c[m][1] = sent[k] /\ k < Taken
      BY <1>1, <1>5, <2>1 DEF CountedWasTaken
    <3> QED BY <1>1, <3>1
  <2> QED BY <2>2
<1>7. CountedWasTaken'
  <2> SUFFICES ASSUME NEW i \in Index, NEW m \in DOMAIN Counted(i)'
               PROVE  \E k \in 1 .. Taken : /\ Counted(i)'[m][1] = sent[k]
                                            /\ pc' = "store" /\ i >= at' => k < Taken
    BY <1>2 DEF CountedWasTaken
  <2>1. CASE i # at
    <3>1. Counted(i)' = Counted(i) /\ (pc' = "store" /\ i >= at' => i >= at)
      BY <1>1, <2>1, IndexFacts
    <3> QED BY <1>1, <3>1 DEF CountedWasTaken
  <2>2. CASE i = at
    <3>1. Counted(i)' = c \o p /\ ~(pc' = "store" /\ i >= at')
      BY <1>1, <2>2, IndexFacts
    <3> HIDE DEF c, p
    <3>2. \E k \in 1 .. Taken : (c \o p)[m][1] = sent[k]
      <4>1. m \in 1 .. Len(c) + n
        BY <1>5, <3>1
      <4>2. CASE m \in 1 .. Len(c)
        <5>1. PICK k \in 1 .. Taken - 1 : c[m][1] = sent[k]
          BY <1>6, <4>2
        <5>2. (c \o p)[m] = c[m] /\ k \in 1 .. Taken
          BY <1>1, <1>5, <4>2
        <5> QED BY <5>1, <5>2
      <4>3. CASE m \in Len(c) + 1 .. Len(c) + n
        <5>1. (c \o p)[m] = <<cur, m - Len(c)>>
          BY <1>5, <4>3
        <5>3. Taken \in 1 .. Taken
          BY <1>1
        <5>2. (c \o p)[m][1] = cur /\ cur = sent[Taken]
          BY <1>1, <5>1
        <5> QED BY <5>2, <5>3
      <4> QED BY <1>4, <1>5, <4>1, <4>2, <4>3
    <3> QED BY <3>1, <3>2
  <2> QED BY <2>1, <2>2
<1>8. \A d : Position(d)' = Position(d)
  BY DEF Position
<1>9. Position(cur) = Taken /\ \A k \in 1 .. Taken - 1 : Position(sent[k]) = k
  BY <1>1, PositionOf
<1>10. InOrderOnce'
  <2> SUFFICES ASSUME NEW i \in Index, NEW m \in DOMAIN Counted(i)',
                      NEW l \in DOMAIN Counted(i)', m < l
               PROVE  \/ Position(Counted(i)'[m][1]) < Position(Counted(i)'[l][1])
                      \/ /\ Counted(i)'[m][1] = Counted(i)'[l][1]
                         /\ Counted(i)'[m][2] < Counted(i)'[l][2]
    BY <1>8 DEF InOrderOnce
  <2>1. CASE i # at
    BY <1>1, <2>1 DEF InOrderOnce
  <2>2. CASE i = at
    <3>1. Counted(i)' = c \o p
      BY <2>2
    <3>2. \A x, y \in 1 .. Len(c) : x < y =>
              \/ Position(c[x][1]) < Position(c[y][1])
              \/ c[x][1] = c[y][1] /\ c[x][2] < c[y][2]
      BY <1>1, <1>5 DEF InOrderOnce
    <3> HIDE DEF c, p
    <3>3. m \in 1 .. Len(c) + n /\ l \in 1 .. Len(c) + n
      BY <1>5, <3>1
    <3>4. CASE l \in 1 .. Len(c)
      <4>1. m \in 1 .. Len(c)
        BY <1>4, <1>5, <3>3, <3>4
      <4> QED BY <1>5, <3>1, <3>2, <3>4, <4>1
    <3>5. CASE m \in 1 .. Len(c) /\ l \in Len(c) + 1 .. Len(c) + n
      <4>1. PICK k \in 1 .. Taken - 1 : c[m][1] = sent[k]
        BY <1>6, <3>5
      <4>2. Position(c[m][1]) = k /\ (c \o p)[l][1] = cur
        <5>1. (c \o p)[l] = <<cur, l - Len(c)>>
          BY <1>5, <3>5
        <5>2. (c \o p)[l][1] = cur
          BY <5>1
        <5> QED BY <1>9, <4>1, <5>2
      <4>3. Position(c[m][1]) < Position(cur)
        BY <1>1, <1>9, <4>2
      <4> QED BY <1>5, <3>1, <3>5, <4>2, <4>3
    <3>6. CASE m \in Len(c) + 1 .. Len(c) + n /\ l \in Len(c) + 1 .. Len(c) + n
      <4>1. (c \o p)[m] = <<cur, m - Len(c)>> /\ (c \o p)[l] = <<cur, l - Len(c)>>
        BY <1>5, <3>6
      <4>2. m - Len(c) < l - Len(c)
        BY <1>4, <1>5, <3>6
      <4> QED BY <3>1, <4>1, <4>2
    <3> QED BY <1>4, <1>5, <3>3, <3>4, <3>5, <3>6
  <2> QED BY <2>1, <2>2
<1> QED BY <1>3, <1>7, <1>10

\* The first storage is not at work.
LEMMA FirstKept ==
    ASSUME DaemonInv, sent' = sent, inbox' = inbox, hit' = hit,
           \A x : Accounted(1, x) => Accounted(1, x)',
           pc \notin Ended \cup {"shutdown"},
           (pc = "store" /\ at = 1) => (pc' = "store" /\ at' = 1)
    PROVE  FirstIsComplete'
<1>1. FirstIsComplete /\ Taken' = Taken
  BY DEF DaemonInv, Taken
<1>2. \A d : CountsAllOf(1, d) => CountsAllOf(1, d)'
  BY DEF CountsAllOf
<1> QED BY <1>1, <1>2 DEF FirstIsComplete

\* The first storage has counted what is usable of the current datagram, or
\* met a database error.
LEMMA FirstGrows ==
    ASSUME DaemonInv, pc = "store", at = 1, NEW n,
           \A x : Accounted(1, x) => Accounted(1, x)',
           \A d : d = cur => \A k \in 1 .. n : Accounted(1, <<d, k>>)',
           sent' = sent, inbox' = inbox, hit \subseteq hit',
           n = Usable(Policies[cur]) \/ cur \in hit'
    PROVE  FirstIsComplete'
<1>1. FirstIsComplete /\ Taken' = Taken /\ Taken \in Nat /\ cur = sent[Taken]
  BY TypeFacts DEF DaemonInv, CurrentIsLast, Taken
<1>2. \A d : CountsAllOf(1, d) => CountsAllOf(1, d)'
  BY DEF CountsAllOf
<1>3. \A d : d = cur /\ n = Usable(Policies[d]) => CountsAllOf(1, d)'
  BY DEF CountsAllOf
<1>4. \A k \in 1 .. Taken : \/ sent[k] \in Garbage \cup hit \/ k = Taken
                            \/ Storages[1] = "sqlite" => CountsAllOf(1, sent[k])
  BY <1>1 DEF FirstIsComplete, Ended
<1>5. ASSUME Storages[1] = "sqlite", NEW k \in 1 .. Taken, NEW d, d = sent[k]
      PROVE  d \in Garbage \cup hit' \/ CountsAllOf(1, d)'
  <2>1. CASE k = Taken
    BY <1>1, <1>3, <1>5, <2>1
  <2>2. CASE k # Taken
    BY <1>2, <1>4, <1>5, <2>2
  <2> QED BY <2>1, <2>2
<1> QED BY <1>1, <1>5 DEF FirstIsComplete

-----------------------------------------------------------------------------
(* The steps.                                                              *)

LEMMA InitInv == Init => DaemonInv
<1> SUFFICES ASSUME Init PROVE DaemonInv
  OBVIOUS
<1>1. TypeOK
  BY IndexFacts DEF Init, TypeOK, Ended
<1>2. InboxInOrder /\ KeysReady /\ CurrentIsLast /\ FlushedSoFar
  BY DEF Init, InboxInOrder, KeysReady, CurrentIsLast, FlushedSoFar
<1>3. \A i \in Index : Counted(i) = <<>>
  BY DEF Init, Counted
<1>4. CountedWasTaken /\ InOrderOnce
  BY <1>3 DEF CountedWasTaken, InOrderOnce
<1>5. Taken = 0
  BY DEF Init, Taken
<1>6. FirstIsComplete
  BY <1>5 DEF FirstIsComplete
<1> QED BY <1>1, <1>2, <1>4, <1>6 DEF DaemonInv

LEMMA SendStep == ASSUME DaemonInv, NEW d \in Datagrams, Send(d) PROVE DaemonInv'
<1>1. /\ TypeOK /\ InboxInOrder /\ KeysReady /\ CurrentIsLast /\ CountedWasTaken
      /\ InOrderOnce /\ FirstIsComplete /\ FlushedSoFar
  BY DEF DaemonInv
<1>2. /\ pc \notin Ended \cup {"shutdown"} /\ \A i \in DOMAIN sent : sent[i] # d
      /\ inbox' = Append(inbox, d) /\ sent' = Append(sent, d)
      /\ UNCHANGED <<pc, signals, keys, haddata, cur, fields, hit, at, pending, saved,
                     full, lost, failed, errors, exitcode>>
  BY DEF Send, datagram, storage
<1>3. /\ sent \in Seq(Datagrams) /\ inbox \in Seq(Datagrams) /\ Len(inbox) <= Len(sent)
      /\ Taken \in Nat /\ Taken <= Len(sent)
  BY <1>1, TypeFacts DEF TypeOK, InboxInOrder
<1>4. /\ sent' \in Seq(Datagrams) /\ Len(sent') = Len(sent) + 1
      /\ DOMAIN sent = 1 .. Len(sent) /\ DOMAIN sent' = 1 .. Len(sent) + 1
      /\ sent'[Len(sent) + 1] = d /\ \A k \in 1 .. Len(sent) : sent'[k] = sent[k]
      /\ Len(sent) \in Nat
  BY <1>2, <1>3
<1>5. /\ inbox' \in Seq(Datagrams) /\ Len(inbox') = Len(inbox) + 1 /\ inbox' # <<>>
      /\ DOMAIN inbox = 1 .. Len(inbox) /\ DOMAIN inbox' = 1 .. Len(inbox) + 1
      /\ inbox'[Len(inbox) + 1] = d /\ \A k \in 1 .. Len(inbox) : inbox'[k] = inbox[k]
      /\ Len(inbox) \in Nat
  BY <1>2, <1>3
<1>6. Taken' = Taken /\ \A k \in 1 .. Taken : sent'[k] = sent[k] /\ k \in DOMAIN sent
  BY <1>3, <1>4, <1>5 DEF Taken
<1>7. TypeOK'
  BY <1>1, <1>2, <1>4, <1>5 DEF TypeOK
<1>8. InboxInOrder'
  <2>1. \A i, j \in DOMAIN sent' : sent'[i] = sent'[j] => i = j
    BY <1>1, <1>2, <1>4 DEF InboxInOrder
  <2>2. ASSUME NEW i \in 1 .. Len(inbox) + 1 PROVE inbox'[i] = sent'[Taken + i]
    <3>1. CASE i = Len(inbox) + 1
      BY <1>4, <1>5, <3>1 DEF Taken
    <3>2. CASE i \in 1 .. Len(inbox)
      <4>1. Taken + i \in 1 .. Len(sent)
        BY <1>3, <1>4, <1>5, <3>2 DEF Taken
      <4> QED BY <1>1, <1>4, <1>5, <3>2, <4>1 DEF InboxInOrder
    <3> QED BY <1>5, <3>1, <3>2
  <2>3. Len(inbox') <= Len(sent')
    BY <1>3, <1>4, <1>5
  <2> QED BY <1>5, <1>6, <2>1, <2>2, <2>3 DEF InboxInOrder
<1>9. KeysReady'
  BY <1>1, <1>2, <1>5 DEF KeysReady
<1>10. CurrentIsLast'
  BY <1>1, <1>2, <1>3, <1>6 DEF CurrentIsLast
<1>11. /\ \A i : Counted(i)' = Counted(i)
       /\ \A i, x : Accounted(i, x)' <=> Accounted(i, x)
  BY <1>2, NothingWritten
<1>12. CountedWasTaken'
  BY <1>1, <1>2, <1>6, <1>11 DEF CountedWasTaken
<1>13. InOrderOnce'
  <2>1. ASSUME NEW k \in 1 .. Taken, NEW x, x = sent[k] PROVE Position(x)' = Position(x)
    <3>1. Position(x) = k
      BY <1>1, <1>6, <2>1, PositionOf
    <3>2. k \in DOMAIN sent' /\ sent'[k] = x
      BY <1>3, <1>4, <1>6, <2>1
    <3>3. (CHOOSE i \in DOMAIN sent' : sent'[i] = x) = k
      BY <1>8, <3>2 DEF InboxInOrder
    <3> QED BY <3>1, <3>2, <3>3 DEF Position
  <2>2. \A i \in Index : \A m \in DOMAIN Counted(i) :
            \E k \in 1 .. Taken : Counted(i)[m][1] = sent[k]
    BY <1>1 DEF CountedWasTaken
  <2>3. ASSUME NEW i \in Index, NEW m \in DOMAIN Counted(i), NEW x, x = Counted(i)[m][1]
        PROVE  Position(x)' = Position(x)
    BY <2>1, <2>2, <2>3
  <2> QED BY <1>1, <1>11, <2>3 DEF InOrderOnce
<1>14. FirstIsComplete'
  BY <1>1, <1>2, <1>6, <1>11 DEF FirstIsComplete, CountsAllOf
<1>15. FlushedSoFar'
  BY <1>1, <1>2 DEF FlushedSoFar
<1> QED BY <1>7, <1>8, <1>9, <1>10, <1>12, <1>13, <1>14, <1>15 DEF DaemonInv

LEMMA TailFacts ==
    ASSUME NEW S, NEW q \in Seq(S), q # <<>>
    PROVE  /\ Len(q) \in Nat /\ Len(q) >= 1 /\ DOMAIN q = 1 .. Len(q)
           /\ Head(q) = q[1] /\ Head(q) \in S
           /\ Tail(q) \in Seq(S) /\ Len(Tail(q)) = Len(q) - 1
           /\ DOMAIN Tail(q) = 1 .. Len(q) - 1
           /\ \A i \in 1 .. Len(q) - 1 : Tail(q)[i] = q[i + 1]
OBVIOUS

LEMMA SignalStep ==
    ASSUME DaemonInv, NEW s \in {"USR2", "TERM"}, Signal(s) PROVE DaemonInv'
<1>1. /\ TypeOK /\ InboxInOrder /\ KeysReady /\ CurrentIsLast /\ CountedWasTaken
      /\ InOrderOnce /\ FirstIsComplete /\ FlushedSoFar
  BY DEF DaemonInv
<1>2. /\ signals' = Append(signals, s)
      /\ UNCHANGED <<pc, inbox, keys, haddata, cur, fields, hit, at, pending, saved,
                     full, lost, failed, errors, exitcode, sent>>
  BY DEF Signal, datagram, storage
<1>3. signals' \in Seq({"USR2", "TERM"}) /\ signals' # <<>>
  <2>1. signals \in Seq({"USR2", "TERM"})
    BY <1>1 DEF TypeOK
  <2>2. signals' \in Seq({"USR2", "TERM"}) /\ Len(signals') = Len(signals) + 1
    BY ONLY <1>2, <2>1
  <2> QED BY ONLY <2>1, <2>2
<1>4. TypeOK'
  BY <1>1, <1>2, <1>3 DEF TypeOK
<1>5. /\ Taken' = Taken /\ \A i : Counted(i)' = Counted(i)
      /\ \A i, x : Accounted(i, x)' <=> Accounted(i, x)
  BY <1>2, NothingWritten DEF Taken
<1>6. InboxInOrder'
  BY <1>1, <1>2, <1>5 DEF InboxInOrder
<1>7. KeysReady'
  BY <1>1, <1>2, <1>3 DEF KeysReady
<1>8. CurrentIsLast'
  BY <1>1, <1>2, <1>5 DEF CurrentIsLast
<1>9. CountedWasTaken'
  BY <1>1, <1>2, <1>5 DEF CountedWasTaken
<1>10. \A d : Position(d)' = Position(d)
  BY <1>2 DEF Position
<1>11. InOrderOnce'
  BY <1>1, <1>5, <1>10 DEF InOrderOnce
<1>12. FirstIsComplete'
  BY <1>1, <1>2, <1>5 DEF FirstIsComplete, CountsAllOf
<1>13. FlushedSoFar'
  BY <1>1, <1>2 DEF FlushedSoFar
<1> QED BY <1>4, <1>6, <1>7, <1>8, <1>9, <1>11, <1>12, <1>13 DEF DaemonInv

\* Select, KeysDone, Dump, and a storage that only looks at the datagram
LEMMA SelectStep == ASSUME DaemonInv, Select PROVE DaemonInv'
<1>1. /\ pc = "select" /\ pc' = "keys"
      /\ UNCHANGED <<inbox, signals, sent, cur, fields, hit, at, pending, saved, full, lost,
                     failed, errors, exitcode>>
      /\ keys' \in [1 .. Cardinality(Ready) -> Ready]
      /\ \A i, j \in DOMAIN keys' : keys'[i] = keys'[j] => i = j
  BY DEF Select, sources, datagram, storage
<1>2. TypeOK /\ Ready \subseteq {"interrupt", "socket"}
  BY DEF DaemonInv, Ready
<1>3. Cardinality(Ready) \in Nat
  <2>1. IsFiniteSet({"interrupt"} \cup {"socket"})
    BY FS_Singleton, FS_AddElement
  <2>2. Ready \in SUBSET ({"interrupt"} \cup {"socket"})
    BY <1>2
  <2>3. IsFiniteSet(Ready)
    BY <2>1, <2>2, FS_Subset
  <2> QED BY <2>3, FS_CardinalityType
<1>4. keys' \in Seq({"interrupt", "socket"})
  <2> DEFINE n == Cardinality(Ready)
  <2>1. keys' \in [1 .. n -> {"interrupt", "socket"}]
    BY <1>1, <1>2
  <2> HIDE DEF n
  <2>2. n \in Nat
    BY <1>3 DEF n
  <2> QED BY ONLY <2>1, <2>2
<1>5. TypeOK'
  BY <1>1, <1>2, <1>4 DEF TypeOK
<1>6. KeysReady'
  BY <1>1 DEF KeysReady, Ready
<1>7. /\ \A i : Counted(i)' = Counted(i)
      /\ \A i, x : Accounted(i, x)' <=> Accounted(i, x)
  BY <1>1, NothingWritten
<1>8. InboxInOrder' /\ CountedWasTaken' /\ InOrderOnce'
  BY <1>1, <1>7, CountsKept
<1>9. FirstIsComplete'
  BY <1>1, <1>7, FirstKept DEF Ended
<1>10. CurrentIsLast' /\ FlushedSoFar'
  BY <1>1 DEF CurrentIsLast, FlushedSoFar
<1> QED BY <1>5, <1>6, <1>8, <1>9, <1>10 DEF DaemonInv

LEMMA KeysDoneStep == ASSUME DaemonInv, KeysDone PROVE DaemonInv'
<1>1. /\ pc = "keys" /\ pc' \in {"select", "timeout"} /\ at' = 1
      /\ UNCHANGED <<inbox, signals, sent, keys, haddata, cur, fields, hit, pending,
                     saved, full, lost, failed, errors, exitcode>>
  BY DEF KeysDone, sources, datagram, storage
<1>2. TypeOK'
  BY <1>1, IndexFacts DEF DaemonInv, TypeOK
<1>3. /\ \A i : Counted(i)' = Counted(i)
      /\ \A i, x : Accounted(i, x)' <=> Accounted(i, x)
  BY <1>1, NothingWritten
<1>4. InboxInOrder' /\ CountedWasTaken' /\ InOrderOnce'
  BY <1>1, <1>3, CountsKept
<1>5. FirstIsComplete'
  BY <1>1, <1>3, FirstKept DEF Ended
<1>6. KeysReady' /\ CurrentIsLast' /\ FlushedSoFar'
  BY <1>1 DEF KeysReady, CurrentIsLast, FlushedSoFar
<1> QED BY <1>2, <1>4, <1>5, <1>6 DEF DaemonInv

LEMMA DumpStep == ASSUME DaemonInv, Dump PROVE DaemonInv'
<1>1. /\ pc = "dump" /\ pc' \in {"select", "died"} /\ exitcode' \in {exitcode, 8}
      /\ UNCHANGED <<inbox, signals, sent, keys, haddata, cur, fields, hit, at, pending,
                     saved, full, lost, failed, errors>>
  BY DEF Dump, sources, datagram, storage
<1>2. TypeOK'
  BY <1>1 DEF DaemonInv, TypeOK, Ended
<1>3. /\ \A i : Counted(i)' = Counted(i)
      /\ \A i, x : Accounted(i, x)' <=> Accounted(i, x)
  BY <1>1, NothingWritten
<1>4. InboxInOrder' /\ CountedWasTaken' /\ InOrderOnce'
  BY <1>1, <1>3, CountsKept
<1>5. FirstIsComplete'
  BY <1>1, <1>3, FirstKept DEF Ended
<1>6. KeysReady' /\ CurrentIsLast' /\ FlushedSoFar'
  BY <1>1 DEF KeysReady, CurrentIsLast, FlushedSoFar
<1> QED BY <1>2, <1>4, <1>5, <1>6 DEF DaemonInv

LEMMA ReadSignalStep == ASSUME DaemonInv, ReadSignal PROVE DaemonInv'
<1>1. /\ pc = "keys" /\ keys # <<>> /\ Head(keys) = "interrupt"
      /\ signals' = Tail(signals) /\ keys' = Tail(keys) /\ at' = 1
      /\ \/ pc' = "rollover" /\ inbox' = inbox
         \/ pc' = "shutdown" /\ inbox' = <<>>
      /\ UNCHANGED <<sent, haddata, cur, fields, hit, pending, saved, full, lost, failed,
                     errors, exitcode>>
  BY DEF ReadSignal, datagram, storage
<1>2. TypeOK /\ KeysReady
  BY DEF DaemonInv
<1>3. /\ Len(keys) >= 1 /\ Len(keys) \in Nat /\ DOMAIN keys = 1 .. Len(keys)
      /\ keys[1] = "interrupt"
      /\ keys' \in Seq({"interrupt", "socket"})
      /\ DOMAIN keys' = 1 .. Len(keys) - 1
      /\ \A i \in 1 .. Len(keys) - 1 : keys'[i] = keys[i + 1]
  BY <1>1, <1>2, TailFacts DEF TypeOK
<1>4. signals # <<>>
  BY <1>1, <1>2, <1>3 DEF KeysReady
<1>5. signals' \in Seq({"USR2", "TERM"})
  BY <1>1, <1>2, <1>4, TailFacts DEF TypeOK
<1>6. inbox' \in Seq(Datagrams) /\ inbox' \in {inbox, <<>>}
  <2>1. inbox \in Seq(Datagrams) /\ <<>> \in Seq(Datagrams)
    BY <1>2 DEF TypeOK
  <2> QED BY <1>1, <2>1
<1>7. TypeOK'
  BY <1>1, <1>2, <1>3, <1>5, <1>6, IndexFacts DEF TypeOK
<1>8. KeysReady'
  <2> SUFFICES ASSUME pc' = "rollover" PROVE KeysReady'
    BY <1>1 DEF KeysReady
  <2>1. \A i \in 1 .. Len(keys) - 1 :
            i + 1 \in DOMAIN keys /\ i + 1 # 1 /\ keys'[i] = keys[i + 1]
    BY <1>3
  <2>2. \A i, j \in DOMAIN keys' : keys'[i] = keys'[j] => i = j
    BY <1>1, <1>2, <1>3, <2>1 DEF KeysReady
  <2>3. \A i \in DOMAIN keys' : keys'[i] = "socket" /\ inbox # <<>>
    <3> SUFFICES ASSUME NEW i \in 1 .. Len(keys) - 1
                 PROVE  keys'[i] = "socket" /\ inbox # <<>>
      BY <1>3
    <3> DEFINE k == keys[i + 1]
    <3>1. i + 1 \in DOMAIN keys /\ 1 \in DOMAIN keys /\ i + 1 # 1 /\ keys'[i] = k
      BY <1>3, <2>1
    <3>2. k \in {"interrupt", "socket"}
      BY <1>2, <3>1 DEF TypeOK
    <3>3. k # "interrupt"
      BY <1>1, <1>2, <1>3, <3>1 DEF KeysReady
    <3>4. k = "socket" => inbox # <<>>
      BY <1>1, <1>2, <3>1 DEF KeysReady
    <3> QED BY <3>1, <3>2, <3>3, <3>4
  <2> QED BY <1>1, <2>2, <2>3 DEF KeysReady
<1>9. /\ \A i : Counted(i)' = Counted(i)
      /\ \A i, x : Accounted(i, x)' <=> Accounted(i, x)
  BY <1>1, NothingWritten
<1>10. InboxInOrder' /\ CountedWasTaken' /\ InOrderOnce'
  BY <1>1, <1>6, <1>9, CountsKept
<1>11. FirstIsComplete'
  <2>1. CASE pc' = "rollover"
    BY <1>1, <1>9, <2>1, FirstKept DEF Ended
  <2>2. CASE pc' = "shutdown"
    BY <2>2 DEF FirstIsComplete
  <2> QED BY <1>1, <2>1, <2>2
<1>12. CurrentIsLast'
  BY <1>1 DEF CurrentIsLast
<1>13. FlushedSoFar'
  BY <1>1, IndexFacts DEF FlushedSoFar
<1> QED BY <1>7, <1>8, <1>10, <1>11, <1>12, <1>13 DEF DaemonInv

LEMMA ReadDatagramStep == ASSUME DaemonInv, ReadDatagram PROVE DaemonInv'
<1>1. /\ pc = "keys" /\ keys # <<>> /\ Head(keys) = "socket"
      /\ cur' = Head(inbox) /\ fields' = Policies[cur'] /\ at' = 1
      /\ inbox' = Tail(inbox) /\ keys' = Tail(keys)
      /\ pc' = IF cur' \in Garbage THEN "dump" ELSE "store"
      /\ UNCHANGED <<signals, sent, hit, pending, saved, full, lost, failed, errors, exitcode>>
  BY DEF ReadDatagram, storage
<1>2. /\ TypeOK /\ InboxInOrder /\ KeysReady /\ CountedWasTaken /\ InOrderOnce
      /\ FirstIsComplete
      /\ Len(sent) \in Nat /\ Taken \in Nat /\ Taken <= Len(sent)
      /\ DOMAIN sent = 1 .. Len(sent)
  BY TypeFacts DEF DaemonInv
<1>3. /\ Len(keys) >= 1 /\ Len(keys) \in Nat /\ DOMAIN keys = 1 .. Len(keys)
      /\ keys[1] = "socket"
      /\ keys' \in Seq({"interrupt", "socket"})
      /\ DOMAIN keys' = 1 .. Len(keys) - 1
      /\ \A i \in 1 .. Len(keys) - 1 : keys'[i] = keys[i + 1]
  BY <1>1, <1>2, TailFacts DEF TypeOK
<1>4. inbox # <<>>
  BY <1>1, <1>2, <1>3 DEF KeysReady
<1>5. /\ Len(inbox) \in Nat /\ Len(inbox) >= 1 /\ DOMAIN inbox = 1 .. Len(inbox)
      /\ cur' = inbox[1] /\ cur' \in Datagrams
      /\ inbox' \in Seq(Datagrams) /\ Len(inbox') = Len(inbox) - 1
      /\ DOMAIN inbox' = 1 .. Len(inbox) - 1
      /\ \A i \in 1 .. Len(inbox) - 1 : inbox'[i] = inbox[i + 1]
  <2>1. inbox \in Seq(Datagrams)
    BY <1>2 DEF TypeOK
  <2> QED BY <1>1, <1>4, <2>1, TailFacts
<1>6. /\ Taken' = Taken + 1 /\ Taken + 1 <= Len(sent) /\ cur' = sent[Taken + 1]
  <2>1. inbox[1] = sent[Taken + 1]
    <3>1. 1 \in DOMAIN inbox
      BY <1>5
    <3> QED BY <1>2, <3>1 DEF InboxInOrder
  <2>2. Taken' = Taken + 1 /\ Taken + 1 <= Len(sent)
    BY <1>1, <1>2, <1>5 DEF Taken
  <2> QED BY <1>5, <2>1, <2>2
<1>7. TypeOK'
  BY <1>1, <1>2, <1>3, <1>5, IndexFacts DEF TypeOK
<1>8. InboxInOrder'
  <2>1. ASSUME NEW i \in 1 .. Len(inbox) - 1 PROVE inbox'[i] = sent[(Taken + 1) + i]
    <3>1. i + 1 \in 1 .. Len(inbox) /\ Taken + (i + 1) = (Taken + 1) + i
      BY <1>2, <1>5
    <3> QED BY <1>2, <1>5, <3>1 DEF InboxInOrder
  <2>2. Len(inbox') <= Len(sent)
    BY <1>2, <1>5 DEF InboxInOrder
  <2> QED BY <1>1, <1>2, <1>5, <1>6, <2>1, <2>2 DEF InboxInOrder
<1>9. KeysReady'
  <2>1. \A i \in 1 .. Len(keys) - 1 :
            i + 1 \in DOMAIN keys /\ i + 1 # 1 /\ keys'[i] = keys[i + 1]
    BY <1>3
  <2>2. \A i, j \in DOMAIN keys' : keys'[i] = keys'[j] => i = j
    BY <1>1, <1>2, <1>3, <2>1 DEF KeysReady
  <2>3. \A i \in DOMAIN keys' : keys'[i] # "socket" /\ signals # <<>>
    <3> SUFFICES ASSUME NEW i \in 1 .. Len(keys) - 1
                 PROVE  keys'[i] # "socket" /\ signals # <<>>
      BY <1>3
    <3> DEFINE k == keys[i + 1]
    <3>1. i + 1 \in DOMAIN keys /\ 1 \in DOMAIN keys /\ i + 1 # 1 /\ keys'[i] = k
      BY <1>3, <2>1
    <3>2. k # "socket"
      BY <1>1, <1>2, <1>3, <3>1 DEF KeysReady
    <3>3. k # "socket" => signals # <<>>
      BY <1>1, <1>2, <3>1 DEF KeysReady
    <3> QED BY <3>1, <3>2, <3>3
  <2> QED BY <1>1, <2>2, <2>3 DEF KeysReady
<1>10. CurrentIsLast'
  <2>1. Policies[cur'] \in Seq(BOOLEAN)
    BY <1>5, DatagramAssumption
  <2> QED BY <1>1, <1>2, <1>5, <1>6, <2>1 DEF CurrentIsLast
<1>11. /\ \A i : Counted(i)' = Counted(i)
      /\ \A i, x : Accounted(i, x)' <=> Accounted(i, x)
  BY <1>1, NothingWritten
<1>12. CountedWasTaken'
  <2>1. \A k \in 1 .. Taken : k \in 1 .. Taken' /\ k < Taken'
    BY <1>2, <1>6
  <2>2. \A i \in Index : \A m \in DOMAIN Counted(i) :
            \E k \in 1 .. Taken' : Counted(i)[m][1] = sent[k] /\ k < Taken'
    BY <1>2, <2>1 DEF CountedWasTaken
  <2> QED BY <1>1, <1>11, <2>2 DEF CountedWasTaken
<1>13. InOrderOnce'
  <2>1. \A d : Position(d)' = Position(d)
    BY <1>1 DEF Position
  <2> QED BY <1>2, <1>11, <2>1 DEF InOrderOnce
<1>14. FirstIsComplete'
  <2> SUFFICES ASSUME Storages[1] = "sqlite", NEW k \in 1 .. Taken', NEW d, d = sent[k]
               PROVE  \/ d \in Garbage \cup hit
                      \/ pc' = "store" /\ at' = 1 /\ k = Taken'
                      \/ CountsAllOf(1, d)'
    BY <1>1 DEF FirstIsComplete
  <2>1. CASE k = Taken + 1
    BY <1>1, <1>6, <2>1
  <2>2. CASE k # Taken + 1
    <3>1. k \in 1 .. Taken
      BY <1>2, <1>6, <2>2
    <3>2. d \in Garbage \cup hit \/ CountsAllOf(1, d)
      BY <1>1, <1>2, <3>1 DEF FirstIsComplete, Ended
    <3> QED BY <1>11, <3>2 DEF CountsAllOf
  <2> QED BY <2>1, <2>2
<1>15. FlushedSoFar'
  BY <1>1 DEF FlushedSoFar
<1> QED BY <1>7, <1>8, <1>9, <1>10, <1>12, <1>13, <1>14, <1>15 DEF DaemonInv

LEMMA StoreDummyStep == ASSUME DaemonInv, StoreDummy PROVE DaemonInv'
<1>1. /\ pc = "store" /\ Storages[at] = "dummy" /\ at' = at + 1
      /\ pc' = IF at < Len(Storages) THEN "store" ELSE "keys"
      /\ UNCHANGED <<inbox, signals, sent, keys, haddata, cur, fields, hit, pending,
                     saved, full, lost, failed, errors, exitcode>>
  BY DEF StoreDummy, NextStorage, sources, datagram, storage
<1>2. TypeOK /\ KeysReady /\ CurrentIsLast /\ at \in Index
  BY <1>1 DEF DaemonInv, TypeOK
<1>3. at \in Nat /\ at >= 1 /\ (pc' = "store" => at + 1 \in Index)
  BY <1>1, <1>2, IndexFacts
<1>4. TypeOK'
  BY <1>1, <1>2, <1>3 DEF TypeOK
<1>5. /\ Taken' = Taken /\ \A i : Counted(i)' = Counted(i)
      /\ \A i, x : Accounted(i, x)' <=> Accounted(i, x)
  BY <1>1, NothingWritten DEF Taken
<1>6. InboxInOrder' /\ CountedWasTaken' /\ InOrderOnce'
  <2>1. /\ cur \in Datagrams /\ 0 \in 0 .. Len(Policies[cur])
    BY <1>1, <1>2, DatagramAssumption DEF CurrentIsLast
  <2>2. Prefix(0) = <<>>
    BY DEF Prefix
  <2>3. \A i \in Index : Counted(i) \o <<>> = Counted(i)
    BY TypeFacts, ConcatEmptySeq
  <2> QED BY <1>1, <1>5, <2>1, <2>2, <2>3, CountsGrow
<1>7. FirstIsComplete'
  BY <1>1, <1>5, FirstKept DEF FirstIsComplete, Ended
<1>8. KeysReady'
  BY <1>1, <1>2 DEF KeysReady
<1>9. CurrentIsLast'
  BY <1>1, <1>2, <1>3, <1>5 DEF CurrentIsLast
<1>10. FlushedSoFar'
  BY <1>1 DEF FlushedSoFar
<1> QED BY <1>4, <1>6, <1>7, <1>8, <1>9, <1>10 DEF DaemonInv

-----------------------------------------------------------------------------
(* The steps of a storage that counts.                                     *)

LEMMA PoppedFits ==
    ASSUME NEW q \in Seq(BOOLEAN), NEW n \in Nat
    PROVE  Popped(q, n) \in Seq(BOOLEAN) /\ Len(Popped(q, n)) = Len(q)
<1> DEFINE m == Len(q)
<1>1. m \in Nat /\ DOMAIN q = 1 .. m
  OBVIOUS
<1>2. \A k \in 1 .. m : (q[k] /\ k > n) \in BOOLEAN
  OBVIOUS
<1> HIDE DEF m
<1>3. Popped(q, n) \in [1 .. m -> BOOLEAN]
  BY <1>1, <1>2 DEF Popped
<1>4. Popped(q, n) \in Seq(BOOLEAN) /\ Len(Popped(q, n)) = m
  BY ONLY <1>1, <1>3
<1> QED BY <1>4 DEF m

LEMMA StoringFacts ==
    ASSUME DaemonInv, pc = "store"
    PROVE  /\ at \in Index /\ at \in Nat /\ at >= 1
           /\ at < Len(Storages) => at + 1 \in Index
           /\ cur \in Datagrams /\ fields \in Seq(BOOLEAN) /\ Len(fields) \in Nat
           /\ Len(fields) = Len(Policies[cur])
           /\ at = 1 => fields = Policies[cur]
           /\ Usable(fields) \in 0 .. Len(fields)
           /\ \A n \in 0 .. Len(fields) : Prefix(n) \in Seq(Parts)
           /\ saved[at] \in Seq(Parts) /\ pending[at] \in Seq(Parts)
<1>1. TypeOK /\ CurrentIsLast
  BY DEF DaemonInv
<1>2. at \in Index /\ at \in Nat /\ at >= 1 /\ (at < Len(Storages) => at + 1 \in Index)
  BY <1>1, IndexFacts DEF TypeOK
<1>3. /\ cur \in Datagrams /\ fields \in Seq(BOOLEAN) /\ Len(fields) \in Nat
      /\ Len(fields) = Len(Policies[cur]) /\ (at = 1 => fields = Policies[cur])
  BY <1>1 DEF CurrentIsLast
<1>4. Usable(fields) \in 0 .. Len(fields)
  BY <1>3, UsableFits
<1>5. \A n \in 0 .. Len(fields) : Prefix(n) \in Seq(Parts)
  BY <1>3, PrefixFacts
<1>6. saved[at] \in Seq(Parts) /\ pending[at] \in Seq(Parts)
  BY <1>1, <1>2 DEF TypeOK
<1> QED BY <1>2, <1>3, <1>4, <1>5, <1>6

\* What becomes of rows q that storage "at" puts into its transaction: they wait,
\* they are committed with what waited before them, or all is rolled back.
Writes(q) ==
    /\ \/ pending' = [pending EXCEPT ![at] = @ \o q] /\ UNCHANGED <<saved, lost>>
       \/ /\ saved' = [saved EXCEPT ![at] = @ \o (pending[at] \o q)]
          /\ pending' = [pending EXCEPT ![at] = <<>>]
          /\ UNCHANGED lost
       \/ RollBack(q)
    /\ full' \in [Index -> Nat]

LEMMA WritesFacts ==
    ASSUME TypeOK, at \in Index, NEW q \in Seq(Parts), Writes(q)
    PROVE  /\ pending' \in [Index -> Seq(Parts)] /\ saved' \in [Index -> Seq(Parts)]
           /\ lost' \in [Index -> SUBSET Parts] /\ full' \in [Index -> Nat]
           /\ \A i \in Index \ {at} : Counted(i)' = Counted(i)
           /\ \A i \in Index : i = at => Counted(i)' = Counted(i) \o q \/ Counted(i)' = saved[i]
           /\ \A i \in Index : \A x : Accounted(i, x) => Accounted(i, x)'
           /\ \A i \in Index : \A x : i = at /\ x \in Elements(q) => Accounted(i, x)'
<1> DEFINE s == saved[at]
           p == pending[at]
<1>1. /\ pending \in [Index -> Seq(Parts)] /\ saved \in [Index -> Seq(Parts)]
      /\ lost \in [Index -> SUBSET Parts]
      /\ s \in Seq(Parts) /\ p \in Seq(Parts)
  BY DEF TypeOK
<1>2. \A i \in Index \ {at} : /\ saved'[i] = saved[i] /\ pending'[i] = pending[i]
                              /\ lost'[i] = lost[i]
  BY <1>1 DEF Writes, RollBack
<1>3. \/ saved'[at] = s /\ pending'[at] = p \o q /\ lost'[at] = lost[at]
      \/ saved'[at] = s \o (p \o q) /\ pending'[at] = <<>> /\ lost'[at] = lost[at]
      \/ /\ saved'[at] = s /\ pending'[at] = <<>>
         /\ lost'[at] = lost[at] \cup Elements(p \o q)
  BY <1>1 DEF Writes, RollBack
<1>4. /\ p \o q \in Seq(Parts) /\ s \o (p \o q) \in Seq(Parts) /\ s \o p \in Seq(Parts)
      /\ Elements(p \o q) = Elements(p) \cup Elements(q) /\ Elements(p \o q) \subseteq Parts
      /\ Elements((s \o p) \o q) = (Elements(s) \cup Elements(p)) \cup Elements(q)
      /\ Elements(s \o p) = Elements(s) \cup Elements(p)
  <2> HIDE DEF s, p
  <2>1. p \o q \in Seq(Parts) /\ s \o (p \o q) \in Seq(Parts) /\ s \o p \in Seq(Parts)
    BY <1>1
  <2>2. (s \o p) \o q \in Seq(Parts)
    BY ONLY <2>1, q \in Seq(Parts)
  <2>3. /\ Elements(p \o q) = Elements(p) \cup Elements(q)
        /\ Elements(p) \subseteq Parts /\ Elements(q) \subseteq Parts
    BY ONLY <1>1, q \in Seq(Parts), ConcatElements
  <2>4. Elements(s \o p) = Elements(s) \cup Elements(p)
    BY ONLY <1>1, ConcatElements
  <2>5. Elements((s \o p) \o q) = Elements(s \o p) \cup Elements(q)
    BY ONLY <2>1, q \in Seq(Parts), ConcatElements
  <2> QED BY <2>1, <2>3, <2>4, <2>5
<1>5. saved'[at] \o pending'[at] = (s \o p) \o q \/ saved'[at] \o pending'[at] = s
  <2> HIDE DEF s, p
  <2>1. /\ s \o (p \o q) = (s \o p) \o q /\ (s \o (p \o q)) \o <<>> = (s \o p) \o q
        /\ s \o <<>> = s
    BY ONLY <1>1, q \in Seq(Parts), CommitKeepsCount, ConcatEmptySeq, ZenonT(30)
  <2> QED BY ONLY <1>3, <2>1
<1>6. /\ pending' \in [Index -> Seq(Parts)] /\ saved' \in [Index -> Seq(Parts)]
      /\ lost' \in [Index -> SUBSET Parts]
  <2> DEFINE pq == p \o q
             spq == s \o (p \o q)
             gone == lost[at] \cup Elements(p \o q)
  <2>1. pq \in Seq(Parts) /\ spq \in Seq(Parts) /\ <<>> \in Seq(Parts) /\ gone \in SUBSET Parts
    BY <1>1, <1>4
  <2>2. \/ pending' = [pending EXCEPT ![at] = pq] /\ saved' = saved /\ lost' = lost
        \/ /\ saved' = [saved EXCEPT ![at] = spq]
           /\ pending' = [pending EXCEPT ![at] = <<>>] /\ lost' = lost
        \/ /\ pending' = [pending EXCEPT ![at] = <<>>] /\ saved' = saved
           /\ lost' = [lost EXCEPT ![at] = gone]
    BY <1>1 DEF Writes, RollBack
  <2> HIDE DEF pq, spq, gone
  <2> QED BY ONLY <1>1, <2>1, <2>2
<1>7. /\ \A i \in Index \ {at} : Counted(i)' = Counted(i)
      /\ \A i \in Index : i = at => Counted(i)' = Counted(i) \o q \/ Counted(i)' = saved[i]
  BY <1>2, <1>5 DEF Counted
<1>8. /\ \A i, x : Accounted(i, x) <=> x \in lost[i] \/ x \in Elements(saved[i] \o pending[i])
      /\ \A i, x : Accounted(i, x)' <=> x \in lost'[i] \/ x \in Elements(saved'[i] \o pending'[i])
  BY DEF Accounted, Elements, Counted
<1> DEFINE now == Elements(saved'[at] \o pending'[at])
<1>9. Elements(s \o p) \cup Elements(q) \subseteq lost'[at] \cup now /\ lost[at] \subseteq lost'[at]
  <2>1. CASE saved'[at] \o pending'[at] = (s \o p) \o q
    <3>1. lost[at] \subseteq lost'[at]
      BY <1>3
    <3>2. now = Elements(s \o p) \cup Elements(q)
      BY <1>4, <2>1
    <3> QED BY <3>1, <3>2
  <2>2. CASE saved'[at] = s /\ pending'[at] = <<>> /\ lost'[at] = lost[at] \cup Elements(p \o q)
    <3>1. s \o <<>> = s
      <4> HIDE DEF s
      <4> QED BY ONLY <1>1, ConcatEmptySeq
    <3>2. now = Elements(s)
      BY <2>2, <3>1
    <3> QED BY <1>4, <2>2, <3>2
  <2>3. CASE saved'[at] \o pending'[at] # (s \o p) \o q
    <3> HIDE DEF s, p, now
    <3>1. /\ s \o (p \o q) = (s \o p) \o q /\ (s \o (p \o q)) \o <<>> = (s \o p) \o q
      BY ONLY <1>1, q \in Seq(Parts), CommitKeepsCount, ZenonT(30)
    <3> QED BY <1>3, <2>2, <2>3, <3>1
  <2> QED BY <2>1, <2>3
<1>10. \A i \in Index : \A x : Accounted(i, x) => Accounted(i, x)'
  <2> SUFFICES ASSUME NEW i \in Index, NEW x, Accounted(i, x) PROVE Accounted(i, x)'
    OBVIOUS
  <2>1. CASE i = at
    BY <1>8, <1>9, <2>1
  <2>2. CASE i # at
    BY <1>2, <1>8, <2>2
  <2> QED BY <2>1, <2>2
<1>11. \A i \in Index : \A x : i = at /\ x \in Elements(q) => Accounted(i, x)'
  BY <1>8, <1>9
<1>12. full' \in [Index -> Nat]
  BY DEF Writes
<1> QED BY <1>6, <1>7, <1>10, <1>11, <1>12

\* The three ways a transaction can go write the rows.
LEMMA TheyWrite ==
    ASSUME TypeOK, at \in Index, NEW q \in Seq(Parts), NEW n \in Nat,
           Keep(q, n) \/ Commit(q) \/ Fail(q, n) \/ Emptied(q)
    PROVE  Writes(q)
<1>1. \/ full' = [full EXCEPT ![at] = @ + n]
      \/ full' = [full EXCEPT ![at] = 0]
  BY DEF Keep, Commit, Fail, Emptied
<1>2. full \in [Index -> Nat] /\ full[at] + n \in Nat
  BY DEF TypeOK
<1>3. full' \in [Index -> Nat]
  BY ONLY <1>1, <1>2, at \in Index
<1> QED BY <1>3 DEF Keep, Commit, Fail, Emptied, Writes

LEMMA CountsWritten ==
    ASSUME DaemonInv, pc = "store", NEW n \in 0 .. Len(Policies[cur]),
           sent' = sent, inbox' = inbox,
           pc' = "store" => at' = at + 1 /\ at' \in Index,
           Writes(Prefix(n))
    PROVE  InboxInOrder' /\ CountedWasTaken' /\ InOrderOnce'
<1>1. /\ TypeOK /\ at \in Index /\ at \in Nat /\ Prefix(n) \in Seq(Parts)
      /\ saved[at] \in Seq(Parts) /\ pending[at] \in Seq(Parts)
  BY StoringFacts DEF DaemonInv
<1>2. /\ \A i \in Index \ {at} : Counted(i)' = Counted(i)
      /\ \A i \in Index : i = at => \/ Counted(i)' = Counted(i) \o Prefix(n)
                                    \/ Counted(i)' = saved[i]
  BY <1>1, WritesFacts
<1>3. CASE \A i \in Index : i = at => Counted(i)' = Counted(i) \o Prefix(n)
  BY <1>2, <1>3, CountsGrow
<1>4. CASE \A i \in Index : i = at => Counted(i)' = saved[i]
  <2>1. \A m \in DOMAIN saved[at] :
            /\ m \in DOMAIN (saved[at] \o pending[at])
            /\ (saved[at] \o pending[at])[m] = saved[at][m]
    BY <1>1, ConcatElements
  <2>2. \A i \in Index : \A m \in DOMAIN Counted(i)' :
            m \in DOMAIN Counted(i) /\ Counted(i)'[m] = Counted(i)[m]
    <3> SUFFICES ASSUME NEW i \in Index, NEW m \in DOMAIN Counted(i)'
                 PROVE  m \in DOMAIN Counted(i) /\ Counted(i)'[m] = Counted(i)[m]
      OBVIOUS
    <3>1. CASE i # at
      BY <1>2, <3>1
    <3>2. CASE i = at
      <4>1. Counted(i)' = saved[at] /\ Counted(i) = saved[at] \o pending[at]
        BY <1>4, <3>2 DEF Counted
      <4> QED BY <2>1, <4>1
    <3> QED BY <3>1, <3>2
  <2>3. at + 1 >= at
    BY <1>1
  <2> QED BY <2>2, <2>3, CountsShrink
<1> QED BY <1>2, <1>3, <1>4

\* Whatever becomes of the rows, the storage accounts for policies 1 to n.
LEMMA StoringStep ==
    ASSUME DaemonInv, pc = "store", NEW n \in Nat, n = Usable(fields),
           fields' = Popped(fields, n), NextStorage("store"),
           UNCHANGED <<inbox, signals, sent, keys, cur, hit, exitcode>>,
           Writes(Prefix(n))
    PROVE  DaemonInv'
<1>1. /\ at' = at + 1 /\ pc' = IF at < Len(Storages) THEN "store" ELSE "keys"
      /\ TypeOK /\ KeysReady /\ CurrentIsLast
  BY DEF NextStorage, DaemonInv
<1>2. /\ at \in Index /\ at \in Nat /\ at >= 1 /\ (at < Len(Storages) => at + 1 \in Index)
      /\ fields \in Seq(BOOLEAN) /\ n \in 0 .. Len(Policies[cur]) /\ cur \in Datagrams
      /\ at = 1 => n = Usable(Policies[cur])
      /\ Prefix(n) \in Seq(Parts)
  BY StoringFacts
<1>3. /\ pending' \in [Index -> Seq(Parts)] /\ saved' \in [Index -> Seq(Parts)]
      /\ lost' \in [Index -> SUBSET Parts] /\ full' \in [Index -> Nat]
      /\ \A i \in Index : \A x : Accounted(i, x) => Accounted(i, x)'
      /\ \A i \in Index : \A x : i = at /\ x \in Elements(Prefix(n)) => Accounted(i, x)'
  BY <1>1, <1>2, WritesFacts
<1>4. TypeOK'
  BY <1>1, <1>2, <1>3 DEF TypeOK
<1>5. InboxInOrder' /\ CountedWasTaken' /\ InOrderOnce'
  BY <1>1, <1>2, CountsWritten
<1>6. FirstIsComplete'
  <2>1. \A x : Accounted(1, x) => Accounted(1, x)'
    BY <1>3, IndexFacts
  <2>2. CASE at = 1
    <3>1. \A d : d = cur => \A k \in 1 .. n : Accounted(1, <<d, k>>)'
      <4>1. \A k \in 1 .. n : <<cur, k>> \in Elements(Prefix(n))
        BY DEF Elements, Prefix
      <4> QED BY <1>3, <2>2, <4>1, IndexFacts
    <3> QED BY <1>2, <2>1, <2>2, <3>1, FirstGrows
  <2>3. CASE at # 1
    BY <1>1, <2>1, <2>3, FirstKept DEF Ended
  <2> QED BY <2>2, <2>3
<1>7. KeysReady'
  BY <1>1 DEF KeysReady
<1>8. CurrentIsLast'
  <2>1. Taken' = Taken
    BY DEF Taken
  <2>2. fields' \in Seq(BOOLEAN) /\ Len(fields') = Len(fields)
    BY <1>2, PoppedFits
  <2>3. at + 1 # 1
    BY <1>2
  <2> QED BY <1>1, <2>1, <2>2, <2>3 DEF CurrentIsLast
<1>9. FlushedSoFar'
  BY <1>1 DEF FlushedSoFar
<1> QED BY <1>4, <1>5, <1>6, <1>7, <1>8, <1>9 DEF DaemonInv

LEMMA StoreStep == ASSUME DaemonInv, Store PROVE DaemonInv'
<1> DEFINE n == Usable(fields)
           q == Prefix(n)
<1>1. /\ pc = "store" /\ n = Len(fields) /\ fields' = Popped(fields, n)
      /\ Keep(q, 1) \/ Commit(q) \/ Fail(q, 1) \/ Emptied(q)
      /\ NextStorage("store")
      /\ UNCHANGED <<inbox, signals, sent, keys, cur, hit, exitcode>>
  BY DEF Store, sources
<1>2. at \in Index /\ n \in Nat /\ q \in Seq(Parts) /\ TypeOK
  BY <1>1, StoringFacts DEF DaemonInv
<1>3. n = Usable(fields) /\ q = Prefix(n)
  OBVIOUS
<1> HIDE DEF n, q
<1>4. Writes(q)
  BY <1>1, <1>2, TheyWrite
<1> QED BY <1>1, <1>2, <1>3, <1>4, StoringStep

LEMMA StoreInPartStep == ASSUME DaemonInv, StoreInPart PROVE DaemonInv'
<1> DEFINE n == Usable(fields)
           q == Prefix(n)
<1>1. /\ pc = "store" /\ fields' = Popped(fields, n) /\ NextStorage("store")
      /\ Keep(q, 0)
      /\ UNCHANGED <<inbox, signals, sent, keys, cur, hit, exitcode>>
  BY DEF StoreInPart, sources
<1>2. at \in Index /\ n \in Nat /\ q \in Seq(Parts) /\ TypeOK
  BY <1>1, StoringFacts DEF DaemonInv
<1>3. n = Usable(fields) /\ q = Prefix(n)
  OBVIOUS
<1> HIDE DEF n, q
<1>4. Writes(q)
  BY <1>1, <1>2, TheyWrite
<1> QED BY <1>1, <1>2, <1>3, <1>4, StoringStep

LEMMA StoreRaisesStep == ASSUME DaemonInv, StoreRaises PROVE DaemonInv'
<1>1. /\ pc = "store" /\ pc' = "select" /\ hit' = hit \cup {cur}
      /\ UNCHANGED <<inbox, signals, sent, keys, cur, fields, at, exitcode>>
      /\ \E n \in 0 .. Usable(fields) : Fail(Prefix(n), 0)
  BY DEF StoreRaises, sources
<1>2. PICK n \in 0 .. Usable(fields) : Fail(Prefix(n), 0)
  BY <1>1
<1>3. /\ at \in Index /\ n \in 0 .. Len(Policies[cur]) /\ Prefix(n) \in Seq(Parts) /\ TypeOK
  BY <1>1, StoringFacts DEF DaemonInv
<1>4. Writes(Prefix(n))
  BY <1>2, <1>3, TheyWrite
<1>5. /\ pending' \in [Index -> Seq(Parts)] /\ saved' \in [Index -> Seq(Parts)]
      /\ lost' \in [Index -> SUBSET Parts] /\ full' \in [Index -> Nat]
      /\ \A i \in Index : \A x : Accounted(i, x) => Accounted(i, x)'
      /\ \A i \in Index : \A x : i = at /\ x \in Elements(Prefix(n)) => Accounted(i, x)'
  BY <1>3, <1>4, WritesFacts
<1>6. TypeOK'
  BY <1>1, <1>3, <1>5 DEF TypeOK
<1>7. InboxInOrder' /\ CountedWasTaken' /\ InOrderOnce'
  BY <1>1, <1>3, <1>4, CountsWritten
<1>8. FirstIsComplete'
  <2>1. \A x : Accounted(1, x) => Accounted(1, x)'
    BY <1>5, IndexFacts
  <2>2. CASE at = 1
    <3>1. \A d : d = cur => \A k \in 1 .. n : Accounted(1, <<d, k>>)'
      <4>1. \A k \in 1 .. n : <<cur, k>> \in Elements(Prefix(n))
        BY DEF Elements, Prefix
      <4> QED BY <1>5, <2>2, <4>1, IndexFacts
    <3> QED BY <1>1, <2>1, <2>2, <3>1, FirstGrows
  <2>3. CASE at # 1
    <3>1. /\ FirstIsComplete /\ Taken' = Taken /\ \A d : CountsAllOf(1, d) => CountsAllOf(1, d)'
      BY <1>1, <2>1 DEF DaemonInv, Taken, CountsAllOf
    <3> QED BY <1>1, <2>3, <3>1 DEF FirstIsComplete, Ended
  <2> QED BY <2>2, <2>3
<1>9. KeysReady' /\ CurrentIsLast' /\ FlushedSoFar'
  BY <1>1 DEF KeysReady, CurrentIsLast, FlushedSoFar
<1> QED BY <1>6, <1>7, <1>8, <1>9 DEF DaemonInv

-----------------------------------------------------------------------------
(* The steps that commit.                                                  *)

Settles == Writes(<<>>) \/ UNCHANGED <<pending, saved, full, lost>>

LEMMA SettlesFacts ==
    ASSUME TypeOK, at \in Index, Settles
    PROVE  /\ pending' \in [Index -> Seq(Parts)] /\ saved' \in [Index -> Seq(Parts)]
           /\ lost' \in [Index -> SUBSET Parts] /\ full' \in [Index -> Nat]
           /\ \A i \in Index : \A m \in DOMAIN Counted(i)' :
                  m \in DOMAIN Counted(i) /\ Counted(i)'[m] = Counted(i)[m]
           /\ \A x : Accounted(1, x) => Accounted(1, x)'
<1>1. CASE Writes(<<>>)
  <2>1. <<>> \in Seq(Parts)
    BY EmptyRows
  <2>2. /\ saved[at] \in Seq(Parts) /\ pending[at] \in Seq(Parts) /\ Counted(at) \in Seq(Parts)
    BY DEF TypeOK, Counted
  <2>3. /\ pending' \in [Index -> Seq(Parts)] /\ saved' \in [Index -> Seq(Parts)]
        /\ lost' \in [Index -> SUBSET Parts] /\ full' \in [Index -> Nat]
        /\ \A i \in Index \ {at} : Counted(i)' = Counted(i)
        /\ \A i \in Index : i = at => Counted(i)' = Counted(i) \o <<>> \/ Counted(i)' = saved[i]
        /\ \A i \in Index : \A x : Accounted(i, x) => Accounted(i, x)'
    BY <1>1, <2>1, WritesFacts
  <2>4. Counted(at) \o <<>> = Counted(at)
    BY <2>2, ConcatEmptySeq
  <2>5. \A m \in DOMAIN saved[at] :
            /\ m \in DOMAIN (saved[at] \o pending[at])
            /\ (saved[at] \o pending[at])[m] = saved[at][m]
    BY <2>2, ConcatElements
  <2>6. ASSUME NEW i \in Index, NEW m \in DOMAIN Counted(i)'
        PROVE  m \in DOMAIN Counted(i) /\ Counted(i)'[m] = Counted(i)[m]
    <3>1. CASE i # at
      BY <2>3, <3>1
    <3>2. CASE i = at /\ Counted(i)' = saved[i]
      <4>1. Counted(i)' = saved[at] /\ Counted(i) = saved[at] \o pending[at]
        BY <3>2 DEF Counted
      <4> QED BY <2>5, <2>6, <4>1
    <3>3. CASE i = at /\ Counted(i)' = Counted(i) \o <<>>
      BY <2>4, <2>6, <3>3
    <3> QED BY <2>3, <3>1, <3>2, <3>3
  <2> QED BY <2>3, <2>6, IndexFacts
<1>2. CASE UNCHANGED <<pending, saved, full, lost>>
  BY <1>2, NothingWritten DEF TypeOK
<1> QED BY <1>1, <1>2 DEF Settles

LEMMA TheySettle ==
    ASSUME TypeOK, at \in Index, DbCommit \/ Switches \/ Fail(<<>>, 0)
    PROVE  Settles
<1>1. CASE UNCHANGED storage
  BY <1>1 DEF storage, Settles
<1>2. CASE Commit(<<>>) \/ Fail(<<>>, 0) \/ Emptied(<<>>)
  BY <1>2, TheyWrite, EmptyRows DEF Settles
<1> QED BY <1>1, <1>2 DEF DbCommit, Switches

\* The loop goes on, with this storage or another, or with the next round.
LEMMA SettlingStep ==
    ASSUME DaemonInv, pc \in {"timeout", "rollover"}, Settles,
           pc' \in {"timeout", "select", "rollover", "keys"},
           pc' \in {"rollover", "keys"} => pc = "rollover",
           pc' \in {"timeout", "rollover"} => at' \in Index,
           UNCHANGED <<inbox, signals, sent, keys, hit, exitcode>>
    PROVE  DaemonInv'
<1>1. TypeOK /\ KeysReady /\ at \in Index
  BY DEF DaemonInv, TypeOK
<1>2. /\ pending' \in [Index -> Seq(Parts)] /\ saved' \in [Index -> Seq(Parts)]
      /\ lost' \in [Index -> SUBSET Parts] /\ full' \in [Index -> Nat]
      /\ \A i \in Index : \A m \in DOMAIN Counted(i)' :
             m \in DOMAIN Counted(i) /\ Counted(i)'[m] = Counted(i)[m]
      /\ \A x : Accounted(1, x) => Accounted(1, x)'
  BY <1>1, SettlesFacts
<1>3. TypeOK'
  BY <1>1, <1>2 DEF TypeOK
<1>4. InboxInOrder' /\ CountedWasTaken' /\ InOrderOnce'
  BY <1>2, CountsShrink
<1>5. FirstIsComplete'
  BY <1>2, FirstKept DEF Ended
<1>6. KeysReady'
  BY <1>1 DEF KeysReady
<1>7. CurrentIsLast' /\ FlushedSoFar'
  BY DEF CurrentIsLast, FlushedSoFar
<1> QED BY <1>3, <1>4, <1>5, <1>6, <1>7 DEF DaemonInv

LEMMA NextTurn ==
    ASSUME DaemonInv, pc \in {"store", "timeout", "rollover", "shutdown"}
    PROVE  /\ TypeOK
           /\ at \in Index /\ at \in Nat /\ (at < Len(Storages) => at + 1 \in Index)
           /\ ~(at < Len(Storages)) => at = Len(Storages)
BY IndexFacts, SMTT(20) DEF DaemonInv, TypeOK

LEMMA TimeoutStep == ASSUME DaemonInv, Timeout PROVE DaemonInv'
<1>1. /\ pc = "timeout" /\ DbCommit /\ at' = at + 1
      /\ pc' = IF at < Len(Storages) THEN "timeout" ELSE "select"
      /\ UNCHANGED <<inbox, signals, sent, keys, hit, exitcode>>
  BY DEF Timeout, sources, datagram
<1>2. TypeOK /\ at \in Index /\ (at < Len(Storages) => at + 1 \in Index)
  BY <1>1, NextTurn
<1>3. Settles
  BY <1>1, <1>2, TheySettle
<1> QED BY <1>1, <1>2, <1>3, SettlingStep

LEMMA RolloverStep == ASSUME DaemonInv, Rollover PROVE DaemonInv'
<1>1. /\ pc = "rollover" /\ Switches /\ at' = at + 1
      /\ pc' = IF at < Len(Storages) THEN "rollover" ELSE "keys"
      /\ UNCHANGED <<inbox, signals, sent, keys, hit, exitcode>>
  BY DEF Rollover, NextStorage, sources, datagram
<1>2. TypeOK /\ at \in Index /\ (at < Len(Storages) => at + 1 \in Index)
  BY <1>1, NextTurn
<1>3. Settles
  BY <1>1, <1>2, TheySettle
<1> QED BY <1>1, <1>2, <1>3, SettlingStep

LEMMA TimeoutOrRolloverRaisesStep == ASSUME DaemonInv, TimeoutOrRolloverRaises PROVE DaemonInv'
<1>1. /\ pc \in {"timeout", "rollover"} /\ Fail(<<>>, 0) /\ pc' = "select"
      /\ UNCHANGED <<inbox, signals, sent, keys, hit, exitcode>>
  BY DEF TimeoutOrRolloverRaises, sources, datagram
<1>2. TypeOK /\ at \in Index
  BY <1>1, NextTurn
<1>3. Settles
  BY <1>1, <1>2, TheySettle
<1> QED BY <1>1, <1>3, SettlingStep

LEMMA MidnightStep == ASSUME DaemonInv, Midnight PROVE DaemonInv'
<1>1. /\ pc \in {"store", "timeout", "shutdown"} /\ Switches
      /\ UNCHANGED <<pc, inbox, signals, sent, keys, cur, fields, hit, at, exitcode>>
  BY DEF Midnight, sources, datagram
<1>2. /\ TypeOK /\ at \in Index /\ at \in Nat /\ KeysReady /\ CurrentIsLast /\ FlushedSoFar
  BY <1>1, NextTurn DEF DaemonInv
<1>3. Settles
  BY <1>1, <1>2, TheySettle
<1>4. /\ pending' \in [Index -> Seq(Parts)] /\ saved' \in [Index -> Seq(Parts)]
      /\ lost' \in [Index -> SUBSET Parts] /\ full' \in [Index -> Nat]
      /\ \A i \in Index : \A m \in DOMAIN Counted(i)' :
             m \in DOMAIN Counted(i) /\ Counted(i)'[m] = Counted(i)[m]
      /\ \A x : Accounted(1, x) => Accounted(1, x)'
  BY <1>2, <1>3, SettlesFacts
<1>5. TypeOK'
  BY <1>1, <1>2, <1>4 DEF TypeOK
<1>6. InboxInOrder' /\ CountedWasTaken' /\ InOrderOnce'
  <2>1. at >= at
    BY <1>2
  <2> QED BY <1>1, <1>2, <1>4, <2>1, CountsShrink
<1>7. FirstIsComplete'
  <2>1. CASE pc = "shutdown"
    BY <1>1, <2>1 DEF FirstIsComplete
  <2>2. CASE pc # "shutdown"
    BY <1>1, <1>4, <2>2, FirstKept DEF Ended
  <2> QED BY <2>1, <2>2
<1>8. KeysReady'
  BY <1>1, <1>2 DEF KeysReady
<1>9. CurrentIsLast'
  <2>1. Taken' = Taken
    BY <1>1 DEF Taken
  <2> QED BY <1>1, <1>2, <2>1 DEF CurrentIsLast
<1>10. FlushedSoFar'
  <2>1. \A i \in Index \ {at} : full'[i] = full[i] /\ (i \in failed => i \in failed')
    BY <1>1, <1>2 DEF Switches, Commit, Emptied, Error, TypeOK
  <2>2. \A i \in Index : i >= at \/ i # at
    BY <1>2, IndexFacts
  <2> QED BY <1>1, <1>2, <2>1, <2>2 DEF FlushedSoFar
<1> QED BY <1>5, <1>6, <1>7, <1>8, <1>9, <1>10 DEF DaemonInv

\* The process ends where the loop stands, or where the shutdown stands.
LEMMA EndingStep ==
    ASSUME DaemonInv, pc \in {"store", "timeout", "rollover", "shutdown"},
           \/ pc' = "died" /\ exitcode' \in {3, 8}
           \/ pc = "shutdown" /\ pc' = "aborted" /\ exitcode' = 3 /\ failed' = failed \cup {at},
           UNCHANGED <<inbox, signals, sent, keys, at, pending, saved, full, lost>>
    PROVE  DaemonInv'
<1>1. TypeOK /\ at \in Index /\ at \in Nat /\ FlushedSoFar
  BY NextTurn DEF DaemonInv
<1>2. TypeOK'
  BY <1>1 DEF TypeOK, Ended
<1>3. InboxInOrder' /\ CountedWasTaken' /\ InOrderOnce'
  BY NothingWritten, CountsKept
<1>4. FirstIsComplete' /\ KeysReady' /\ CurrentIsLast'
  BY DEF FirstIsComplete, KeysReady, CurrentIsLast, Ended
<1>5. FlushedSoFar'
  <2>1. \A i \in Index : i = at \/ i > at \/ ~(i >= at)
    BY <1>1, IndexFacts
  <2> QED BY <1>1, <2>1 DEF FlushedSoFar
<1> QED BY <1>2, <1>3, <1>4, <1>5 DEF DaemonInv

LEMMA StoreMisshapenStep == ASSUME DaemonInv, StoreMisshapen PROVE DaemonInv'
BY EndingStep DEF StoreMisshapen, sources, datagram, storage

LEMMA RolloverDiesStep == ASSUME DaemonInv, RolloverDies PROVE DaemonInv'
BY EndingStep DEF RolloverDies, sources, datagram

LEMMA SetupExitsStep == ASSUME DaemonInv, SetupExits PROVE DaemonInv'
BY EndingStep DEF SetupExits, sources, datagram, Error

LEMMA ShutdownStep == ASSUME DaemonInv, Shutdown PROVE DaemonInv'
<1>1. /\ pc = "shutdown" /\ (DbCommit \/ Fail(<<>>, 0))
      /\ at' = at + 1 /\ pc' = IF at < Len(Storages) THEN "shutdown" ELSE "stopped"
      /\ exitcode' \in {exitcode, 6}
      /\ UNCHANGED <<inbox, signals, sent, keys>>
  BY DEF Shutdown, sources
<1>2. /\ TypeOK /\ FlushedSoFar /\ at \in Index /\ at \in Nat
      /\ at < Len(Storages) => at + 1 \in Index
      /\ ~(at < Len(Storages)) => at = Len(Storages)
  BY <1>1, NextTurn DEF DaemonInv
<1>3. Settles
  BY <1>1, <1>2, TheySettle
<1>4. /\ pending' \in [Index -> Seq(Parts)] /\ saved' \in [Index -> Seq(Parts)]
      /\ lost' \in [Index -> SUBSET Parts] /\ full' \in [Index -> Nat]
      /\ \A i \in Index : \A m \in DOMAIN Counted(i)' :
             m \in DOMAIN Counted(i) /\ Counted(i)'[m] = Counted(i)[m]
  BY <1>2, <1>3, SettlesFacts
<1>5. TypeOK'
  BY <1>1, <1>2, <1>4 DEF TypeOK, Ended
<1>6. InboxInOrder' /\ CountedWasTaken' /\ InOrderOnce'
  BY <1>1, <1>4, CountsShrink
<1>7. FirstIsComplete' /\ KeysReady' /\ CurrentIsLast'
  BY <1>1 DEF FirstIsComplete, KeysReady, CurrentIsLast, Ended
<1>8. full'[at] = 0 \/ at \in failed'
  BY <1>1, <1>2 DEF DbCommit, Commit, Fail, Error, storage, TypeOK
<1>9. \A i \in Index : i # at => full'[i] = full[i] /\ (i \in failed => i \in failed')
  BY <1>1, <1>2 DEF DbCommit, Commit, Fail, Keep, Error, storage, TypeOK
<1>10. FlushedSoFar'
  <2> SUFFICES ASSUME NEW i \in Index, ~(pc' = "shutdown" /\ i >= at')
               PROVE  full'[i] = 0 \/ i \in failed'
    BY <1>1 DEF FlushedSoFar
  <2>1. i < at \/ i = at
    BY <1>1, <1>2, IndexFacts
  <2>2. CASE i = at
    BY <1>8, <2>2
  <2>3. CASE i < at
    <3>1. i # at /\ ~(i >= at)
      BY <1>2, <2>3, IndexFacts
    <3> QED BY <1>1, <1>2, <1>9, <3>1 DEF FlushedSoFar
  <2> QED BY <2>1, <2>2, <2>3
<1> QED BY <1>5, <1>6, <1>7, <1>10 DEF DaemonInv

LEMMA StutterStep == ASSUME DaemonInv, UNCHANGED vars PROVE DaemonInv'
<1>1. UNCHANGED <<pc, inbox, signals, keys, cur, fields, at, pending, saved, full, lost,
                  exitcode, sent, hit, failed>>
  BY DEF vars
<1>2. /\ Taken' = Taken /\ \A i : Counted(i)' = Counted(i)
      /\ \A i, x : Accounted(i, x)' <=> Accounted(i, x)
  BY <1>1, NothingWritten DEF Taken
<1>3. TypeOK' /\ InboxInOrder' /\ KeysReady'
  BY <1>1, <1>2 DEF DaemonInv, TypeOK, InboxInOrder, KeysReady
<1>4. CurrentIsLast' /\ CountedWasTaken' /\ FlushedSoFar'
  BY <1>1, <1>2 DEF DaemonInv, CurrentIsLast, CountedWasTaken, FlushedSoFar
<1>5. InOrderOnce'
  <2>1. \A d : Position(d)' = Position(d)
    BY <1>1 DEF Position
  <2> QED BY <1>2, <2>1 DEF DaemonInv, InOrderOnce
<1>6. FirstIsComplete'
  BY <1>1, <1>2 DEF DaemonInv, FirstIsComplete, CountsAllOf
<1> QED BY <1>3, <1>4, <1>5, <1>6 DEF DaemonInv

-----------------------------------------------------------------------------
(* The theorems.                                                           *)

LEMMA StepInv == DaemonInv /\ [Next]_vars => DaemonInv'
<1> SUFFICES ASSUME DaemonInv, [Next]_vars PROVE DaemonInv'
  OBVIOUS
<1>1. CASE Select
  BY <1>1, SelectStep
<1>2. CASE ReadDatagram
  BY <1>2, ReadDatagramStep
<1>3. CASE ReadSignal
  BY <1>3, ReadSignalStep
<1>4. CASE KeysDone
  BY <1>4, KeysDoneStep
<1>5. CASE StoreDummy
  BY <1>5, StoreDummyStep
<1>6. CASE Store
  BY <1>6, StoreStep
<1>7. CASE StoreInPart
  BY <1>7, StoreInPartStep
<1>8. CASE StoreRaises
  BY <1>8, StoreRaisesStep
<1>9. CASE StoreMisshapen
  BY <1>9, StoreMisshapenStep
<1>10. CASE Timeout
  BY <1>10, TimeoutStep
<1>11. CASE Rollover
  BY <1>11, RolloverStep
<1>12. CASE Midnight
  BY <1>12, MidnightStep
<1>13. CASE TimeoutOrRolloverRaises
  BY <1>13, TimeoutOrRolloverRaisesStep
<1>14. CASE RolloverDies
  BY <1>14, RolloverDiesStep
<1>15. CASE SetupExits
  BY <1>15, SetupExitsStep
<1>16. CASE Shutdown
  BY <1>16, ShutdownStep
<1>17. CASE Dump
  BY <1>17, DumpStep
<1>18. CASE \E d \in Datagrams : Send(d)
  BY <1>18, SendStep
<1>19. CASE \E s \in {"USR2", "TERM"} : Signal(s)
  BY <1>19, SignalStep
<1>20. CASE UNCHANGED vars
  BY <1>20, StutterStep
<1> QED BY <1>1, <1>2, <1>3, <1>4, <1>5, <1>6, <1>7, <1>8, <1>9, <1>10, <1>11,
           <1>12, <1>13, <1>14, <1>15, <1>16, <1>17, <1>18, <1>19, <1>20 DEF Next, Loop

LEMMA Invariance == Spec => []DaemonInv
BY InitInv, StepInv, PTL DEF Spec

\* The state has its shape: in particular a storage is at work only while it
\* is one of the configured ones.
THEOREM DaemonTypeCorrect == Spec => []TypeOK
<1>1. DaemonInv => TypeOK
  BY DEF DaemonInv
<1> QED BY <1>1, Invariance, PTL

\* Each storage counts the policies in the order of arrival and none of them
\* twice, whatever errors, signals and timeouts come between.
THEOREM CountedInOrder == Spec => []InOrderOnce
<1>1. DaemonInv => InOrderOnce
  BY DEF DaemonInv
<1> QED BY <1>1, Invariance, PTL

\* Every usable policy of a datagram that was handled without a database error
\* is counted by the first storage, committed or pending, or was taken away by a
\* transaction that SQLite rolled back: nothing else loses it.
THEOREM FirstStorageComplete == Spec => []FirstStorageMissesNothing
<1>1. DaemonInv => FirstStorageMissesNothing
  <2> SUFFICES ASSUME DaemonInv, NEW d \in Datagrams, Handled(d), Storages[1] = "sqlite",
                      pc \notin Ended \cup {"shutdown"}
               PROVE  CountsAllOf(1, d)
    BY DEF FirstStorageMissesNothing
  <2>1. PICK k \in DOMAIN sent : sent[k] = d
    BY DEF Handled
  <2>2. /\ InboxInOrder /\ Len(sent) \in Nat /\ Len(inbox) \in Nat /\ k \in 1 .. Len(sent)
        /\ DOMAIN inbox = 1 .. Len(inbox) /\ Taken \in Nat
    BY <2>1, TypeFacts
  <2>3. k \in 1 .. Taken
    <3> SUFFICES ASSUME k > Taken PROVE FALSE
      BY <2>2
    <3>1. k - Taken \in 1 .. Len(inbox) /\ Taken + (k - Taken) = k
      BY <2>2 DEF Taken
    <3>2. inbox[k - Taken] = d
      BY <2>1, <2>2, <3>1 DEF InboxInOrder
    <3> QED BY <2>2, <3>1, <3>2 DEF Handled
  <2>4. ~(pc = "store" /\ k = Taken)
    BY <2>1 DEF DaemonInv, CurrentIsLast, Handled
  <2> QED BY <2>1, <2>3, <2>4 DEF DaemonInv, FirstIsComplete, Handled
<1> QED BY <1>1, Invariance, PTL

\* After a signal to end, every storage has committed its complete datagrams, or
\* its own last commit failed: no Exception of another storage keeps it from it,
\* only the exit of one whose new database can not be set up, with exit code 3.
THEOREM ShutdownFlushesAll == Spec => []ShutdownFlushes
<1>1. DaemonInv => ShutdownFlushes
  BY DEF DaemonInv, FlushedSoFar, ShutdownFlushes
<1> QED BY <1>1, Invariance, PTL
===============================================================================
