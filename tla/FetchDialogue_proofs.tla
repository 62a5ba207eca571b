------------------------- MODULE FetchDialogue_proofs -------------------------
(***************************************************************************)
(* What tlsrpt-reportd stores of the answers of a fetcher is what the      *)
(* collectd counted, for all domain names, any number of days, all         *)
(* capacities of the pipe and wherever a fetcher dies.                     *)
(***************************************************************************)
EXTENDS FetchDialogue, FiniteSetTheorems, SequenceTheorems, TLAPS

-----------------------------------------------------------------------------
(* Names and lines.                                                        *)

LEMMA LinesDiffer ==
    /\ Fragment # Dot
    /\ \A n, d : <<"name", n>> # Version /\ <<"name", n>> # Time /\ <<"name", n>> # <<"day", d>>
    /\ \A n, m : <<"name", n>> = <<"name", m>> => n = m
    /\ \A n, v : <<"name", n>> # <<"json", v>>
    /\ \A v, w : <<"json", v>> = <<"json", w>> => v = w
    /\ \A v, w : <<"day", v>> = <<"day", w>> => v = w
    /\ \A v, d : <<"json", v>> # <<"day", d>>
    /\ \A d : <<"day", d>> # Version /\ <<"day", d>> # Time
    /\ Version # Time
BY DEF Fragment, Dot, Name, Version, Time

LEMMA NormalName ==
    ASSUME NEW n \in NormalNames
    PROVE  /\ n = [base |-> n.base, upper |-> n.upper, dots |-> n.dots, blank |-> n.blank]
           /\ n.upper = FALSE /\ n.dots \in Nat /\ n.blank \in BOOLEAN
           /\ n.dots = 1 /\ ~n.blank => n = Dot
<1>1. PICK m \in Notations : n = normalize_domain_name(m)
  BY DEF NormalNames
<1>2. m.dots \in Nat /\ m.blank \in BOOLEAN
  BY DialogueBounds
<1>3. n = [base |-> m.base, upper |-> FALSE,
           dots |-> IF m.dots = 1 /\ m.base # Root /\ ~m.blank THEN 0 ELSE m.dots,
           blank |-> m.blank]
  BY <1>1 DEF normalize_domain_name
<1>4. /\ n.base = m.base /\ n.upper = FALSE /\ n.blank = m.blank
      /\ n.dots = IF m.dots = 1 /\ m.base # Root /\ ~m.blank THEN 0 ELSE m.dots
  BY <1>3
<1>5. n = [base |-> n.base, upper |-> n.upper, dots |-> n.dots, blank |-> n.blank]
  BY <1>3, <1>4
<1>6. n.dots \in Nat /\ n.blank \in BOOLEAN
  BY <1>2, <1>4
<1>7. n.dots = 1 /\ ~n.blank => n.base = Root
  BY <1>2, <1>4
<1>8. n.dots = 1 /\ ~n.blank => n = Dot
  BY <1>4, <1>5, <1>6, <1>7 DEF Dot, Name
<1> QED BY <1>4, <1>5, <1>6, <1>8

\* Names that differ only in the case of letters and a final dot are one name
\* after normalize_domain_name.
LEMMA NormalNamesDiffer ==
    ASSUME NEW n \in NormalNames \ {Dot}, NEW m \in NormalNames \ {Dot},
           n.base = m.base, n.dots <= 1, m.dots <= 1, n.blank = FALSE, m.blank = FALSE
    PROVE  n = m
<1>1. /\ n = [base |-> n.base, upper |-> FALSE, dots |-> n.dots, blank |-> FALSE]
      /\ n.dots \in Nat /\ n.dots # 1
  BY NormalName
<1>2. /\ m = [base |-> m.base, upper |-> FALSE, dots |-> m.dots, blank |-> FALSE]
      /\ m.dots \in Nat /\ m.dots # 1
  BY NormalName
<1>3. n.dots = 0 /\ m.dots = 0
  BY <1>1, <1>2
<1> QED BY <1>1, <1>2, <1>3

\* rstrip leaves all of a normal name but the white space.
LEMMA StrippedName ==
    ASSUME NEW n \in NormalNames
    PROVE  /\ rstrip(n).blank = FALSE
           /\ BeginsWithDot(rstrip(n)) <=> BeginsWithDot(n)
<1>1. n = [base |-> n.base, upper |-> n.upper, dots |-> n.dots, blank |-> n.blank]
  BY NormalName
<1>2. DOMAIN n = {"base", "upper", "dots", "blank"}
  BY <1>1
<1>3. rstrip(n).base = n.base /\ rstrip(n).dots = n.dots /\ rstrip(n).blank = FALSE
  BY <1>2 DEF rstrip
<1> QED BY <1>3 DEF BeginsWithDot

LEMMA LineParts ==
    ASSUME NEW line \in Wire
    PROVE  /\ line[1] = "json" => \E v \in 0 .. LastDay : line = <<"json", v>>
           /\ line[1] = "name" => line = <<"name", line[2]>>
BY DEF Wire, Version, Time

-----------------------------------------------------------------------------
(* The lines to come.                                                      *)

LEMMA StreamType ==
    ASSUME TypeOK
    PROVE  /\ ToCome \in Nat /\ Len(pipe) \in Nat /\ Len(out) \in Nat
           /\ \A i \in 1 .. ToCome : LineAt(i) \in Wire
           /\ pipe # <<>> => ToCome >= 1 /\ Len(pipe) >= 1 /\ LineAt(1) = Head(pipe)
           /\ pipe = <<>> => Len(pipe) = 0
           /\ out = <<>> <=> Len(out) = 0
<1>1. pipe \in Seq(Wire) /\ out \in Seq(Wire)
  BY DEF TypeOK
<1>2. Len(pipe) \in Nat /\ Len(out) \in Nat /\ ToCome \in Nat
  BY <1>1, LenProperties DEF ToCome
<1>3. ASSUME NEW i \in 1 .. ToCome PROVE LineAt(i) \in Wire
  <2>1. CASE i <= Len(pipe)
    BY <1>1, <1>2, <2>1, ElementOfSeq DEF LineAt
  <2>2. CASE i > Len(pipe)
    <3>1. i - Len(pipe) \in 1 .. Len(out)
      BY <1>2, <2>2 DEF ToCome
    <3> QED BY <1>1, <1>2, <2>2, <3>1, ElementOfSeq DEF LineAt
  <2> QED BY <1>2, <2>1, <2>2
<1>4. pipe # <<>> => Len(pipe) >= 1 /\ LineAt(1) = Head(pipe) /\ ToCome >= 1
  BY <1>1, <1>2, EmptySeq DEF LineAt, ToCome
<1>5. (pipe = <<>> => Len(pipe) = 0) /\ (out = <<>> <=> Len(out) = 0)
  BY <1>1, EmptySeq
<1> QED BY <1>2, <1>3, <1>4, <1>5

\* Nothing is lost or reordered between the fetcher and its reader.
LEMMA WriteKeepsStream ==
    ASSUME TypeOK, Write
    PROVE  /\ ToCome' = ToCome
           /\ \A i \in 1 .. ToCome : LineAt(i)' = LineAt(i)
           /\ pipe' \in Seq(Wire) /\ out' \in Seq(Wire)
<1>1. pipe \in Seq(Wire) /\ out \in Seq(Wire) /\ out # <<>>
  BY DEF TypeOK, Write
<1>2. pipe' = Append(pipe, Head(out)) /\ out' = Tail(out)
  BY DEF Write
<1>3. /\ Head(out) \in Wire /\ Tail(out) \in Seq(Wire) /\ Len(Tail(out)) = Len(out) - 1
      /\ \A i \in 1 .. Len(out) - 1 : Tail(out)[i] = out[i + 1]
  BY ONLY <1>1, HeadTailProperties
<1>4. /\ pipe' \in Seq(Wire) /\ Len(pipe') = Len(pipe) + 1
      /\ \A i \in 1 .. Len(pipe) : pipe'[i] = pipe[i]
      /\ pipe'[Len(pipe) + 1] = Head(out)
  BY ONLY <1>1, <1>2, <1>3, AppendProperties
<1>5. Len(pipe) \in Nat /\ Len(out) \in Nat \ {0} /\ Head(out) = out[1]
  BY ONLY <1>1, LenProperties, EmptySeq
<1>6. ToCome' = ToCome
  BY <1>2, <1>3, <1>4, <1>5 DEF ToCome
<1>7. ASSUME NEW i \in 1 .. ToCome PROVE LineAt(i)' = LineAt(i)
  <2>1. CASE i <= Len(pipe)
    BY <1>4, <1>5, <2>1 DEF LineAt
  <2>2. CASE i = Len(pipe) + 1
    BY <1>4, <1>5, <2>2 DEF LineAt
  <2>3. CASE i > Len(pipe) + 1
    <3>1. LineAt(i)' = Tail(out)[i - (Len(pipe) + 1)]
      <4>1. Len(pipe') = Len(pipe) + 1 /\ ~(i <= Len(pipe'))
        BY <1>4, <1>5, <2>3
      <4>2. LineAt(i)' = out'[i - Len(pipe')]
        BY <4>1 DEF LineAt
      <4> QED BY <1>2, <4>1, <4>2
    <3>2. i - (Len(pipe) + 1) \in 1 .. Len(out) - 1
      BY <1>5, <2>3 DEF ToCome
    <3>3. LineAt(i)' = out[i - Len(pipe)]
      BY <1>3, <1>5, <3>1, <3>2
    <3> QED BY <1>5, <2>3, <3>3 DEF LineAt
  <2> QED BY <1>5, <2>1, <2>2, <2>3 DEF ToCome
<1> QED BY <1>2, <1>3, <1>4, <1>6, <1>7

\* readline takes the first line.
LEMMA ReadTakesFirst ==
    ASSUME TypeOK, pipe # <<>>, pipe' = Tail(pipe), out' = out
    PROVE  /\ ToCome' = ToCome - 1
           /\ \A i \in 1 .. ToCome - 1 : LineAt(i)' = LineAt(i + 1)
           /\ pipe' \in Seq(Wire)
<1>1. pipe \in Seq(Wire)
  BY DEF TypeOK
<1>2. /\ Tail(pipe) \in Seq(Wire) /\ Len(Tail(pipe)) = Len(pipe) - 1
      /\ \A i \in 1 .. Len(pipe) - 1 : Tail(pipe)[i] = pipe[i + 1]
  BY ONLY <1>1, pipe # <<>>, HeadTailProperties
<1>3. Len(pipe) \in Nat \ {0} /\ Len(out) \in Nat
  BY StreamType
<1>4. ToCome' = ToCome - 1
  BY <1>2, <1>3 DEF ToCome
<1>5. ASSUME NEW i \in 1 .. ToCome - 1 PROVE LineAt(i)' = LineAt(i + 1)
  <2>1. CASE i <= Len(pipe) - 1
    BY <1>2, <1>3, <2>1 DEF LineAt
  <2>2. CASE i > Len(pipe) - 1
    <3>1. i - (Len(pipe) - 1) = (i + 1) - Len(pipe)
      BY <1>3
    <3> QED BY <1>2, <1>3, <2>2, <3>1 DEF LineAt
  <2> QED BY <1>3, <2>1, <2>2
<1> QED BY <1>2, <1>4, <1>5

-----------------------------------------------------------------------------
(* Answers.                                                                *)

\* An order in which a SELECT returns its rows has all of them.
LEMMA OrderHasAll ==
    ASSUME NEW S, IsFiniteSet(S), NEW order \in SetToSeqs(S)
    PROVE  /\ Cardinality(S) \in Nat
           /\ DOMAIN order = 1 .. Cardinality(S) /\ order \in [1 .. Cardinality(S) -> S]
           /\ \A n \in S : \E i \in 1 .. Cardinality(S) : order[i] = n
<1> DEFINE D == 1 .. Cardinality(S)
<1>1. order \in [D -> S] /\ \A i, j \in D : i # j => order[i] # order[j]
  BY DEF SetToSeqs
<1>2. Cardinality(S) \in Nat
  BY FS_CardinalityType
<1>3. IsFiniteSet(D) /\ Cardinality(D) = Cardinality(S)
  BY <1>2, FS_Interval
<1>4. order \in Injection(D, S)
  BY <1>1 DEF Injection, IsInjective
<1>5. order \in Surjection(D, S)
  BY <1>3, <1>4, FS_Injection
<1> QED BY <1>1, <1>2, <1>5 DEF Surjection

\* The answer of fetch_domain_list: its day, the domains, and a dot after all
\* of them
IsAnswer(a, d, S) ==
    /\ a \in Seq(Wire)
    /\ Len(a) = Cardinality(S) + 4 /\ Cardinality(S) \in Nat
    /\ a[3] = <<"day", d>>
    /\ \A i \in 4 .. Len(a) - 1 : a[i] \in {"name"} \X Stripped(S)
    /\ a[Len(a)] = <<"name", Dot>>
    /\ \A n \in Stripped(S) : \E i \in 4 .. Len(a) - 1 : a[i] = <<"name", n>>

LEMMA AnswerLines ==
    ASSUME NEW d \in 0 .. LastDay, NEW S \in SUBSET NormalNames, IsFiniteSet(S),
           NEW order \in SetToSeqs(S)
    PROVE  IsAnswer(DomainList(d, order), d, S)
<1> DEFINE a == DomainList(d, order)
<1> DEFINE c == Cardinality(S)
           head == <<Version, Time, <<"day", d>>>>
           body == [i \in DOMAIN order |-> <<"name", rstrip(order[i])>>]
           foot == <<<<"name", Dot>>>>
<1>1. /\ c \in Nat /\ DOMAIN order = 1 .. c /\ order \in [1 .. c -> S]
      /\ \A n \in S : \E i \in 1 .. c : order[i] = n
  BY OrderHasAll
<1>2. head \in Seq(Wire) /\ Len(head) = 3 /\ head[3] = <<"day", d>>
  BY DEF Wire
<1>3. foot \in Seq(Wire) /\ Len(foot) = 1 /\ foot[1] = <<"name", Dot>>
  BY DEF Wire
<1>4. /\ body \in Seq(Wire) /\ Len(body) = c
      /\ \A i \in 1 .. c : body[i] = <<"name", rstrip(order[i])>>
  <2>1. body = [i \in 1 .. c |-> <<"name", rstrip(order[i])>>]
    BY <1>1
  <2>2. \A i \in 1 .. c : <<"name", rstrip(order[i])>> \in Wire
    BY <1>1 DEF Wire, Stripped
  <2>3. body \in [1 .. c -> Wire]
    BY <2>1, <2>2
  <2>4. body \in Seq(Wire)
    BY ONLY <1>1, <2>3, c \in Nat
  <2>5. Len(body) = c
    BY ONLY <1>1, <2>3, <2>4, LenProperties, c \in Nat
  <2>6. \A i \in 1 .. c : body[i] = <<"name", rstrip(order[i])>>
    BY <2>1
  <2> QED BY <2>4, <2>5, <2>6
<1> HIDE DEF head, body, foot, c
<1>5. a = (head \o body) \o foot
  BY DEF DomainList, head, body, foot
<1> HIDE DEF a
<1>6. /\ head \o body \in Seq(Wire) /\ Len(head \o body) = 3 + c
      /\ \A i \in 1 .. 3 + c : (head \o body)[i] = IF i <= 3 THEN head[i] ELSE body[i - 3]
  <2>1. head \in Seq(Wire) /\ body \in Seq(Wire)
    BY <1>2, <1>4
  <2>2. /\ head \o body \in Seq(Wire) /\ Len(head \o body) = Len(head) + Len(body)
        /\ \A i \in 1 .. Len(head) + Len(body) : (head \o body)[i] =
               IF i <= Len(head) THEN head[i] ELSE body[i - Len(head)]
    BY ONLY <2>1, ConcatProperties
  <2> QED BY ONLY <1>2, <1>4, <2>2
<1>7. /\ a \in Seq(Wire) /\ Len(a) = 4 + c
      /\ \A i \in 1 .. 4 + c : a[i] = IF i <= 3 + c THEN (head \o body)[i] ELSE foot[i - (3 + c)]
  <2> DEFINE start == head \o body
  <2>1. start \in Seq(Wire) /\ foot \in Seq(Wire) /\ Len(start) = 3 + c /\ Len(foot) = 1
    BY <1>3, <1>6
  <2> HIDE DEF start
  <2>2. /\ start \o foot \in Seq(Wire) /\ Len(start \o foot) = Len(start) + Len(foot)
        /\ \A i \in 1 .. Len(start) + Len(foot) : (start \o foot)[i] =
               IF i <= Len(start) THEN start[i] ELSE foot[i - Len(start)]
    BY ONLY <2>1, ConcatProperties
  <2>3. Len(start) + Len(foot) = 4 + c
    BY <1>1, <2>1
  <2>4. a = start \o foot
    BY <1>5 DEF start
  <2>5. /\ a \in Seq(Wire) /\ Len(a) = 4 + c
        /\ \A i \in 1 .. 4 + c : a[i] = IF i <= 3 + c THEN start[i] ELSE foot[i - (3 + c)]
    BY ONLY <2>1, <2>2, <2>3, <2>4
  <2> QED BY <2>5 DEF start
<1>8. \A i \in 4 .. 3 + c : a[i] = <<"name", rstrip(order[i - 3])>> /\ i - 3 \in 1 .. c
  <2> SUFFICES ASSUME NEW i \in 4 .. 3 + c
               PROVE  a[i] = <<"name", rstrip(order[i - 3])>> /\ i - 3 \in 1 .. c
    OBVIOUS
  <2>1. i \in 1 .. 3 + c /\ i \in 1 .. 4 + c /\ i <= 3 + c /\ ~(i <= 3) /\ i - 3 \in 1 .. c
    BY <1>1
  <2>2. a[i] = (head \o body)[i]
    BY ONLY <1>7, <2>1
  <2>3. (head \o body)[i] = body[i - 3]
    BY ONLY <1>6, <2>1
  <2> QED BY ONLY <1>4, <2>1, <2>2, <2>3
<1>9. a[4 + c] = <<"name", Dot>>
  BY <1>1, <1>3, <1>7
<1>10. a[3] = <<"day", d>>
  <2>1. 3 \in 1 .. 3 + c /\ 3 \in 1 .. 4 + c /\ 3 <= 3 + c
    BY <1>1
  <2>2. a[3] = (head \o body)[3]
    BY ONLY <1>7, <2>1
  <2>3. (head \o body)[3] = head[3]
    BY ONLY <1>6, <2>1
  <2> QED BY ONLY <1>2, <2>2, <2>3
<1>11. Len(a) = c + 4 /\ Len(a) - 1 = 3 + c
  BY <1>1, <1>7
<1>12. \A i \in 4 .. Len(a) - 1 : a[i] \in {"name"} \X Stripped(S)
  <2>1. \A i \in 1 .. c : rstrip(order[i]) \in Stripped(S)
    BY <1>1 DEF Stripped
  <2>2. ASSUME NEW i \in 4 .. 3 + c PROVE a[i] \in {"name"} \X Stripped(S)
    <3>1. i - 3 \in 1 .. c /\ a[i] = <<"name", rstrip(order[i - 3])>>
      BY <1>8, <2>2
    <3>2. rstrip(order[i - 3]) \in Stripped(S)
      BY <2>1, <3>1
    <3> QED BY ONLY <3>1, <3>2
  <2> QED BY <1>11, <2>2
<1>13. ASSUME NEW n \in Stripped(S) PROVE \E i \in 4 .. Len(a) - 1 : a[i] = <<"name", n>>
  <2>1. PICK i \in 1 .. c : rstrip(order[i]) = n
    BY <1>1 DEF Stripped
  <2>2. i + 3 \in 4 .. 3 + c /\ (i + 3) - 3 = i
    BY <1>1
  <2> QED BY <1>8, <1>11, <2>1, <2>2
<1>14. IsAnswer(a, d, S)
  BY <1>1, <1>7, <1>9, <1>10, <1>11, <1>12, <1>13 DEF IsAnswer, c
<1> QED BY <1>14 DEF a

-----------------------------------------------------------------------------
(* Steps that leave the lines to come as they are.                         *)

LEMMA HeadersType ==
    /\ Headers["version"] = 3 /\ Headers["time"] = 2 /\ Headers["day"] = 1 /\ Headers["list"] = 0
    /\ \A s \in ListStages : Headers[s] \in 0 .. 3
BY DEF Headers, ListStages

LEMMA DialogueGoesOn ==
    ASSUME TypeOK, ListAhead, ListSoFar, DetailsAhead, ListsStored,
           UNCHANGED reportd, ToCome' = ToCome,
           \A i \in 1 .. ToCome : LineAt(i)' = LineAt(i),
           alive' => alive,
           today <= today', today' \in Nat,
           \A day \in Days : day < today => sealed'[day] = sealed[day]
    PROVE  ListAhead' /\ ListSoFar' /\ DetailsAhead'
<1>1. ToCome \in Nat /\ today \in Nat /\ asked.day \in 0 .. LastDay /\ stage \in ListStages \cup {"idle", "details"}
  BY StreamType, DialogueBounds DEF TypeOK
<1>2. UNCHANGED <<stage, asked, listing, jobs, rows>>
  BY DEF reportd
<1>3. stage \in ListStages => asked.day \in Days
  BY DEF ListSoFar
<1>4. \A i \in 1 .. ToCome : Broken(i) => Broken(i)'
  BY DEF Broken
<1>5. RightDay' /\ stage \in ListStages => RightDay
  <2> SUFFICES ASSUME RightDay', stage \in ListStages, stage # "list" PROVE RightDay
    BY DEF RightDay
  <2>1. PICK h \in 1 .. 3 : h = Headers[stage] /\ h = Headers[stage]'
    BY <1>2, HeadersType DEF ListStages
  <2>2. h <= ToCome /\ LineAt(h)' = <<"day", asked.day>>
    BY <1>2, <2>1 DEF RightDay, LineAt
  <2>3. LineAt(h)' = LineAt(h)
    BY <1>1, <2>1, <2>2
  <2> QED BY <2>1, <2>2, <2>3 DEF RightDay
<1>6. ListAhead'
  <2> SUFFICES ASSUME stage \in ListStages, RightDay' PROVE
          /\ asked.day < today'
          /\ \A i \in Headers[stage] + 1 .. ToCome :
                 \/ Broken(i)'
                 \/ /\ LineAt(i)' \in {"name"} \X (Listed(asked.day)' \cup {Dot})
                    /\ LineAt(i)' = <<"name", Dot>> /\ ~DotListed(asked.day)' =>
                           i = ToCome /\ Listed(asked.day)' \subseteq NamesBefore(i)'
    BY <1>2 DEF ListAhead
  <2>1. asked.day < today /\ sealed'[asked.day] = sealed[asked.day]
    BY <1>3, <1>5 DEF ListAhead
  <2>4. Listed(asked.day)' = Listed(asked.day) /\ (DotListed(asked.day)' <=> DotListed(asked.day))
    BY <1>2, <2>1 DEF Listed, DotListed
  <2>2. ASSUME NEW i \in Headers[stage] + 1 .. ToCome
        PROVE  i \in 1 .. ToCome /\ LineAt(i)' = LineAt(i) /\ NamesBefore(i)' = NamesBefore(i)
    <3>1. Headers[stage] \in 0 .. 3
      BY HeadersType
    <3>2. i \in 1 .. ToCome /\ \A j \in Headers[stage] + 1 .. i - 1 : j \in 1 .. ToCome
      BY <1>1, <3>1
    <3> QED BY <1>2, <3>2 DEF NamesBefore
  <2>3. \A i \in Headers[stage] + 1 .. ToCome :
                 \/ Broken(i)
                 \/ /\ LineAt(i) \in {"name"} \X (Listed(asked.day) \cup {Dot})
                    /\ LineAt(i) = <<"name", Dot>> /\ ~DotListed(asked.day) =>
                           i = ToCome /\ Listed(asked.day) \subseteq NamesBefore(i)
    BY <1>5 DEF ListAhead
  <2> QED BY <1>1, <1>4, <2>1, <2>2, <2>3, <2>4
<1>7. ListSoFar'
  <2>1. stage = "list" => sealed'[asked.day] = sealed[asked.day]
    BY <1>3 DEF ListAhead, RightDay, ListStages
  <2> QED BY <1>2, <2>1 DEF ListSoFar, Listed, Row
<1>8. DetailsAhead'
  <2>1. Row(asked.name)' = Row(asked.name)
    BY <1>2 DEF Row
  <2>2. today' > asked.day + 1 \/ ~(today > asked.day + 1)
    BY <1>1
  <2>4. stage = "details" => asked.day \in Days /\ asked.day < today
    BY DEF DetailsAhead, ListsStored, Row
  <2>3. ASSUME stage = "details", NEW i \in 1 .. ToCome
        PROVE  \/ Broken(i)'
               \/ LineAt(i)' = <<"json", asked.day>>
               \/ /\ LineAt(i)' = <<"json", Void>>
                  /\ today' > asked.day + 1 \/ asked.name \notin sealed'[asked.day]
    <3>1. sealed'[asked.day] = sealed[asked.day]
      BY <2>3, <2>4
    <3> QED BY <1>4, <2>2, <2>3, <3>1 DEF DetailsAhead
  <2> QED BY <1>2, <2>1, <2>3 DEF DetailsAhead
<1> QED BY <1>6, <1>7, <1>8

-----------------------------------------------------------------------------
(* The steps of the collectd.                                              *)

LEMMA NormalNamesAre == \A name \in Notations : normalize_domain_name(name) \in NormalNames
BY DEF NormalNames

LEMMA SameStream ==
    ASSUME UNCHANGED <<pipe, out>>
    PROVE  ToCome' = ToCome /\ \A i \in 1 .. ToCome : LineAt(i)' = LineAt(i)
BY DEF ToCome, LineAt

LEMMA CountStep ==
    ASSUME DialogueInv, NEW name \in Notations, Count(name)
    PROVE  DialogueInv'
<1> USE DEF DialogueInv
<1>1. /\ live' = live \cup {normalize_domain_name(name)}
      /\ UNCHANGED <<date, today, yest, sealed, out, alive, pipe, deaths, stage, asked, listing, jobs, rows>>
      /\ UNCHANGED reportd
  BY DEF Count, fetcher, reportd
<1>2. live' \subseteq NormalNames /\ IsFiniteSet(live')
  <2>1. live \subseteq NormalNames /\ IsFiniteSet(live)
    BY DEF TypeOK
  <2>2. live' \subseteq NormalNames
    BY <1>1, <2>1, NormalNamesAre
  <2>3. IsFiniteSet(live')
    BY ONLY <1>1, <2>1, FS_AddElement
  <2> QED BY <2>2, <2>3
<1>3. TypeOK'
  BY <1>1, <1>2 DEF TypeOK
<1>4. ListAhead' /\ ListSoFar' /\ DetailsAhead'
  BY <1>1, SameStream, DialogueGoesOn, DialogueBounds DEF TypeOK
<1>5. FileIsLatest' /\ ListsStored' /\ DetailsOfTheDay'
  BY <1>1 DEF FileIsLatest, ListsStored, DetailsOfTheDay, NamesOf, Listed, DotListed
<1> QED BY <1>1, <1>3, <1>4, <1>5

LEMMA MidnightStep ==
    ASSUME DialogueInv, Midnight
    PROVE  DialogueInv'
<1> USE DEF DialogueInv
<1>1. /\ date < LastDay + 1 /\ date' = date + 1
      /\ UNCHANGED <<today, live, yest, sealed, out, alive, pipe, deaths, stage, asked, listing, jobs, rows>>
      /\ UNCHANGED reportd
  BY DEF Midnight, fetcher, reportd
<1>2. date' \in 1 .. LastDay + 1 /\ today' \in 1 .. date'
  BY <1>1, DialogueBounds DEF TypeOK
<1>3. TypeOK'
  BY <1>1, <1>2 DEF TypeOK
<1>4. ListAhead' /\ ListSoFar' /\ DetailsAhead'
  BY <1>1, SameStream, DialogueGoesOn, DialogueBounds DEF TypeOK
<1>5. FileIsLatest' /\ ListsStored' /\ DetailsOfTheDay'
  BY <1>1 DEF FileIsLatest, ListsStored, DetailsOfTheDay, NamesOf, Listed, DotListed
<1> QED BY <1>1, <1>3, <1>4, <1>5

LEMMA UnlinkStep ==
    ASSUME DialogueInv, Unlink
    PROVE  DialogueInv'
<1> USE DEF DialogueInv
<1>1. /\ yest' = NoFile
      /\ UNCHANGED <<date, today, live, sealed, out, alive, pipe, deaths, stage, asked, listing, jobs, rows>>
      /\ UNCHANGED reportd
  BY DEF Unlink, fetcher, reportd
<1>2. TypeOK'
  BY <1>1 DEF TypeOK
<1>3. ListAhead' /\ ListSoFar' /\ DetailsAhead'
  BY <1>1, SameStream, DialogueGoesOn, DialogueBounds DEF TypeOK
<1>4. FileIsLatest' /\ ListsStored' /\ DetailsOfTheDay'
  BY <1>1 DEF FileIsLatest, ListsStored, DetailsOfTheDay, NamesOf, Listed, DotListed
<1> QED BY <1>1, <1>2, <1>3, <1>4

LEMMA RenameStep ==
    ASSUME DialogueInv, Rename
    PROVE  DialogueInv'
<1> USE DEF DialogueInv
<1>1. /\ today < date /\ today' = today + 1 /\ live' = {}
      /\ yest' = [day |-> today, names |-> live]
      /\ sealed' = [sealed EXCEPT ![today] = live]
      /\ UNCHANGED <<date, out, alive, pipe, deaths, stage, asked, listing, jobs, rows>>
      /\ UNCHANGED reportd
  BY DEF Rename, fetcher, reportd
<1>2. today \in Days /\ today' \in Nat /\ today' \in 1 .. date /\ today <= today' /\ today' > 1 /\ today' - 1 = today
  <2>1. date \in 1 .. LastDay + 1 /\ today \in 1 .. date /\ LastDay \in Nat
    BY DialogueBounds DEF TypeOK
  <2>2. today' = today + 1 /\ today < date
    BY <1>1
  <2> QED BY ONLY <2>1, <2>2 DEF Days
<1>3. /\ sealed' \in [Days -> SUBSET NormalNames] /\ sealed'[today] = live
      /\ \A day \in Days : day # today => sealed'[day] = sealed[day]
  BY <1>1, <1>2 DEF TypeOK
<1>4. TypeOK'
  <2>1. IsFiniteSet(live') /\ \A day \in Days : IsFiniteSet(sealed'[day])
    BY <1>1, <1>3, FS_EmptySet DEF TypeOK
  <2> QED BY <1>1, <1>2, <1>3, <2>1 DEF TypeOK
<1>5. ListAhead' /\ ListSoFar' /\ DetailsAhead'
  <2>1. \A day \in Days : day < today => sealed'[day] = sealed[day]
    BY <1>2, <1>3
  <2> QED BY <1>1, <1>2, <2>1, SameStream, DialogueGoesOn
<1>6. FileIsLatest'
  BY <1>1, <1>2, <1>3 DEF FileIsLatest
<1>7. ListsStored'
  <2>1. \A day \in Days : day >= today' => day # today /\ day >= today
    BY <1>1, <1>2 DEF Days
  <2>2. \A day \in Days : day < today => day # today /\ day < today'
    BY <1>1, <1>2 DEF Days
  <2>3. \A day \in Days : day # today =>
            Listed(day)' = Listed(day) /\ (DotListed(day)' <=> DotListed(day))
    BY <1>3 DEF Listed, DotListed
  <2> QED BY <1>1, <1>3, <2>1, <2>2, <2>3 DEF ListsStored, NamesOf
<1>8. DetailsOfTheDay'
  <2>1. \A row \in rows : row.day \in Days /\ sealed'[row.day] = sealed[row.day]
    BY <1>2, <1>3 DEF ListsStored
  <2>2. \A row \in rows : today > row.day + 1 => today' > row.day + 1
    BY <1>1, <1>2, <2>1 DEF Days
  <2> QED BY <1>1, <2>1, <2>2 DEF DetailsOfTheDay
<1> QED BY <1>1, <1>4, <1>5, <1>6, <1>7, <1>8

-----------------------------------------------------------------------------
(* The steps of the fetcher.                                               *)

LEMMA WriteStep ==
    ASSUME DialogueInv, Write
    PROVE  DialogueInv'
<1> USE DEF DialogueInv
<1>1. /\ alive
      /\ UNCHANGED <<date, today, live, yest, sealed, alive, deaths, stage, asked, listing, jobs, rows>>
      /\ UNCHANGED reportd
  BY DEF Write, collectd, reportd
<1>2. /\ ToCome' = ToCome /\ \A i \in 1 .. ToCome : LineAt(i)' = LineAt(i)
      /\ pipe' \in Seq(Wire) /\ out' \in Seq(Wire)
  BY WriteKeepsStream
<1>3. TypeOK'
  BY <1>1, <1>2 DEF TypeOK
<1>4. ListAhead' /\ ListSoFar' /\ DetailsAhead'
  BY <1>1, <1>2, DialogueGoesOn, DialogueBounds DEF TypeOK
<1>5. FileIsLatest' /\ ListsStored' /\ DetailsOfTheDay'
  BY <1>1 DEF FileIsLatest, ListsStored, DetailsOfTheDay, NamesOf, Listed, DotListed
<1> QED BY <1>1, <1>3, <1>4, <1>5

LEMMA ExitStep ==
    ASSUME DialogueInv, Exit
    PROVE  DialogueInv'
<1> USE DEF DialogueInv
<1>1. /\ out = <<>> /\ alive' = FALSE
      /\ UNCHANGED <<date, today, live, yest, sealed, out, pipe, deaths, stage, asked, listing, jobs, rows>>
      /\ UNCHANGED reportd
  BY DEF Exit, collectd, reportd
<1>2. TypeOK'
  BY <1>1 DEF TypeOK
<1>3. ListAhead' /\ ListSoFar' /\ DetailsAhead'
  BY <1>1, SameStream, DialogueGoesOn, DialogueBounds DEF TypeOK
<1>4. FileIsLatest' /\ ListsStored' /\ DetailsOfTheDay'
  BY <1>1 DEF FileIsLatest, ListsStored, DetailsOfTheDay, NamesOf, Listed, DotListed
<1> QED BY <1>1, <1>2, <1>3, <1>4

\* Of a fetcher that dies come the lines in the pipe, and maybe half a line.
LEMMA PerishCutsStream ==
    ASSUME TypeOK, Perish
    PROVE  /\ pipe' \in Seq(Wire) /\ out' = <<>>
           /\ ToCome' \in Nat /\ ToCome' <= ToCome
           /\ out = <<>> => ToCome' = ToCome
           /\ \A i \in 1 .. ToCome' :
                  \/ i = ToCome' /\ LineAt(i)' = <<"name", Fragment>>
                  \/ i \in 1 .. Len(pipe) /\ LineAt(i)' = LineAt(i)
                  \/ /\ i = ToCome' /\ i = Len(pipe) + 1
                     /\ LineAt(i)' = <<"name", Dot>>
                     /\ LineAt(i)[1] = "name" /\ BeginsWithDot(LineAt(i)[2])
<1>1. pipe \in Seq(Wire) /\ out \in Seq(Wire) /\ Len(pipe) \in Nat /\ Len(out) \in Nat
  BY StreamType DEF TypeOK
<1>2. out' = <<>> /\ Len(out') = 0
  BY DEF Perish
<1>3. CASE UNCHANGED pipe
  <2>1. ToCome' = Len(pipe) /\ ToCome = Len(pipe) + Len(out)
    BY <1>1, <1>2, <1>3 DEF ToCome
  <2>2. \A i \in 1 .. Len(pipe) : LineAt(i)' = LineAt(i)
    BY <1>1, <1>3 DEF LineAt
  <2>3. out = <<>> => Len(out) = 0
    OBVIOUS
  <2> QED BY <1>1, <1>2, <1>3, <2>1, <2>2, <2>3
<1>4. ASSUME NEW half \in HalfLines(Head(out)), out # <<>>,
             pipe' = Append(pipe, <<"name", half>>)
      PROVE  /\ pipe' \in Seq(Wire) /\ out' = <<>>
             /\ ToCome' \in Nat /\ ToCome' <= ToCome
             /\ out = <<>> => ToCome' = ToCome
             /\ \A i \in 1 .. ToCome' :
                    \/ i = ToCome' /\ LineAt(i)' = <<"name", Fragment>>
                    \/ i \in 1 .. Len(pipe) /\ LineAt(i)' = LineAt(i)
                    \/ /\ i = ToCome' /\ i = Len(pipe) + 1
                       /\ LineAt(i)' = <<"name", Dot>>
                       /\ LineAt(i)[1] = "name" /\ BeginsWithDot(LineAt(i)[2])
  <2>1. /\ half \in {Fragment, Dot} /\ <<"name", half>> \in Wire
        /\ half # Fragment => Head(out)[1] = "name" /\ BeginsWithDot(Head(out)[2])
    BY <1>4 DEF Wire, HalfLines
  <2>2. /\ pipe' \in Seq(Wire) /\ Len(pipe') = Len(pipe) + 1
        /\ \A i \in 1 .. Len(pipe) : pipe'[i] = pipe[i]
        /\ pipe'[Len(pipe) + 1] = <<"name", half>>
    BY ONLY <1>1, <1>4, <2>1, AppendProperties
  <2>3. Len(out) >= 1
    BY ONLY <1>1, <1>4, EmptySeq
  <2>4. ToCome' = Len(pipe) + 1 /\ ToCome = Len(pipe) + Len(out)
    BY <1>1, <1>2, <2>2 DEF ToCome
  <2>5. \A i \in 1 .. Len(pipe) : LineAt(i)' = LineAt(i)
    BY <1>1, <2>2 DEF LineAt
  <2>6. LineAt(Len(pipe) + 1) = Head(out) /\ \A i : i = Len(pipe) + 1 => LineAt(i) = Head(out)
    <3>1. ~(Len(pipe) + 1 <= Len(pipe)) /\ (Len(pipe) + 1) - Len(pipe) = 1
      BY <1>1
    <3>2. Head(out) = out[1]
      BY ONLY <1>1, <1>4, EmptySeq
    <3> QED BY <3>1, <3>2 DEF LineAt
  <2>7. ASSUME NEW i \in 1 .. ToCome', i = Len(pipe) + 1
        PROVE  /\ i = ToCome' /\ LineAt(i)' = <<"name", half>>
               /\ half # Fragment => LineAt(i)[1] = "name" /\ BeginsWithDot(LineAt(i)[2])
    <3>1. LineAt(i)' = <<"name", half>>
      BY <1>1, <2>2, <2>7 DEF LineAt
    <3> QED BY <2>1, <2>4, <2>6, <2>7, <3>1
  <2>8. \A i \in 1 .. ToCome' : i \in 1 .. Len(pipe) \/ i = Len(pipe) + 1
    BY <1>1, <2>4
  <2>9. \A i \in 1 .. ToCome' :
            \/ i = ToCome' /\ LineAt(i)' = <<"name", Fragment>>
            \/ i \in 1 .. Len(pipe) /\ LineAt(i)' = LineAt(i)
            \/ /\ i = ToCome' /\ i = Len(pipe) + 1
               /\ LineAt(i)' = <<"name", Dot>>
               /\ LineAt(i)[1] = "name" /\ BeginsWithDot(LineAt(i)[2])
    BY <2>1, <2>5, <2>7, <2>8
  <2> QED BY <1>1, <1>2, <1>4, <2>2, <2>3, <2>4, <2>9
<1> QED BY <1>3, <1>4 DEF Perish

LEMMA PerishStep ==
    ASSUME DialogueInv, Perish
    PROVE  DialogueInv'
<1> USE DEF DialogueInv
<1>1. /\ alive /\ alive' = FALSE /\ out' = <<>>
      /\ UNCHANGED <<date, today, live, yest, sealed, stage, asked, listing, jobs, rows>>
      /\ UNCHANGED reportd
  BY DEF Perish, collectd, reportd
<1>2. /\ pipe' \in Seq(Wire) /\ ToCome' \in Nat /\ ToCome' <= ToCome
      /\ out = <<>> => ToCome' = ToCome
      /\ \A i \in 1 .. ToCome' :
             \/ i = ToCome' /\ LineAt(i)' = <<"name", Fragment>>
             \/ i \in 1 .. Len(pipe) /\ LineAt(i)' = LineAt(i)
             \/ /\ i = ToCome' /\ i = Len(pipe) + 1
                /\ LineAt(i)' = <<"name", Dot>>
                /\ LineAt(i)[1] = "name" /\ BeginsWithDot(LineAt(i)[2])
  BY PerishCutsStream
<1>3. Len(pipe) \in Nat /\ Len(out) \in Nat /\ ToCome = Len(pipe) + Len(out) /\ (out = <<>> <=> Len(out) = 0)
  BY StreamType DEF ToCome
<1>4. TypeOK'
  BY <1>1, <1>2, EmptySeq DEF TypeOK
<1>5. \A i : ~Broken(i)
  BY <1>1 DEF Broken
<1>6. \A i \in 1 .. ToCome' : i = ToCome' /\ LineAt(i)' = <<"name", Fragment>> => Broken(i)'
  BY <1>1 DEF Broken
<1>7. stage \in ListStages => Headers[stage] \in 0 .. 3 /\ Headers[stage]' = Headers[stage]
  BY <1>1, HeadersType
<1>8. RightDay' /\ stage \in ListStages => RightDay
  <2> SUFFICES ASSUME RightDay', stage \in ListStages, stage # "list" PROVE RightDay
    BY DEF RightDay
  <2>1. PICK h \in 1 .. 3 : h = Headers[stage] /\ h = Headers[stage]'
    BY <1>1, HeadersType DEF ListStages
  <2>2. h <= ToCome' /\ LineAt(h)' = <<"day", asked.day>>
    BY <1>1, <2>1 DEF RightDay, LineAt
  <2>3. LineAt(h) = <<"day", asked.day>>
    BY <1>2, <2>1, <2>2, LinesDiffer
  <2>4. h <= ToCome
    BY <1>2, <1>3, <2>1, <2>2
  <2> QED BY <2>1, <2>3, <2>4 DEF RightDay
<1>9. ListAhead'
  <2> SUFFICES ASSUME stage \in ListStages, RightDay' PROVE
          /\ asked.day < today
          /\ \A i \in Headers[stage] + 1 .. ToCome' :
                 \/ Broken(i)'
                 \/ /\ LineAt(i)' \in {"name"} \X (Listed(asked.day) \cup {Dot})
                    /\ LineAt(i)' = <<"name", Dot>> /\ ~DotListed(asked.day) =>
                           i = ToCome' /\ Listed(asked.day) \subseteq NamesBefore(i)'
    BY <1>1, <1>7 DEF ListAhead, Listed, DotListed
  <2>1. asked.day < today
    BY <1>8 DEF ListAhead
  <2>2. ASSUME NEW i \in Headers[stage] + 1 .. ToCome', ~Broken(i)'
        PROVE  /\ LineAt(i)' \in {"name"} \X (Listed(asked.day) \cup {Dot})
               /\ LineAt(i)' = <<"name", Dot>> /\ ~DotListed(asked.day) =>
                      i = ToCome' /\ Listed(asked.day) \subseteq NamesBefore(i)'
    <3>1. i \in 1 .. ToCome' /\ i \in Headers[stage] + 1 .. ToCome
      BY <1>2, <1>3, <1>7
    <3>2. \/ i \in 1 .. Len(pipe) /\ LineAt(i)' = LineAt(i)
          \/ /\ i = ToCome' /\ LineAt(i)' = <<"name", Dot>>
             /\ LineAt(i)[1] = "name" /\ BeginsWithDot(LineAt(i)[2])
      BY <1>2, <1>6, <2>2, <3>1
    <3>3. /\ LineAt(i) \in {"name"} \X (Listed(asked.day) \cup {Dot})
          /\ LineAt(i) = <<"name", Dot>> /\ ~DotListed(asked.day) =>
                 i = ToCome /\ Listed(asked.day) \subseteq NamesBefore(i)
      BY <1>5, <1>8, <3>1 DEF ListAhead
    <3>4. i = ToCome => i = ToCome'
      BY <1>2, <1>3, <3>1
    <3>5. NamesBefore(i)' = NamesBefore(i)
      <4>1. ASSUME NEW j \in Headers[stage] + 1 .. i - 1 PROVE LineAt(j)' = LineAt(j)
        <5>1. j \in 1 .. ToCome' /\ j # ToCome'
          BY <1>2, <1>7, <3>1
        <5> QED BY <1>2, <5>1
      <4> QED BY <1>1, <1>7, <4>1 DEF NamesBefore
    <3>6. CASE LineAt(i)' = LineAt(i)
      BY <3>3, <3>4, <3>5, <3>6
    <3>7. CASE /\ i = ToCome' /\ LineAt(i)' = <<"name", Dot>>
               /\ LineAt(i)[1] = "name" /\ BeginsWithDot(LineAt(i)[2])
      <4>1. PICK n \in Listed(asked.day) \cup {Dot} : LineAt(i) = <<"name", n>>
        BY <3>3
      <4>2. BeginsWithDot(n)
        BY <3>7, <4>1
      <4>3. n \in Listed(asked.day) => DotListed(asked.day)
        <5>1. asked.day \in Days /\ sealed[asked.day] \subseteq NormalNames
          BY DEF ListSoFar, TypeOK
        <5> SUFFICES ASSUME n \in Listed(asked.day) PROVE DotListed(asked.day)
          OBVIOUS
        <5>2. PICK m \in sealed[asked.day] : n = rstrip(m)
          BY DEF Listed, Stripped
        <5>3. BeginsWithDot(m)
          BY <4>2, <5>1, <5>2, StrippedName
        <5> QED BY <5>2, <5>3 DEF DotListed
      <4>4. CASE n = Dot
        BY <3>3, <3>4, <3>5, <3>7, <4>1, <4>4
      <4>5. CASE n # Dot
        BY <3>7, <4>1, <4>3, <4>5
      <4> QED BY <4>4, <4>5
    <3> QED BY <3>2, <3>6, <3>7
  <2> QED BY <2>1, <2>2
<1>10. ListSoFar'
  BY <1>1 DEF ListSoFar, Listed
<1>11. DetailsAhead'
  <2>1. Row(asked.name)' = Row(asked.name)
    BY <1>1 DEF Row
  <2>2. ASSUME stage = "details", NEW i \in 1 .. ToCome', ~Broken(i)'
        PROVE  \/ LineAt(i)' = <<"json", asked.day>>
               \/ /\ LineAt(i)' = <<"json", Void>>
                  /\ today > asked.day + 1 \/ asked.name \notin sealed[asked.day]
    <3>1. i \in 1 .. ToCome
      BY <1>2, <1>3
    <3>2. \/ LineAt(i) = <<"json", asked.day>>
          \/ /\ LineAt(i) = <<"json", Void>>
             /\ today > asked.day + 1 \/ asked.name \notin sealed[asked.day]
      BY <1>5, <2>2, <3>1 DEF DetailsAhead
    <3>3. LineAt(i)[1] # "name"
      BY <3>2
    <3>4. LineAt(i)' = LineAt(i)
      BY <1>2, <1>6, <2>2, <3>3
    <3> QED BY <3>2, <3>4
  <2> QED BY <1>1, <2>1, <2>2 DEF DetailsAhead
<1>12. FileIsLatest' /\ ListsStored' /\ DetailsOfTheDay'
  BY <1>1 DEF FileIsLatest, ListsStored, DetailsOfTheDay, NamesOf, Listed, DotListed
<1> QED BY <1>1, <1>4, <1>9, <1>10, <1>11, <1>12

-----------------------------------------------------------------------------
(* The steps of the reader.                                                *)

LEMMA NewStream ==
    ASSUME pipe' = <<>>, out' \in Seq(Wire)
    PROVE  ToCome' = Len(out') /\ Len(out') \in Nat /\ \A i \in 1 .. ToCome' : LineAt(i)' = out'[i]
<1>1. Len(pipe') = 0 /\ Len(out') \in Nat
  BY LenProperties, EmptySeq
<1>2. \A i \in 1 .. ToCome' : ~(i <= Len(pipe')) /\ i - Len(pipe') = i
  BY <1>1 DEF ToCome
<1> QED BY <1>1, <1>2 DEF ToCome, LineAt

LEMMA AskListStep ==
    ASSUME DialogueInv, NEW day \in Days, AskList(day)
    PROVE  DialogueInv'
<1> USE DEF DialogueInv
<1>1. /\ alive' = TRUE /\ pipe' = <<>> /\ stage' = "version" /\ listing' = {}
      /\ asked' = [day |-> day, name |-> Dot]
      /\ jobs[day].status = "open"
      /\ yest' = IF yest = NoFile THEN BlankFile ELSE yest
      /\ out' \in IF yest \in {NoFile, BlankFile} THEN {<<>>} ELSE ListAnswers(yest, day)
      /\ UNCHANGED <<date, today, live, sealed, deaths, jobs, rows>>
  BY DEF AskList, Run
<1>2. asked'.day = day /\ day \in 0 .. LastDay /\ today \in Nat
  BY <1>1, DialogueBounds DEF Days, TypeOK
<1>3. /\ out' \in Seq(Wire)
      /\ RightDay' =>
           /\ day < today
           /\ \A i \in 4 .. ToCome' :
                 /\ LineAt(i)' \in {"name"} \X (Listed(day) \cup {Dot})
                 /\ LineAt(i)' = <<"name", Dot>> /\ ~DotListed(day) =>
                        i = ToCome' /\ Listed(day) \subseteq NamesBefore(i)'
  <2>1. CASE out' = <<>>
    <3>1. out' \in Seq(Wire) /\ Len(out') = 0
      BY <2>1, EmptySeq
    <3>2. ToCome' = 0
      BY <1>1, <3>1, NewStream
    <3>3. ~RightDay'
      BY <1>1, <3>2, HeadersType DEF RightDay
    <3> QED BY <3>1, <3>3
  <2>2. CASE yest \notin {NoFile, BlankFile} /\ out' \in ListAnswers(yest, day)
    <3> DEFINE d == yest.day
               S == IF d = day THEN yest.names ELSE {}
    <3>1. d = today - 1 /\ yest.names = sealed[today - 1] /\ today > 1
      BY <2>2 DEF FileIsLatest
    <3>2. today - 1 \in Days /\ d \in 0 .. LastDay /\ d \in Days
      <4>1. date \in 1 .. LastDay + 1 /\ today \in 1 .. date /\ LastDay \in Nat
        BY DialogueBounds DEF TypeOK
      <4> QED BY ONLY <3>1, <4>1 DEF Days
    <3>3. S \in SUBSET NormalNames /\ IsFiniteSet(S)
      BY <3>1, <3>2, FS_EmptySet DEF TypeOK
    <3>4. PICK order \in SetToSeqs(S) : out' = DomainList(d, order)
      BY <2>2 DEF ListAnswers
    <3> HIDE DEF S, d
    <3>5. /\ out' \in Seq(Wire)
          /\ Len(out') = Cardinality(S) + 4 /\ Cardinality(S) \in Nat
          /\ out'[3] = <<"day", d>>
          /\ \A i \in 4 .. Len(out') - 1 : out'[i] \in {"name"} \X Stripped(S)
          /\ out'[Len(out')] = <<"name", Dot>>
          /\ \A n \in Stripped(S) : \E i \in 4 .. Len(out') - 1 : out'[i] = <<"name", n>>
      <4>1. IsAnswer(DomainList(d, order), d, S)
        BY ONLY <3>2, <3>3, AnswerLines
      <4> QED BY <3>4, <4>1 DEF IsAnswer
    <3>6. ToCome' = Len(out') /\ Len(out') \in Nat /\ \A i \in 1 .. ToCome' : LineAt(i)' = out'[i]
      BY <1>1, <3>5, NewStream
    <3>7. ASSUME RightDay' PROVE d = day /\ S = sealed[day] /\ day < today
      <4>1. LineAt(3)' = <<"day", day>>
        BY <1>1, <1>2, <3>7, HeadersType DEF RightDay, LineAt
      <4>2. d = day
        BY <3>5, <3>6, <4>1, LinesDiffer
      <4> QED BY <1>2, <3>1, <4>2 DEF S
    <3>8. ASSUME NEW i \in 4 .. ToCome'
          PROVE  /\ LineAt(i)' \in {"name"} \X (Stripped(S) \cup {Dot})
                 /\ LineAt(i)' = <<"name", Dot>> /\ Dot \notin Stripped(S) => i = ToCome'
      <4>1. LineAt(i)' = out'[i] /\ (i \in 4 .. Len(out') - 1 \/ i = Len(out'))
        BY <3>6
      <4>2. CASE i \in 4 .. Len(out') - 1
        BY <3>5, <4>1, <4>2
      <4>3. CASE i = Len(out')
        <5>1. LineAt(i)' = <<"name", Dot>> /\ i = ToCome'
          BY <3>5, <3>6, <4>1, <4>3
        <5> QED BY <5>1
      <4> QED BY <4>1, <4>2, <4>3
    <3>9. ASSUME NEW i \in 4 .. ToCome', i = ToCome' PROVE Stripped(S) \subseteq NamesBefore(i)'
      <4> SUFFICES ASSUME NEW n \in Stripped(S) PROVE n \in NamesBefore(i)'
        OBVIOUS
      <4>1. PICK j \in 4 .. Len(out') - 1 : out'[j] = <<"name", n>>
        BY <3>5
      <4>2. j \in 3 + 1 .. i - 1 /\ LineAt(j)' = <<"name", n>>
        <5>1. i = Len(out') /\ Len(out') \in Nat
          BY <3>6, <3>9
        <5>2. j \in 3 + 1 .. i - 1 /\ j \in 1 .. Len(out')
          BY <5>1
        <5> QED BY <3>6, <4>1, <5>2
      <4>3. n \in {LineAt(k)'[2] : k \in 3 + 1 .. i - 1}
        BY <4>2
      <4> QED BY <1>1, <4>3, HeadersType DEF NamesBefore
    <3>10. ASSUME Dot \in Stripped(S) PROVE \E n \in S : BeginsWithDot(n)
      <4>1. PICK n \in S : rstrip(n) = Dot
        BY <3>10 DEF Stripped
      <4>2. BeginsWithDot(Dot)
        BY DEF BeginsWithDot, Dot, Name
      <4> QED BY <3>3, <4>1, <4>2, StrippedName
    <3> QED BY <3>5, <3>7, <3>8, <3>9, <3>10 DEF Listed, DotListed
  <2> QED BY <1>1, <2>1, <2>2
<1>4. TypeOK'
  BY <1>1, <1>2, <1>3, EmptySeq DEF TypeOK, ListStages
<1>5. ListAhead'
  BY <1>1, <1>2, <1>3, HeadersType DEF ListAhead, Listed, DotListed
<1>6. FileIsLatest'
  BY <1>1 DEF FileIsLatest
<1>7. ListSoFar' /\ DetailsAhead'
  BY <1>1, <1>2 DEF ListSoFar, DetailsAhead, ListStages
<1>8. ListsStored' /\ DetailsOfTheDay'
  BY <1>1 DEF ListsStored, DetailsOfTheDay, NamesOf, Listed, DotListed
<1> QED BY <1>1, <1>4, <1>5, <1>6, <1>7, <1>8

\* Reading a line on: what was to come after it is still to come.
LEMMA ListStillAhead ==
    ASSUME TypeOK, ListAhead, stage \in ListStages, RightDay, pipe # <<>>,
           NEW next \in ListStages, GoOn(next),
           \/ /\ Headers[stage] >= 1 /\ Headers[next] = Headers[stage] - 1
              /\ listing' = listing
           \/ /\ stage = "list" /\ next = "list"
              /\ listing' = listing \cup {Row(LineAt(1)[2])}
    PROVE  ListAhead'
<1> DEFINE h == Headers[stage]
           g == Headers[next]
<1>1. /\ stage' = next /\ pipe' = Tail(pipe) /\ out' = out /\ asked' = asked
      /\ alive' = alive /\ sealed' = sealed /\ today' = today
  BY DEF GoOn, collectd
<1>2. h \in 0 .. 3 /\ g \in 0 .. 3 /\ Headers[stage]' = g
  BY <1>1, HeadersType
<1>3. ToCome' = ToCome - 1 /\ \A i \in 1 .. ToCome - 1 : LineAt(i)' = LineAt(i + 1)
  BY <1>1, ReadTakesFirst
<1>4. ToCome \in Nat /\ ToCome >= 1
  BY StreamType
<1>5. \/ h >= 1 /\ g = h - 1 /\ listing' = listing
      \/ h = 0 /\ g = 0 /\ listing' = listing \cup {Row(LineAt(1)[2])}
  BY HeadersType
<1>6. /\ asked.day < today
      /\ \A i \in h + 1 .. ToCome :
             \/ Broken(i)
             \/ /\ LineAt(i) \in {"name"} \X (Listed(asked.day) \cup {Dot})
                /\ LineAt(i) = <<"name", Dot>> /\ ~DotListed(asked.day) =>
                       i = ToCome /\ Listed(asked.day) \subseteq NamesBefore(i)
  BY DEF ListAhead
<1>7. ASSUME NEW i \in g + 1 .. ToCome'
      PROVE  \/ Broken(i)'
             \/ /\ LineAt(i)' \in {"name"} \X (Listed(asked.day) \cup {Dot})
                /\ LineAt(i)' = <<"name", Dot>> /\ ~DotListed(asked.day) =>
                       i = ToCome' /\ Listed(asked.day) \subseteq NamesBefore(i)'
  <2> DEFINE k == i + 1
  <2>1. i \in 1 .. ToCome - 1 /\ LineAt(i)' = LineAt(k) /\ k \in h + 1 .. ToCome /\ k - 1 = i
    BY <1>2, <1>3, <1>4, <1>5
  <2>2. k = ToCome => i = ToCome'
    BY <1>3, <1>4, <2>1
  <2>3. Broken(k) => Broken(i)'
    BY <1>1, <2>1, <2>2 DEF Broken
  <2>4. NamesBefore(k) \subseteq NamesBefore(i)'
    <3>1. NamesBefore(k) = {row.name : row \in listing} \cup {LineAt(j)[2] : j \in h + 1 .. i}
      BY <2>1 DEF NamesBefore
    <3>2. NamesBefore(i)' = {row.name : row \in listing'} \cup {LineAt(j)'[2] : j \in g + 1 .. i - 1}
      BY <1>2 DEF NamesBefore
    <3>3. \A n \in {row.name : row \in listing} : n \in NamesBefore(i)'
      BY <1>5, <3>2
    <3>4. ASSUME NEW j \in h + 1 .. i PROVE LineAt(j)[2] \in NamesBefore(i)'
      <4>1. CASE h = 0 /\ j = 1
        <5>1. Row(LineAt(1)[2]) \in listing' /\ Row(LineAt(1)[2]).name = LineAt(1)[2]
          BY <1>5, <4>1 DEF Row
        <5> QED BY <3>2, <4>1, <5>1
      <4>2. CASE ~(h = 0 /\ j = 1)
        <5>1. j - 1 \in g + 1 .. i - 1 /\ j - 1 \in 1 .. ToCome - 1 /\ (j - 1) + 1 = j
          BY <1>2, <1>4, <1>5, <2>1, <4>2
        <5>2. LineAt(j - 1)' = LineAt(j)
          BY <1>3, <5>1
        <5> QED BY <3>2, <5>1, <5>2
      <4> QED BY <4>1, <4>2
    <3> QED BY <3>1, <3>3, <3>4
  <2> QED BY <1>6, <2>1, <2>2, <2>3, <2>4
<1> QED BY <1>1, <1>2, <1>6, <1>7 DEF ListAhead, Listed, DotListed

LEMMA ReadHeaderGoesOn ==
    ASSUME DialogueInv, NEW next, pipe # <<>>, GoOn(next), UNCHANGED listing,
           <<stage, next>> \in {<<"version", "time">>, <<"time", "day">>, <<"day", "list">>},
           stage = "day" => Head(pipe) = <<"day", asked.day>>
    PROVE  DialogueInv'
<1> USE DEF DialogueInv
<1>1. /\ stage' = next /\ pipe' = Tail(pipe)
      /\ UNCHANGED <<date, today, live, yest, sealed, out, alive, asked, listing, jobs, rows>>
  BY DEF GoOn, collectd
<1>2. /\ stage \in {"version", "time", "day"} /\ next \in ListStages
      /\ Headers[stage] >= 1 /\ Headers[next] = Headers[stage] - 1
      /\ next = "list" <=> stage = "day"
  BY HeadersType DEF ListStages
<1>3. /\ ToCome' = ToCome - 1 /\ \A i \in 1 .. ToCome - 1 : LineAt(i)' = LineAt(i + 1)
      /\ pipe' \in Seq(Wire)
  BY <1>1, ReadTakesFirst
<1>4. ToCome \in Nat /\ ToCome >= 1 /\ LineAt(1) = Head(pipe)
  BY StreamType
<1>5. RightDay' => RightDay
  <2>1. CASE stage = "day"
    BY <1>4, <2>1, HeadersType DEF RightDay
  <2>2. CASE stage # "day"
    <3> SUFFICES ASSUME RightDay' PROVE RightDay
      OBVIOUS
    <3>1. PICK h \in 1 .. 3 : h = Headers[stage]
      BY <1>2, HeadersType DEF ListStages
    <3>2. h - 1 \in 1 .. 2 /\ h - 1 = Headers[stage]'
      BY <1>1, <1>2, <2>2, <3>1, HeadersType
    <3>3. h - 1 <= ToCome' /\ LineAt(h - 1)' = <<"day", asked.day>>
      BY <1>1, <1>2, <2>2, <3>2 DEF RightDay, LineAt
    <3>4. h <= ToCome /\ LineAt(h - 1)' = LineAt(h)
      <4>1. h - 1 \in 1 .. ToCome - 1 /\ (h - 1) + 1 = h
        BY <1>3, <1>4, <3>2, <3>3
      <4> QED BY <1>3, <1>4, <4>1
    <3> QED BY <1>2, <3>1, <3>3, <3>4 DEF RightDay
  <2> QED BY <2>1, <2>2
<1>6. ListAhead'
  <2>1. CASE RightDay
    BY <1>1, <1>2, <2>1, ListStillAhead DEF ListStages
  <2>2. CASE ~RightDay
    BY <1>5, <2>2 DEF ListAhead
  <2> QED BY <2>1, <2>2
<1>7. TypeOK'
  BY <1>1, <1>2, <1>3 DEF TypeOK
<1>8. ListSoFar' /\ DetailsAhead'
  BY <1>1, <1>2 DEF ListSoFar, DetailsAhead, ListStages
<1>9. FileIsLatest' /\ ListsStored' /\ DetailsOfTheDay'
  BY <1>1 DEF FileIsLatest, ListsStored, DetailsOfTheDay, NamesOf, Listed, DotListed
<1> QED BY <1>1, <1>6, <1>7, <1>8, <1>9

-----------------------------------------------------------------------------
(* The end of a dialogue.                                                  *)

LEMMA QuietAfterEnd ==
    ASSUME stage' = "idle", listing' = {}
    PROVE  ListAhead' /\ ListSoFar' /\ DetailsAhead'
BY DEF ListAhead, ListSoFar, DetailsAhead, ListStages

LEMMA ClosedJobs ==
    ASSUME DialogueInv, stage \in ListStages, NEW finished \in BOOLEAN, Closed(finished)
    PROVE  /\ jobs' \in [Days -> [status : {"open", "ok", "timedout"}, retries : Nat]]
           /\ \A day \in Days : day # asked.day => jobs'[day] = jobs[day]
           /\ finished => jobs'[asked.day].status = "ok"
           /\ ~finished => jobs'[asked.day].status # "ok"
<1> DEFINE job == jobs[asked.day]
           new == IF finished THEN [job EXCEPT !.status = "ok"]
                  ELSE IF job.retries < MaxRetries THEN [job EXCEPT !.retries = job.retries + 1]
                  ELSE [job EXCEPT !.status = "timedout"]
<1>1. asked.day \in Days /\ job.status = "open"
  BY DEF DialogueInv, ListSoFar
<1>2. job \in [status : {"open", "ok", "timedout"}, retries : Nat]
  BY <1>1 DEF DialogueInv, TypeOK
<1>3. jobs' = [jobs EXCEPT ![asked.day] = new]
  BY DEF Closed
<1> HIDE DEF job
<1>4. /\ new \in [status : {"open", "ok", "timedout"}, retries : Nat]
      /\ finished => new.status = "ok"
      /\ ~finished => new.status # "ok"
  BY <1>1, <1>2
<1> HIDE DEF new
<1>5. jobs \in [Days -> [status : {"open", "ok", "timedout"}, retries : Nat]]
  BY DEF DialogueInv, TypeOK
<1> QED BY ONLY <1>1, <1>3, <1>4, <1>5

\* A list that fails leaves reportd's rows alone.
LEMMA ClosedStep ==
    ASSUME DialogueInv, stage \in ListStages, Closed(FALSE), UNCHANGED rows
    PROVE  DialogueInv'
<1> USE DEF DialogueInv
<1>1. /\ stage' = "idle" /\ listing' = {} /\ alive' = FALSE /\ out' = <<>> /\ pipe' = <<>>
      /\ UNCHANGED <<date, today, live, yest, sealed, asked, rows>>
  BY DEF Closed, collectd
<1>2. /\ jobs' \in [Days -> [status : {"open", "ok", "timedout"}, retries : Nat]]
      /\ \A day \in Days : day # asked.day => jobs'[day] = jobs[day]
      /\ jobs'[asked.day].status # "ok"
  BY ClosedJobs
<1>3. asked.day \in Days /\ jobs[asked.day].status = "open"
  BY DEF ListSoFar
<1>4. TypeOK'
  BY <1>1, <1>2, EmptySeq DEF TypeOK
<1>5. ListsStored'
  <2>1. \A day \in Days : jobs[day].status = "ok" => day # asked.day
    BY <1>3
  <2>2. \A row \in rows : row.day # asked.day
    BY <1>3, <2>1 DEF ListsStored
  <2> QED BY <1>1, <1>2, <2>1, <2>2 DEF ListsStored, NamesOf, Listed, DotListed
<1>6. FileIsLatest' /\ DetailsOfTheDay'
  BY <1>1 DEF FileIsLatest, DetailsOfTheDay
<1> QED BY <1>1, <1>4, <1>5, <1>6, QuietAfterEnd

LEMMA ReadHeaderStep ==
    ASSUME DialogueInv, ReadHeader
    PROVE  DialogueInv'
<1>1. PICK line \in Lines :
        /\ Line(line)
        /\ \/ stage = "version" /\ line = Version /\ GoOn("time") /\ UNCHANGED listing
           \/ stage = "version" /\ line # Version /\ Closed(FALSE) /\ UNCHANGED rows
           \/ stage = "time" /\ line = Time /\ GoOn("day") /\ UNCHANGED listing
           \/ /\ stage = "time" /\ line # Time
              /\ stage' = "idle" /\ listing' = {}
              /\ alive' = FALSE /\ out' = <<>> /\ pipe' = <<>>
              /\ UNCHANGED <<collectd, deaths, asked, jobs, rows>>
  BY DEF ReadHeader
<1>2. line \in {Version, Time} => pipe # <<>>
  BY <1>1, LinesDiffer DEF Line
<1>3. CASE stage = "version" /\ line = Version /\ GoOn("time") /\ UNCHANGED listing
  BY <1>2, <1>3, ReadHeaderGoesOn
<1>4. CASE stage = "version" /\ line # Version /\ Closed(FALSE) /\ UNCHANGED rows
  BY <1>4, ClosedStep DEF ListStages
<1>5. CASE stage = "time" /\ line = Time /\ GoOn("day") /\ UNCHANGED listing
  BY <1>2, <1>5, ReadHeaderGoesOn
<1>6. CASE /\ stage' = "idle" /\ listing' = {}
           /\ alive' = FALSE /\ out' = <<>> /\ pipe' = <<>>
           /\ UNCHANGED <<collectd, deaths, asked, jobs, rows>>
  <2>1. TypeOK'
    BY <1>6, EmptySeq DEF DialogueInv, TypeOK, collectd
  <2>2. FileIsLatest' /\ ListsStored' /\ DetailsOfTheDay'
    BY <1>6 DEF DialogueInv, FileIsLatest, ListsStored, DetailsOfTheDay, NamesOf, Listed, DotListed, collectd
  <2> QED BY <1>6, <2>1, <2>2, QuietAfterEnd DEF DialogueInv
<1> QED BY <1>1, <1>3, <1>4, <1>5, <1>6

LEMMA ReadDayStep ==
    ASSUME DialogueInv, ReadDay
    PROVE  DialogueInv'
<1>1. PICK line \in Lines :
        /\ Line(line)
        /\ IF line = <<"day", asked.day>> THEN GoOn("list") /\ UNCHANGED listing
           ELSE Closed(FALSE) /\ UNCHANGED rows
  BY DEF ReadDay
<1>2. stage = "day"
  BY DEF ReadDay
<1>3. CASE line = <<"day", asked.day>>
  <2>1. pipe # <<>> /\ Head(pipe) = <<"day", asked.day>>
    BY <1>1, <1>3, LinesDiffer DEF Line
  <2> QED BY <1>1, <1>2, <1>3, <2>1, ReadHeaderGoesOn
<1>4. CASE line # <<"day", asked.day>>
  BY <1>1, <1>2, <1>4, ClosedStep DEF ListStages
<1> QED BY <1>3, <1>4

\* What the first line says while a list is read
LEMMA FirstName ==
    ASSUME DialogueInv, stage = "list", NEW line, Line(line)
    PROVE  /\ line = <<"name", line[2]>>
           /\ line[2] # EmptyName => pipe # <<>>
           /\ pipe # <<>> =>
                /\ line = LineAt(1)
                /\ \/ Broken(1)
                   \/ /\ line[2] \in Listed(asked.day) \cup {Dot}
                      /\ line[2] = Dot /\ ~DotListed(asked.day) =>
                             Listed(asked.day) \subseteq {row.name : row \in listing}
<1>1. RightDay /\ Headers[stage] = 0 /\ stage \in ListStages
  BY HeadersType DEF RightDay, ListStages
<1>2. CASE pipe = <<>>
  BY <1>2 DEF Line
<1>3. CASE pipe # <<>>
  <2>1. line = LineAt(1) /\ 1 \in 0 + 1 .. ToCome
    BY <1>3, StreamType DEF Line, DialogueInv
  <2>2. \/ Broken(1)
        \/ /\ LineAt(1) \in {"name"} \X (Listed(asked.day) \cup {Dot})
           /\ LineAt(1) = <<"name", Dot>> /\ ~DotListed(asked.day) =>
                  Listed(asked.day) \subseteq NamesBefore(1)
    BY <1>1, <2>1 DEF DialogueInv, ListAhead
  <2>3. NamesBefore(1) = {row.name : row \in listing}
    BY <1>1 DEF NamesBefore
  <2>4. CASE Broken(1)
    BY <1>3, <2>1, <2>4 DEF Broken
  <2>5. CASE ~Broken(1)
    BY <1>3, <2>1, <2>2, <2>3, <2>5
  <2> QED BY <2>4, <2>5
<1> QED BY <1>2, <1>3

LEMMA ReadDomainStep ==
    ASSUME DialogueInv, ReadDomain
    PROVE  DialogueInv'
<1> USE DEF DialogueInv
<1>1. stage = "list" /\ stage \in ListStages /\ Headers[stage] = 0 /\ RightDay /\ asked.day \in Days
  BY HeadersType DEF ReadDomain, ListStages, RightDay, ListSoFar
<1>2. PICK line \in Lines :
        /\ Line(line)
        /\ \/ /\ line[2] \notin {Dot, EmptyName}
              /\ listing' = listing \cup {Row(line[2])}
              /\ GoOn("list")
           \/ line[2] = Dot /\ rows' = rows \cup listing /\ Closed(TRUE)
           \/ line[2] = EmptyName /\ rows' = rows /\ Closed(FALSE)
  BY DEF ReadDomain
<1>3. /\ line = <<"name", line[2]>>
      /\ line[2] # EmptyName => pipe # <<>>
      /\ pipe # <<>> =>
           /\ line = LineAt(1)
           /\ \/ Broken(1)
              \/ /\ line[2] \in Listed(asked.day) \cup {Dot}
                 /\ line[2] = Dot /\ ~DotListed(asked.day) =>
                        Listed(asked.day) \subseteq {row.name : row \in listing}
  BY <1>1, <1>2, FirstName
<1>4. pipe # <<>> => \A row \in listing : row.name \in Listed(asked.day) \ {Dot}
  BY StreamType DEF ListSoFar
<1>5. \A row \in listing : row.day = asked.day /\ row.data = None
  BY DEF ListSoFar
<1>6. asked.day < today
  BY <1>1 DEF ListAhead
<1>7. CASE line[2] \notin {Dot, EmptyName} /\ listing' = listing \cup {Row(line[2])} /\ GoOn("list")
  <2>1. pipe # <<>> /\ line = LineAt(1)
    BY <1>3, <1>7
  <2>2. /\ stage' = "list" /\ pipe' = Tail(pipe)
        /\ UNCHANGED <<date, today, live, yest, sealed, out, alive, asked, jobs, rows>>
    BY <1>7 DEF GoOn, collectd
  <2>3. ToCome' = ToCome - 1 /\ pipe' \in Seq(Wire)
    BY <2>1, <2>2, ReadTakesFirst
  <2>4. ListAhead'
    BY <1>1, <1>7, <2>1, ListStillAhead DEF ListStages
  <2>5. TypeOK'
    <3>1. \A r \in listing' : r = [day |-> r.day, name |-> r.name, data |-> r.data]
      BY <1>7 DEF TypeOK, Row
    <3> QED BY <1>1, <2>2, <2>3, <3>1 DEF TypeOK
  <2>6. ListSoFar'
    <3>1. \/ line[2] \in Listed(asked.day) \ {Dot}
          \/ line[2] = Fragment /\ ToCome' = 0 /\ ~alive
      <4>1. CASE Broken(1)
        <5>1. line[2] = Fragment /\ ToCome = 1 /\ ~alive
          BY <2>1, <4>1, <1>3, LinesDiffer DEF Broken
        <5> QED BY <2>3, <5>1
      <4>2. CASE ~Broken(1)
        BY <1>3, <1>7, <2>1, <4>2
      <4> QED BY <4>1, <4>2
    <3>2. Row(line[2]).name = line[2] /\ Row(line[2]).day = asked.day /\ Row(line[2]).data = None
      BY DEF Row
    <3> QED BY <1>1, <1>4, <1>5, <1>7, <2>1, <2>2, <3>1, <3>2 DEF ListSoFar, Listed
  <2>7. DetailsAhead' /\ FileIsLatest' /\ ListsStored' /\ DetailsOfTheDay'
    BY <1>1, <2>2 DEF DetailsAhead, FileIsLatest, ListsStored, DetailsOfTheDay, NamesOf, Listed,
       DotListed
  <2> QED BY <2>2, <2>4, <2>5, <2>6, <2>7
<1>8. CASE line[2] = Dot /\ rows' = rows \cup listing /\ Closed(TRUE)
  <2>1. pipe # <<>> /\ line = LineAt(1)
    BY <1>3, <1>8 DEF Dot, EmptyName, Name
  <2>2. ~Broken(1)
    BY <1>3, <1>8, <2>1, LinesDiffer DEF Broken
  <2>3. /\ stage' = "idle" /\ listing' = {} /\ alive' = FALSE /\ out' = <<>> /\ pipe' = <<>>
        /\ UNCHANGED <<date, today, live, yest, sealed, asked>>
    BY <1>8 DEF Closed, collectd
  <2>4. /\ jobs' \in [Days -> [status : {"open", "ok", "timedout"}, retries : Nat]]
        /\ \A day \in Days : day # asked.day => jobs'[day] = jobs[day]
        /\ jobs'[asked.day].status = "ok"
    BY <1>1, <1>8, ClosedJobs
  <2>5. TypeOK'
    BY <1>8, <2>3, <2>4, EmptySeq DEF TypeOK
  <2>6. ListsStored'
    <3>1. ASSUME NEW row \in rows'
          PROVE  /\ row.day \in Days /\ row.day < today
                 /\ row.name \in Listed(row.day) \ {Dot}
                 /\ jobs'[row.day].status = "ok"
      <4>1. CASE row \in rows
        BY <2>4, <4>1 DEF ListsStored
      <4>2. CASE row \in listing
        BY <1>1, <1>4, <1>5, <1>6, <2>1, <2>4, <4>2
      <4> QED BY <1>8, <4>1, <4>2
    <3>2. \A day \in Days : NamesOf(day) \subseteq NamesOf(day)'
      BY <1>8 DEF NamesOf
    <3>4. ~DotListed(asked.day) => Listed(asked.day) \subseteq {row.name : row \in listing}
      BY <1>3, <1>8, <2>1, <2>2
    <3>6. ASSUME NEW day \in Days, jobs'[day].status = "ok"
          PROVE  day < today /\ (~DotListed(day) => Listed(day) \subseteq NamesOf(day)')
      <4>1. CASE day = asked.day
        <5>1. {row.name : row \in listing} \subseteq NamesOf(day)'
          BY <1>5, <1>8, <4>1 DEF NamesOf
        <5> QED BY <1>6, <3>4, <4>1, <5>1
      <4>2. CASE day # asked.day
        BY <2>4, <3>2, <3>6, <4>2 DEF ListsStored
      <4> QED BY <4>1, <4>2
    <3> QED BY <2>3, <3>1, <3>6 DEF ListsStored, Listed, DotListed
  <2>7. FileIsLatest'
    BY <2>3 DEF FileIsLatest
  <2>8. DetailsOfTheDay'
    BY <1>5, <1>8, <2>3 DEF DetailsOfTheDay, None, Void
  <2> QED BY <2>3, <2>5, <2>6, <2>7, <2>8, QuietAfterEnd
<1>9. CASE line[2] = EmptyName /\ rows' = rows /\ Closed(FALSE)
  BY <1>1, <1>9, ClosedStep
<1> QED BY <1>2, <1>7, <1>8, <1>9

-----------------------------------------------------------------------------
(* Details.                                                                *)

\* The answer of fetch_domain_details to the question for a row
LEMMA RightDetails ==
    ASSUME DialogueInv, NEW row \in rows, yest \notin {NoFile, BlankFile},
           NEW answer \in DetailsAnswers(yest, row.day, row.name)
    PROVE  /\ answer \in Seq(Wire) /\ Len(answer) = 1
           /\ \/ answer[1] = <<"json", row.day>>
              \/ /\ answer[1] = <<"json", Void>>
                 /\ today > row.day + 1 \/ row.name \notin sealed[row.day]
<1> USE DEF DialogueInv
<1>1. /\ row.day \in Days /\ row.day < today
      /\ row.day \in 0 .. LastDay /\ today \in Nat /\ row.day \in Nat
  BY DialogueBounds DEF ListsStored, TypeOK, Days
<1>2. yest = [day |-> today - 1, names |-> sealed[today - 1]]
  BY DEF FileIsLatest
<1>3. yest.day = today - 1 /\ yest.names = sealed[today - 1]
  BY <1>2
<1> DEFINE v == IF yest.day = row.day /\ row.name \in yest.names THEN row.day ELSE Void
<1>4. answer = <<<<"json", v>>>>
  BY DEF DetailsAnswers
<1>5. v = row.day \/ (v = Void /\ (today > row.day + 1 \/ row.name \notin sealed[row.day]))
  <2>1. CASE today - 1 = row.day
    BY <1>3, <2>1
  <2>2. CASE today - 1 # row.day
    <3>1. yest.day # row.day /\ today > row.day + 1
      BY <1>1, <1>3, <2>2
    <3> QED BY <3>1
  <2> QED BY <2>1, <2>2
<1>6. v \in 0 .. LastDay
  BY <1>1, <1>5, DialogueBounds DEF Void
<1> HIDE DEF v
<1>7. <<"json", v>> \in Wire
  BY <1>6 DEF Wire
<1> QED BY <1>4, <1>5, <1>7

LEMMA AskDetailsStep ==
    ASSUME DialogueInv, NEW row \in rows, AskDetails(row)
    PROVE  DialogueInv'
<1> USE DEF DialogueInv
<1>1. /\ alive' = TRUE /\ pipe' = <<>> /\ stage' = "details" /\ listing' = {}
      /\ asked' = [day |-> row.day, name |-> row.name] /\ row.data = None
      /\ yest' = IF yest = NoFile THEN BlankFile ELSE yest
      /\ out' \in IF yest \in {NoFile, BlankFile} THEN {<<>>}
                  ELSE DetailsAnswers(yest, row.day, row.name)
      /\ UNCHANGED <<date, today, live, sealed, deaths, jobs, rows>>
  BY DEF AskDetails, Run
<1>2. /\ row.day \in Days /\ row.day \in 0 .. LastDay /\ row.name \in Stripped(NormalNames)
      /\ row = [day |-> row.day, name |-> row.name, data |-> None]
  <2>1. row.day \in Days /\ row.name \in Stripped(sealed[row.day]) /\ sealed[row.day] \subseteq NormalNames
    BY DEF ListsStored, Listed, TypeOK
  <2>2. row.name \in Stripped(NormalNames)
    BY <2>1 DEF Stripped
  <2> QED BY <1>1, <2>1, <2>2, DialogueBounds DEF TypeOK, Days
<1>3. asked'.day = row.day /\ asked'.name = row.name
  BY <1>1
<1>4. /\ out' \in Seq(Wire)
      /\ \A i \in 1 .. ToCome' :
             \/ LineAt(i)' = <<"json", row.day>>
             \/ /\ LineAt(i)' = <<"json", Void>>
                /\ today > row.day + 1 \/ row.name \notin sealed[row.day]
  <2>1. CASE out' = <<>>
    <3>1. out' \in Seq(Wire) /\ Len(out') = 0
      BY <2>1, EmptySeq
    <3> QED BY <1>1, <3>1, NewStream
  <2>2. CASE yest \notin {NoFile, BlankFile} /\ out' \in DetailsAnswers(yest, row.day, row.name)
    <3>1. /\ out' \in Seq(Wire) /\ Len(out') = 1
          /\ \/ out'[1] = <<"json", row.day>>
             \/ /\ out'[1] = <<"json", Void>>
                /\ today > row.day + 1 \/ row.name \notin sealed[row.day]
      BY <2>2, RightDetails
    <3>2. ToCome' = Len(out') /\ \A i \in 1 .. ToCome' : LineAt(i)' = out'[i]
      BY <1>1, <3>1, NewStream
    <3>3. \A i \in 1 .. ToCome' : i = 1
      BY <3>1, <3>2
    <3> QED BY <3>1, <3>2, <3>3
  <2> QED BY <1>1, <2>1, <2>2
<1>5. TypeOK'
  BY <1>1, <1>2, <1>4, EmptySeq DEF TypeOK, ListStages
<1>6. DetailsAhead'
  <2>1. Row(asked.name)' \in rows'
    BY <1>1, <1>2, <1>3 DEF Row
  <2> QED BY <1>1, <1>2, <1>3, <1>4, <2>1 DEF DetailsAhead
<1>7. ListAhead' /\ ListSoFar' /\ FileIsLatest'
  BY <1>1 DEF ListAhead, ListSoFar, FileIsLatest, ListStages
<1>8. ListsStored' /\ DetailsOfTheDay'
  BY <1>1 DEF ListsStored, DetailsOfTheDay, NamesOf, Listed, DotListed
<1> QED BY <1>1, <1>5, <1>6, <1>7, <1>8

LEMMA ReadDetailsStep ==
    ASSUME DialogueInv, ReadDetails
    PROVE  DialogueInv'
<1> USE DEF DialogueInv
<1> DEFINE row == Row(asked.name)
           v == Head(pipe)[2]
           Late == today > asked.day + 1 \/ asked.name \notin sealed[asked.day]
           new == [day |-> asked.day, name |-> asked.name, data |-> v]
<1>1. /\ stage = "details" /\ ~alive /\ stage' = "idle" /\ pipe' = <<>>
      /\ UNCHANGED <<date, today, live, yest, sealed, asked, out, alive, deaths, listing, jobs>>
  BY DEF ReadDetails, collectd
<1>2. /\ asked.day \in Days /\ row \in rows
      /\ row.day = asked.day /\ row.name = asked.name /\ listing = {}
  BY <1>1 DEF DetailsAhead, ListSoFar, Row
<1>3. \/ rows' = rows
      \/ /\ rows' = (rows \ {row}) \cup {new}
         /\ v = asked.day \/ (v = Void /\ Late)
  <2>1. CASE pipe # <<>> /\ Head(pipe)[1] = "json"
    <3>1. 1 \in 1 .. ToCome /\ LineAt(1) = Head(pipe)
      BY <2>1, StreamType
    <3>2. ~Broken(1)
      BY <2>1, <3>1 DEF Broken
    <3>3. v = asked.day \/ (v = Void /\ Late)
      <4>1. \/ LineAt(1) = <<"json", asked.day>>
            \/ LineAt(1) = <<"json", Void>> /\ Late
        BY <1>1, <3>1, <3>2 DEF DetailsAhead
      <4>2. v = LineAt(1)[2]
        BY <3>1
      <4>3. LineAt(1)[2] = asked.day \/ (LineAt(1)[2] = Void /\ Late)
        BY ONLY <4>1
      <4> QED BY <4>2, <4>3
    <3>4. [row EXCEPT !.data = v] = new
      BY DEF Row
    <3>5. rows' = (rows \ {row}) \cup {new}
      BY <2>1, <3>4 DEF ReadDetails
    <3> QED BY <3>3, <3>5
  <2>2. CASE ~(pipe # <<>> /\ Head(pipe)[1] = "json")
    BY <2>2 DEF ReadDetails
  <2> QED BY <2>1, <2>2
<1> HIDE DEF row, v
<1>4. new.day = asked.day /\ new.name = asked.name /\ new.data = v
  OBVIOUS
<1>5. TypeOK'
  <2>1. \A r \in rows' : r = [day |-> r.day, name |-> r.name, data |-> r.data]
    BY <1>3 DEF TypeOK
  <2> QED BY <1>1, <1>2, <2>1, EmptySeq DEF TypeOK
<1> HIDE DEF new
<1>6. ListsStored'
  <2>1. \A r \in rows' : \E s \in rows : r.day = s.day /\ r.name = s.name
    BY <1>2, <1>3, <1>4
  <2>2. \A s \in rows : \E r \in rows' : r.day = s.day /\ r.name = s.name
    BY <1>2, <1>3, <1>4
  <2>3. \A day \in Days : NamesOf(day)' = NamesOf(day)
    BY <2>1, <2>2 DEF NamesOf
  <2> QED BY <1>1, <2>1, <2>3 DEF ListsStored, Listed, DotListed
<1>7. DetailsOfTheDay'
  <2> SUFFICES ASSUME NEW r \in rows'
               PROVE  r.data \in {None, Void, r.day} /\ (r.data = Void => today > r.day + 1 \/ r.name \notin sealed[r.day])
    BY <1>1 DEF DetailsOfTheDay
  <2>1. CASE r \in rows
    BY <2>1 DEF DetailsOfTheDay
  <2>2. CASE r \notin rows
    <3>1. r = new
      BY <1>3, <2>2
    <3>2. v = asked.day \/ (v = Void /\ Late)
      BY <1>3, <2>2
    <3>3. asked.day \in Nat /\ asked.day # 0
      BY <1>2 DEF Days
    <3> QED BY <1>4, <3>1, <3>2, <3>3 DEF Void
  <2> QED BY <2>1, <2>2
<1>8. ListAhead' /\ ListSoFar' /\ DetailsAhead' /\ FileIsLatest'
  BY <1>1, <1>2 DEF ListAhead, ListSoFar, DetailsAhead, FileIsLatest, ListStages
<1> QED BY <1>1, <1>5, <1>6, <1>7, <1>8

-----------------------------------------------------------------------------
(* The theorems.                                                           *)

LEMMA DialogueInit == Init => DialogueInv
<1> SUFFICES ASSUME Init PROVE DialogueInv
  OBVIOUS
<1> USE DEF Init
<1>1. IsFiniteSet({})
  BY FS_EmptySet
<1>2. TypeOK
  <2>1. date \in 1 .. LastDay + 1 /\ today \in 1 .. date /\ asked.day \in 0 .. LastDay
    BY DialogueBounds
  <2>2. jobs \in [Days -> [status : {"open", "ok", "timedout"}, retries : Nat]]
    OBVIOUS
  <2>3. asked \in [day : 0 .. LastDay, name : NormalNames \cup {Dot}]
    BY <2>1
  <2>4. out \in Seq(Wire) /\ pipe \in Seq(Wire)
    BY EmptySeq
  <2>5. sealed \in [Days -> SUBSET NormalNames] /\ \A day \in Days : IsFiniteSet(sealed[day])
    BY <1>1
  <2> QED BY <1>1, <2>1, <2>2, <2>3, <2>4, <2>5 DEF TypeOK
<1>3. ListAhead /\ ListSoFar /\ DetailsAhead
  BY DEF ListAhead, ListSoFar, DetailsAhead, ListStages
<1> QED
  BY <1>2, <1>3 DEF DialogueInv, FileIsLatest, ListsStored, DetailsOfTheDay

LEMMA DialogueStep == DialogueInv /\ [Next]_vars => DialogueInv'
<1> SUFFICES ASSUME DialogueInv, [Next]_vars PROVE DialogueInv'
  OBVIOUS
<1>1. CASE Next
  BY <1>1, CountStep, UnlinkStep, RenameStep, MidnightStep, WriteStep, ExitStep, PerishStep,
     ReadHeaderStep, ReadDayStep, ReadDomainStep, ReadDetailsStep, AskListStep, AskDetailsStep
     DEF Next, Fetcher, Reader
<1>2. CASE UNCHANGED vars
  <2>1. /\ UNCHANGED <<date, today, live, yest, counts, sealed, out, alive, pipe, deaths>>
        /\ UNCHANGED <<stage, asked, listing, jobs, rows>> /\ UNCHANGED reportd
    BY <1>2 DEF vars, collectd, fetcher, reportd
  <2>2. TypeOK'
    BY <2>1 DEF DialogueInv, TypeOK
  <2>3. ListAhead' /\ ListSoFar' /\ DetailsAhead'
    BY <2>1, SameStream, DialogueGoesOn, DialogueBounds DEF DialogueInv, TypeOK
  <2>4. FileIsLatest' /\ ListsStored' /\ DetailsOfTheDay'
    BY <2>1 DEF DialogueInv, FileIsLatest, ListsStored, DetailsOfTheDay, NamesOf, Listed, DotListed
  <2> QED BY <2>1, <2>2, <2>3, <2>4 DEF DialogueInv
<1> QED BY <1>1, <1>2

\* At each moment of a dialogue the domains read and those still to come are
\* those of the day asked for, whatever the collectd does to its files and
\* wherever the fetcher dies.
THEOREM DialogueInvariance == Spec => []DialogueInv
BY DialogueInit, DialogueStep, PTL DEF Spec

\* The list stored for a day is complete or not there at all (collect_domains
\* with its SAVEPOINT and ROLLBACK TO).
THEOREM ListsAreComplete == Spec => []ListIsTheDays
<1>1. DialogueInv => ListIsTheDays
  <2> SUFFICES ASSUME DialogueInv, NEW day \in Days
               PROVE  IF DotListed(day) THEN NamesOf(day) \subseteq Listed(day) \ {Dot}
                      ELSE /\ NamesOf(day) \in {{}, Listed(day)}
                           /\ jobs[day].status = "ok" => NamesOf(day) = Listed(day)
    BY DEF ListIsTheDays, Listed, DotListed
  <2>1. NamesOf(day) \subseteq Listed(day) \ {Dot}
    BY DEF DialogueInv, ListsStored, NamesOf
  <2>2. jobs[day].status # "ok" => NamesOf(day) = {}
    BY DEF DialogueInv, ListsStored, NamesOf
  <2>3. jobs[day].status = "ok" /\ ~DotListed(day) => NamesOf(day) = Listed(day)
    BY <2>1 DEF DialogueInv, ListsStored
  <2> QED BY <2>1, <2>2, <2>3
<1> QED BY <1>1, DialogueInvariance, PTL

\* Details belong to the day of their row, and only a collectd that has sealed
\* another day makes them empty (fetch_domain_details compares the day).
THEOREM DetailsBelong == Spec => []DetailsOfTheDay
<1>1. DialogueInv => DetailsOfTheDay
  BY DEF DialogueInv
<1> QED BY <1>1, DialogueInvariance, PTL

\* All notations of a domain name are counted in one row (normalize_domain_name).
THEOREM NotationsAreOne == Spec => []OneRowPerName
<1>1. DialogueInv => OneRowPerName
  <2> SUFFICES ASSUME DialogueInv, NEW r1 \in rows, NEW r2 \in rows,
                      r1.day = r2.day, r1.name.base = r2.name.base,
                      {r1.name, r2.name} \subseteq sealed[r1.day],
                      r1.name.dots <= 1, r2.name.dots <= 1
               PROVE  r1.name = r2.name
    BY DEF OneRowPerName
  <2>1. r1.name \in NormalNames \ {Dot} /\ r2.name \in NormalNames \ {Dot}
    BY DEF DialogueInv, ListsStored, TypeOK
  <2>2. ASSUME NEW row \in rows PROVE row.name.blank = FALSE
    <3>1. row.day \in Days /\ row.name \in Stripped(sealed[row.day])
      BY DEF DialogueInv, ListsStored, Listed
    <3>2. PICK n \in NormalNames : row.name = rstrip(n)
      BY <3>1 DEF Stripped, DialogueInv, TypeOK
    <3> QED BY <3>2, StrippedName
  <2> QED BY <2>1, <2>2, NormalNamesDiffer
<1> QED BY <1>1, DialogueInvariance, PTL
=============================================================================
