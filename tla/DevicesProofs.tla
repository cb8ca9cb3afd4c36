---------------------------- MODULE DevicesProofs ----------------------------
(***************************************************************************)
(* What holds of Devices and of the list it reads, for any finite sets of   *)
(* devices and groups, any number of jobs at a time and any mix of them.    *)
(***************************************************************************)
EXTENDS Devices, FiniteSetTheorems, SequenceTheorems, TLAPS

-----------------------------------------------------------------------------
(* The gateway's list.                                                      *)

LEMMA PartOf ==
  ASSUME NEW s \in Seq(Devices), NEW m \in Nat \ {0}, NEW n \in Nat, n <= Len(s)
  PROVE  /\ SubSeq(s, m, n) \in Seq(Devices)
         /\ Len(SubSeq(s, m, n)) = IF m <= n THEN (n - m) + 1 ELSE 0
         /\ \A i \in 1 .. (n - m) + 1 : SubSeq(s, m, n)[i] = s[(m + i) - 1]
<1>1. Len(s) \in Nat /\ \A i \in 1 .. Len(s) : s[i] \in Devices
  BY LenProperties, ElementOfSeq
<1>2. \A i \in m .. n : s[i] \in Devices
  BY <1>1
<1> QED BY <1>2, SubSeqProperties

LEMMA Joined ==
  ASSUME NEW s \in Seq(Devices), NEW t \in Seq(Devices)
  PROVE  /\ s \o t \in Seq(Devices)
         /\ Len(s \o t) = Len(s) + Len(t)
         /\ \A i \in 1 .. Len(s) + Len(t) :
              (s \o t)[i] = IF i <= Len(s) THEN s[i] ELSE t[i - Len(s)]
BY ConcatProperties

LEMMA InsertAtFacts ==
  ASSUME NEW s \in Seq(Devices), NEW k \in 1 .. Len(s) + 1, NEW d \in Devices
  PROVE  /\ InsertAt(s, k, d) \in Seq(Devices)
         /\ Len(InsertAt(s, k, d)) = Len(s) + 1
         /\ \A i \in 1 .. Len(s) + 1 :
              InsertAt(s, k, d)[i] = IF i < k THEN s[i] ELSE IF i = k THEN d ELSE s[i - 1]
<1> DEFINE a == SubSeq(s, 1, k - 1)  b == <<d>>  c == SubSeq(s, k, Len(s))  ab == a \o b
<1>n. Len(s) \in Nat /\ k \in Nat \ {0} /\ k - 1 \in Nat /\ k - 1 <= Len(s)
  BY LenProperties
<1>1. /\ a \in Seq(Devices) /\ Len(a) = k - 1
      /\ \A i \in 1 .. k - 1 : a[i] = s[i]
  <2>1. /\ a \in Seq(Devices)
        /\ Len(a) = IF 1 <= k - 1 THEN ((k - 1) - 1) + 1 ELSE 0
        /\ \A i \in 1 .. ((k - 1) - 1) + 1 : a[i] = s[(1 + i) - 1]
    BY <1>n, PartOf
  <2> HIDE DEF a
  <2> QED BY <1>n, <2>1
<1>2. /\ c \in Seq(Devices) /\ Len(c) = (Len(s) - k) + 1
      /\ \A i \in 1 .. (Len(s) - k) + 1 : c[i] = s[(k + i) - 1]
  <2>1. /\ c \in Seq(Devices)
        /\ Len(c) = IF k <= Len(s) THEN (Len(s) - k) + 1 ELSE 0
        /\ \A i \in 1 .. (Len(s) - k) + 1 : c[i] = s[(k + i) - 1]
    BY <1>n, PartOf
  <2> HIDE DEF c
  <2> QED BY <1>n, <2>1
<1>3. b \in Seq(Devices) /\ Len(b) = 1 /\ b[1] = d
  OBVIOUS
<1> HIDE DEF a, b, c
<1>4. /\ ab \in Seq(Devices) /\ Len(ab) = k
      /\ \A i \in 1 .. k : ab[i] = IF i < k THEN s[i] ELSE d
  <2>1. /\ ab \in Seq(Devices) /\ Len(ab) = (k - 1) + 1
        /\ \A i \in 1 .. (k - 1) + 1 : ab[i] = IF i <= k - 1 THEN a[i] ELSE b[i - (k - 1)]
    <3>1. /\ ab \in Seq(Devices) /\ Len(ab) = Len(a) + Len(b)
          /\ \A i \in 1 .. Len(a) + Len(b) : ab[i] = IF i <= Len(a) THEN a[i] ELSE b[i - Len(a)]
      BY <1>1, <1>3, Joined
    <3> HIDE DEF ab
    <3> QED BY <1>1, <1>3, <3>1
  <2> HIDE DEF ab
  <2> QED BY <1>n, <1>1, <1>3, <2>1
<1> HIDE DEF ab
<1>5. /\ ab \o c \in Seq(Devices) /\ Len(ab \o c) = k + ((Len(s) - k) + 1)
      /\ \A i \in 1 .. k + ((Len(s) - k) + 1) : (ab \o c)[i] = IF i <= k THEN ab[i] ELSE c[i - k]
  <2>1. /\ ab \o c \in Seq(Devices) /\ Len(ab \o c) = Len(ab) + Len(c)
        /\ \A i \in 1 .. Len(ab) + Len(c) : (ab \o c)[i] = IF i <= Len(ab) THEN ab[i] ELSE c[i - Len(ab)]
    BY <1>2, <1>4, Joined
  <2> QED BY <1>2, <1>4, <2>1
<1> DEFINE t == ab \o c
<1>6. InsertAt(s, k, d) = t
  BY DEF InsertAt, a, b, c, ab
<1> HIDE DEF t
<1>7. t \in Seq(Devices) /\ Len(t) = Len(s) + 1
  BY <1>5, <1>n DEF t
<1>8. ASSUME NEW i \in 1 .. Len(s) + 1
      PROVE  t[i] = IF i < k THEN s[i] ELSE IF i = k THEN d ELSE s[i - 1]
  <2>1. t[i] = IF i <= k THEN ab[i] ELSE c[i - k]
    BY <1>5, <1>n DEF t
  <2>2. CASE i <= k
    BY <1>4, <1>n, <2>1, <2>2
  <2>3. CASE i > k
    <3>1. i - k \in 1 .. (Len(s) - k) + 1 /\ (k + (i - k)) - 1 = i - 1
      BY <1>n, <2>3
    <3>2. c[i - k] = s[i - 1]
      BY <1>2, <3>1
    <3> QED BY <1>n, <2>1, <2>3, <3>2
  <2> QED BY <1>n, <2>2, <2>3
<1> QED BY <1>6, <1>7, <1>8

LEMMA RemoveAtFacts ==
  ASSUME NEW s \in Seq(Devices), NEW k \in 1 .. Len(s)
  PROVE  /\ RemoveAt(s, k) \in Seq(Devices)
         /\ Len(RemoveAt(s, k)) = Len(s) - 1
         /\ \A i \in 1 .. Len(s) - 1 : RemoveAt(s, k)[i] = IF i < k THEN s[i] ELSE s[i + 1]
<1> DEFINE a == SubSeq(s, 1, k - 1)  c == SubSeq(s, k + 1, Len(s))
<1>n. Len(s) \in Nat /\ k \in Nat \ {0} /\ k - 1 \in Nat /\ k - 1 <= Len(s) /\ k + 1 \in Nat \ {0}
  BY LenProperties
<1>1. /\ a \in Seq(Devices) /\ Len(a) = k - 1
      /\ \A i \in 1 .. k - 1 : a[i] = s[i]
  <2>1. /\ a \in Seq(Devices)
        /\ Len(a) = IF 1 <= k - 1 THEN ((k - 1) - 1) + 1 ELSE 0
        /\ \A i \in 1 .. ((k - 1) - 1) + 1 : a[i] = s[(1 + i) - 1]
    BY <1>n, PartOf
  <2> HIDE DEF a
  <2> QED BY <1>n, <2>1
<1>2. /\ c \in Seq(Devices) /\ Len(c) = Len(s) - k
      /\ \A i \in 1 .. Len(s) - k : c[i] = s[k + i]
  <2>1. /\ c \in Seq(Devices)
        /\ Len(c) = IF k + 1 <= Len(s) THEN (Len(s) - (k + 1)) + 1 ELSE 0
        /\ \A i \in 1 .. (Len(s) - (k + 1)) + 1 : c[i] = s[((k + 1) + i) - 1]
    BY <1>n, PartOf
  <2> HIDE DEF c
  <2> QED BY <1>n, <2>1
<1> HIDE DEF a, c
<1> DEFINE t == a \o c
<1>5. /\ t \in Seq(Devices) /\ Len(t) = (k - 1) + (Len(s) - k)
      /\ \A i \in 1 .. (k - 1) + (Len(s) - k) : t[i] = IF i <= k - 1 THEN a[i] ELSE c[i - (k - 1)]
  <2>1. /\ t \in Seq(Devices) /\ Len(t) = Len(a) + Len(c)
        /\ \A i \in 1 .. Len(a) + Len(c) : t[i] = IF i <= Len(a) THEN a[i] ELSE c[i - Len(a)]
    BY <1>1, <1>2, Joined
  <2> HIDE DEF t
  <2> QED BY <1>1, <1>2, <2>1
<1>6. RemoveAt(s, k) = t
  BY DEF RemoveAt, a, c
<1> HIDE DEF t
<1>7. Len(t) = Len(s) - 1
  BY <1>5, <1>n
<1>8. ASSUME NEW i \in 1 .. Len(s) - 1
      PROVE  t[i] = IF i < k THEN s[i] ELSE s[i + 1]
  <2>1. t[i] = IF i <= k - 1 THEN a[i] ELSE c[i - (k - 1)]
    BY <1>5, <1>n
  <2>2. CASE i < k
    BY <1>1, <1>n, <2>1, <2>2
  <2>3. CASE i >= k
    <3>1. i - (k - 1) \in 1 .. Len(s) - k /\ k + (i - (k - 1)) = i + 1
      BY <1>n, <2>3
    <3>2. c[i - (k - 1)] = s[i + 1]
      BY <1>2, <3>1
    <3> QED BY <1>n, <2>1, <2>3, <3>2
  <2> QED BY <1>n, <2>2, <2>3
<1> QED BY <1>5, <1>6, <1>7, <1>8
-----------------------------------------------------------------------------
(* Counting.                                                                *)

LEMMA Fewer ==
  ASSUME NEW S, IsFiniteSet(S), NEW T, T \subseteq S
  PROVE  /\ IsFiniteSet(T) /\ Cardinality(T) \in Nat /\ Cardinality(S) \in Nat
         /\ Cardinality(T) <= Cardinality(S)
BY FS_Subset, FS_CardinalityType

LEMMA OneExtra ==
  ASSUME NEW S, IsFiniteSet(S), NEW x, NEW T, T \subseteq S \union {x}
  PROVE  /\ IsFiniteSet(T) /\ Cardinality(T) \in Nat /\ Cardinality(S) \in Nat
         /\ Cardinality(T) <= Cardinality(S) + 1
<1>1. IsFiniteSet(S \union {x}) /\ Cardinality(S \union {x}) \in {Cardinality(S), Cardinality(S) + 1}
  BY FS_AddElement
<1>2. IsFiniteSet(T) /\ Cardinality(T) \in Nat /\ Cardinality(T) <= Cardinality(S \union {x})
  BY <1>1, Fewer
<1>3. Cardinality(S) \in Nat
  BY FS_CardinalityType
<1> QED BY <1>1, <1>2, <1>3

LEMMA Apart ==
  ASSUME NEW S, IsFiniteSet(S), NEW T, IsFiniteSet(T), \A x \in S : x \notin T
  PROVE  /\ IsFiniteSet(S \union T) /\ Cardinality(S) \in Nat /\ Cardinality(T) \in Nat
         /\ Cardinality(S \union T) = Cardinality(S) + Cardinality(T)
<1>1. S \intersect T = {}
  OBVIOUS
<1>2. Cardinality(S) \in Nat /\ Cardinality(T) \in Nat /\ Cardinality({}) = 0
  BY FS_CardinalityType, FS_EmptySet
<1>3. /\ IsFiniteSet(S \union T)
      /\ Cardinality(S \union T) = Cardinality(S) + Cardinality(T) - Cardinality(S \intersect T)
  BY FS_Union
<1>4. Cardinality(S \intersect T) = 0
  BY <1>1, <1>2
<1> QED BY <1>2, <1>3, <1>4

\* As many places of the list as there are clients there.
LEMMA PlacesOf ==
  ASSUME NEW I, IsFiniteSet(I), NEW f, \A a, b \in I : f[a] = f[b] => a = b
  PROVE  LET S == {f[i] : i \in I} IN IsFiniteSet(S) /\ Cardinality(S) = Cardinality(I)
<1> DEFINE S == {f[i] : i \in I}
           g == [i \in I |-> f[i]]
<1>1. g \in Bijection(I, S)
  BY DEF Bijection, Injection, Surjection, IsInjective
<1>2. ExistsBijection(I, S)
  BY <1>1 DEF ExistsBijection
<1> QED BY <1>2, FS_Bijection

-----------------------------------------------------------------------------
(* The types of the list and its readers.                                   *)

ListTypes ==
  clients \in Seq(Devices) /\ IsInjective(clients) /\ cursor \in [Callers -> Cursor]

LEMMA NoCursorType == NoCursor \in Cursor
BY DEF NoCursor, Cursor

LEMMA ListFacts ==
  ASSUME ListTypes
  PROVE  /\ Len(clients) \in Nat
         /\ \A i \in 1 .. Len(clients) : clients[i] \in Devices
         /\ \A i, k \in 1 .. Len(clients) : clients[i] = clients[k] => i = k
         /\ Connected = {clients[i] : i \in 1 .. Len(clients)}
<1>1. Len(clients) \in Nat /\ DOMAIN clients = 1 .. Len(clients)
  BY LenProperties DEF ListTypes
<1> QED BY <1>1, ElementOfSeq DEF ListTypes, IsInjective, Connected, ToSet

LEMMA StartListingTypes ==
  ASSUME ListTypes, NEW c \in Callers, StartListing(c), UNCHANGED clients
  PROVE  ListTypes'
<1>1. Connected \subseteq Devices
  BY ListFacts
<1>2. [NoCursor EXCEPT !.state = "on", !.stay = Connected] \in Cursor
  BY <1>1, NoCursorType DEF Cursor
<1> QED BY <1>2 DEF ListTypes, StartListing, IsInjective

LEMMA EndListingTypes ==
  ASSUME ListTypes, NEW c \in Callers, EndListing(c)
  PROVE  ListTypes'
BY NoCursorType DEF ListTypes, EndListing, IsInjective

\* A turn of the loop.
LEMMA PageReads ==
  ASSUME ListTypes, NEW c \in Callers, Page(c)
  PROVE  LET r == cursor[c]
             m == Len(clients)
         IN  /\ r \in Cursor /\ r.state = "on"
             /\ \E n \in Nat :
                  /\ (r.offset < m /\ 1 <= n /\ r.offset + n <= m) \/ (m <= r.offset /\ n = 0)
                  /\ cursor' = [cursor EXCEPT ![c] =
                       [r EXCEPT !.all = @ \o SubSeq(clients, r.offset + 1, r.offset + n),
                                 !.offset = r.offset + n,
                                 !.state = IF r.offset + n >= m \/ n = 0 THEN "done" ELSE "on"]]
             /\ UNCHANGED clients
<1> DEFINE r == cursor[c]
           m == Len(clients)
<1>1. r \in Cursor /\ r.state = "on" /\ UNCHANGED clients
  BY DEF Page, ListTypes
<1>2. r.offset \in Nat /\ m \in Nat
  BY <1>1, ListFacts DEF Cursor
<1>3. PICK n \in 0 .. Limit :
        /\ IF m - r.offset > 0 THEN n \in 1 .. m - r.offset ELSE n = 0
        /\ cursor' = [cursor EXCEPT
             ![c].all = @ \o SubSeq(clients, r.offset + 1, r.offset + n),
             ![c].offset = r.offset + n,
             ![c].state = IF r.offset + n >= m \/ n = 0 THEN "done" ELSE "on"]
  BY DEF Page, Advance
<1>4. cursor' = [cursor EXCEPT ![c] =
        [r EXCEPT !.all = @ \o SubSeq(clients, r.offset + 1, r.offset + n),
                  !.offset = r.offset + n,
                  !.state = IF r.offset + n >= m \/ n = 0 THEN "done" ELSE "on"]]
  BY <1>3 DEF ListTypes
<1>5. n \in Nat /\ ((r.offset < m /\ 1 <= n /\ r.offset + n <= m) \/ (m <= r.offset /\ n = 0))
  <2> HIDE DEF r, m
  <2>1. n \in Nat /\ IF m - r.offset > 0 THEN n \in 1 .. m - r.offset ELSE n = 0
    BY <1>3, LimitAssumption
  <2>2. CASE r.offset < m
    BY <1>2, <2>1, <2>2
  <2>3. CASE m <= r.offset
    BY <1>2, <2>1, <2>3
  <2> QED BY <1>2, <2>1, <2>2, <2>3
<1> QED BY <1>1, <1>4, <1>5

LEMMA PageTypes ==
  ASSUME ListTypes, NEW c \in Callers, Page(c)
  PROVE  ListTypes'
<1> DEFINE r == cursor[c]
           m == Len(clients)
<1>1. r \in Cursor /\ UNCHANGED clients /\ clients \in Seq(Devices) /\ m \in Nat
  BY PageReads, ListFacts DEF ListTypes
<1>2. PICK n \in Nat :
        /\ (r.offset < m /\ r.offset + n <= m) \/ (m <= r.offset /\ n = 0)
        /\ cursor' = [cursor EXCEPT ![c] =
             [r EXCEPT !.all = @ \o SubSeq(clients, r.offset + 1, r.offset + n),
                       !.offset = r.offset + n,
                       !.state = IF r.offset + n >= m \/ n = 0 THEN "done" ELSE "on"]]
  BY PageReads
<1>3. r.offset \in Nat /\ r.all \in Seq(Devices) /\ r.offset + n \in Nat /\ r.offset + 1 \in Nat \ {0}
  BY <1>1 DEF Cursor
<1>4. SubSeq(clients, r.offset + 1, r.offset + n) \in Seq(Devices)
  <2>1. CASE n = 0
    BY <1>3, <2>1, SubSeqEmpty, EmptySeq
  <2>2. CASE n # 0
    <3>1. r.offset + n <= Len(clients)
      BY <1>2, <2>2
    <3> QED BY <1>1, <1>3, <3>1, PartOf
  <2> QED BY <2>1, <2>2
<1>5. r.all \o SubSeq(clients, r.offset + 1, r.offset + n) \in Seq(Devices)
  BY <1>3, <1>4, Joined
<1>6. [r EXCEPT !.all = @ \o SubSeq(clients, r.offset + 1, r.offset + n),
                !.offset = r.offset + n,
                !.state = IF r.offset + n >= m \/ n = 0 THEN "done" ELSE "on"] \in Cursor
  BY <1>1, <1>3, <1>5 DEF Cursor
<1> QED BY <1>1, <1>2, <1>6 DEF ListTypes, IsInjective

LEMMA OneMoreType == ASSUME NEW n \in Nat PROVE OneMore(n) \in Nat
BY DEF OneMore

LEMMA LeaveTypes ==
  ASSUME ListTypes, Leave
  PROVE  ListTypes'
<1>1. PICK k \in 1 .. Len(clients) :
        /\ clients' = RemoveAt(clients, k)
        /\ cursor' = [c \in Callers |->
             IF cursor[c].state # "on" THEN cursor[c]
             ELSE [cursor[c] EXCEPT !.stay = @ \ {clients[k]},
                                    !.slipped = IF k <= cursor[c].offset THEN OneMore(@) ELSE @]]
  BY DEF Leave
<1> DEFINE m == Len(clients)
<1>2. /\ clients' \in Seq(Devices) /\ Len(clients') = m - 1
      /\ \A i \in 1 .. m - 1 : clients'[i] = IF i < k THEN clients[i] ELSE clients[i + 1]
  BY <1>1, RemoveAtFacts DEF ListTypes
<1>3. m \in Nat /\ \A i, j \in 1 .. m : clients[i] = clients[j] => i = j
  BY ListFacts
<1>4. IsInjective(clients')
  <2>1. DOMAIN clients' = 1 .. m - 1
    BY <1>2, LenProperties
  <2>2. ASSUME NEW i \in 1 .. m - 1, NEW j \in 1 .. m - 1, clients'[i] = clients'[j]
        PROVE  i = j
    <3> DEFINE a == IF i < k THEN i ELSE i + 1
               b == IF j < k THEN j ELSE j + 1
    <3>1. a \in 1 .. m /\ b \in 1 .. m
      BY <1>3
    <3>2. clients[a] = clients[b]
      BY <1>2, <2>2
    <3>3. a = b
      BY <1>3, <3>1, <3>2
    <3> QED BY <3>3
  <2> QED BY <2>1, <2>2 DEF IsInjective
<1>5. cursor' \in [Callers -> Cursor]
  <2> SUFFICES ASSUME NEW c \in Callers PROVE cursor'[c] \in Cursor
    BY <1>1
  <2>1. cursor[c] \in Cursor /\ cursor[c].slipped \in Nat
    BY DEF ListTypes, Cursor
  <2>2. OneMore(cursor[c].slipped) \in Nat
    BY <2>1, OneMoreType
  <2> QED BY <1>1, <2>1, <2>2 DEF Cursor
<1> QED BY <1>2, <1>4, <1>5 DEF ListTypes

LEMMA JoinTypes ==
  ASSUME ListTypes, Join
  PROVE  ListTypes'
<1>1. PICK d \in Devices \ Connected, k \in 1 .. Len(clients) + 1 :
        /\ clients' = InsertAt(clients, k, d)
        /\ cursor' = [c \in Callers |->
             IF cursor[c].state # "on" THEN cursor[c]
             ELSE [cursor[c] EXCEPT !.pushed = IF k <= cursor[c].offset THEN OneMore(@) ELSE @]]
  BY DEF Join
<1> DEFINE m == Len(clients)
<1>2. /\ clients' \in Seq(Devices) /\ Len(clients') = m + 1
      /\ \A i \in 1 .. m + 1 :
           clients'[i] = IF i < k THEN clients[i] ELSE IF i = k THEN d ELSE clients[i - 1]
  <2>1. clients \in Seq(Devices) /\ d \in Devices /\ k \in 1 .. Len(clients) + 1
    BY DEF ListTypes
  <2> DEFINE t == InsertAt(clients, k, d)
  <2>2. /\ t \in Seq(Devices) /\ Len(t) = m + 1
        /\ \A i \in 1 .. m + 1 : t[i] = IF i < k THEN clients[i] ELSE IF i = k THEN d ELSE clients[i - 1]
    BY <2>1, InsertAtFacts
  <2>3. clients' = t
    BY <1>1
  <2> HIDE DEF t, m
  <2> QED BY <2>2, <2>3
<1>3. m \in Nat /\ (\A i, j \in 1 .. m : clients[i] = clients[j] => i = j)
      /\ \A i \in 1 .. m : clients[i] # d
  BY ListFacts
<1>4. IsInjective(clients')
  <2>1. DOMAIN clients' = 1 .. m + 1
    BY <1>2, LenProperties
  <2>2. ASSUME NEW i \in 1 .. m + 1, NEW j \in 1 .. m + 1, clients'[i] = clients'[j]
        PROVE  i = j
    <3> DEFINE a == IF i < k THEN i ELSE i - 1
               b == IF j < k THEN j ELSE j - 1
    <3>1. /\ i # k => a \in 1 .. m /\ clients'[i] = clients[a]
          /\ j # k => b \in 1 .. m /\ clients'[j] = clients[b]
          /\ clients'[k] = d
      BY <1>2, <1>3
    <3>2. CASE i = k \/ j = k
      BY <1>3, <2>2, <3>1, <3>2
    <3>3. CASE i # k /\ j # k
      <4>1. a = b
        BY <1>3, <2>2, <3>1, <3>3
      <4> QED BY <3>3, <4>1
    <3> QED BY <3>2, <3>3
  <2> QED BY <2>1, <2>2 DEF IsInjective
<1>5. cursor' \in [Callers -> Cursor]
  <2> SUFFICES ASSUME NEW c \in Callers PROVE cursor'[c] \in Cursor
    BY <1>1
  <2>1. cursor[c] \in Cursor /\ cursor[c].pushed \in Nat
    BY DEF ListTypes, Cursor
  <2>2. OneMore(cursor[c].pushed) \in Nat
    BY <2>1, OneMoreType
  <2> QED BY <1>1, <2>1, <2>2 DEF Cursor
<1> QED BY <1>2, <1>4, <1>5 DEF ListTypes

LEMMA InitListing == Init => ListTypes
<1> SUFFICES ASSUME Init PROVE ListTypes
  OBVIOUS
<1> DEFINE m == Cardinality(Devices)
<1>1. m \in Nat
  BY FS_CardinalityType, DevicesAssumption
<1>2. clients \in [1 .. m -> Devices] /\ \A i, j \in 1 .. m : i # j => clients[i] # clients[j]
  BY DEF Init, SetToSeqs
<1>3. clients \in Seq(Devices)
  BY <1>1, <1>2, SeqDef
<1>4. IsInjective(clients)
  BY <1>2 DEF IsInjective
<1> QED BY <1>3, <1>4, NoCursorType DEF Init, ListTypes
-----------------------------------------------------------------------------
(* What a reader misses and repeats.                                        *)

\* The clients in a list up to an offset, and from there on.
Ahead(s, o)  == {s[i] : i \in {k \in 1 .. Len(s) : k <= o}}
Behind(s, o) == {s[i] : i \in {k \in 1 .. Len(s) : o < k}}

\* The clients ahead of the reader that it has not listed, and those behind that
\* it has and will list again.
Skipped(s, r) == (r.stay \intersect Ahead(s, r.offset)) \ ToSet(r.all)
Due(s, r)     == (r.stay \intersect Behind(s, r.offset)) \intersect ToSet(r.all)

\* A reader in the loop: its mistakes so far and those it is bound to make are no
\* more than clients came or went ahead of it.
ReaderOK(s, r) ==
  /\ Len(r.all) = r.offset /\ r.offset <= Cardinality(Devices)
  /\ r.stay \subseteq ToSet(s)
  /\ Cardinality(Skipped(s, r)) <= r.slipped
  /\ Cardinality(Again(r)) + Cardinality(Due(s, r)) <= r.pushed
  /\ Cardinality(Again(r)) + Cardinality(r.stay \intersect ToSet(r.all)) <= r.offset

\* One that has returned.
ResultOK(r) ==
  /\ Cardinality(r.stay \ ToSet(r.all)) <= r.slipped
  /\ Cardinality(Again(r)) <= r.pushed

ListInv ==
  \A c \in Callers :
    /\ cursor[c].state = "on" => ReaderOK(clients, cursor[c])
    /\ cursor[c].state = "done" => ResultOK(cursor[c])

LEMMA UpTo ==
  ASSUME NEW a \in Nat, NEW b \in Nat
  PROVE  /\ IsFiniteSet(a + 1 .. a + b) /\ Cardinality(a + 1 .. a + b) = b
         /\ IsFiniteSet(1 .. b) /\ Cardinality(1 .. b) = b
<1>1. a + 1 \in Int /\ a + b \in Int /\ 1 \in Int /\ b \in Int
  OBVIOUS
<1>2. /\ IsFiniteSet(a + 1 .. a + b)
      /\ Cardinality(a + 1 .. a + b) = IF a + 1 > a + b THEN 0 ELSE ((a + b) - (a + 1)) + 1
  BY <1>1, FS_Interval
<1>3. IsFiniteSet(1 .. b) /\ Cardinality(1 .. b) = IF 1 > b THEN 0 ELSE (b - 1) + 1
  BY <1>1, FS_Interval
<1>4. Cardinality(a + 1 .. a + b) = b
  BY <1>2
<1>5. Cardinality(1 .. b) = b
  BY <1>3
<1> QED BY <1>2, <1>3, <1>4, <1>5

LEMMA ReaderTypes ==
  ASSUME NEW r \in Cursor
  PROVE  /\ r.offset \in Nat /\ r.slipped \in Nat /\ r.pushed \in Nat
         /\ r.all \in Seq(Devices) /\ Len(r.all) \in Nat
         /\ r.stay \subseteq Devices /\ ToSet(r.all) = {r.all[i] : i \in 1 .. Len(r.all)}
<1>1. r.all \in Seq(Devices)
  BY DEF Cursor
<1>2. Len(r.all) \in Nat /\ DOMAIN r.all = 1 .. Len(r.all)
  BY <1>1, LenProperties
<1> QED BY <1>1, <1>2 DEF Cursor, ToSet

LEMMA Counts ==
  ASSUME NEW s \in Seq(Devices), NEW r \in Cursor
  PROVE  /\ Cardinality(Devices) \in Nat
         /\ \A T \in SUBSET Devices : IsFiniteSet(T) /\ Cardinality(T) \in Nat /\ Cardinality(T) <= Cardinality(Devices)
         /\ IsFiniteSet(Again(r)) /\ Cardinality(Again(r)) \in Nat
         /\ Skipped(s, r) \subseteq Devices /\ Due(s, r) \subseteq Devices
         /\ r.stay \intersect ToSet(r.all) \subseteq Devices /\ r.stay \ ToSet(r.all) \subseteq Devices
<1>1. \A T \in SUBSET Devices : IsFiniteSet(T) /\ Cardinality(T) \in Nat /\ Cardinality(T) <= Cardinality(Devices)
  BY Fewer, DevicesAssumption
<1>2. Len(r.all) \in Nat /\ r.stay \subseteq Devices
  BY ReaderTypes
<1>3. IsFiniteSet(1 .. Len(r.all))
  BY <1>2, FS_Interval
<1>4. Again(r) \subseteq 1 .. Len(r.all)
  BY DEF Again
<1>5. IsFiniteSet(Again(r)) /\ Cardinality(Again(r)) \in Nat
  BY <1>3, <1>4, Fewer
<1> QED BY <1>1, <1>2, <1>5, FS_CardinalityType, DevicesAssumption DEF Skipped, Due

LEMMA NoLonger ==
  ASSUME NEW s \in Seq(Devices), \A i, j \in 1 .. Len(s) : s[i] = s[j] => i = j
  PROVE  Len(s) \in Nat /\ Len(s) <= Cardinality(Devices)
<1>1. Len(s) \in Nat /\ \A i \in 1 .. Len(s) : s[i] \in Devices
  BY LenProperties, ElementOfSeq
<1>2. IsFiniteSet(1 .. Len(s)) /\ Cardinality(1 .. Len(s)) = Len(s)
  BY <1>1, UpTo
<1> DEFINE S == {s[i] : i \in 1 .. Len(s)}
<1>3. Cardinality(S) = Len(s)
  BY <1>2, PlacesOf
<1>4. Cardinality(S) <= Cardinality(Devices)
  BY <1>1, Fewer, DevicesAssumption
<1> QED BY <1>1, <1>3, <1>4
\* The list and a reader that is in the loop.
Reads(s, r) ==
  /\ s \in Seq(Devices) /\ \A i, j \in 1 .. Len(s) : s[i] = s[j] => i = j
  /\ r \in Cursor /\ ReaderOK(s, r)

\* The reader after a page of n clients.
Turn(s, r, n) ==
  [r EXCEPT !.all = @ \o SubSeq(s, r.offset + 1, r.offset + n),
            !.offset = r.offset + n,
            !.state = IF r.offset + n >= Len(s) \/ n = 0 THEN "done" ELSE "on"]

LEMMA LastTurn ==
  ASSUME NEW s, NEW r, Reads(s, r), Len(s) <= r.offset
  PROVE  Turn(s, r, 0).state = "done" /\ ResultOK(Turn(s, r, 0))
<1> DEFINE p == Turn(s, r, 0)
<1>1. /\ r \in Cursor /\ r.all \in Seq(Devices) /\ Len(r.all) \in Nat /\ r.offset \in Nat
      /\ s \in Seq(Devices) /\ Len(s) \in Nat
      /\ r.stay \subseteq ToSet(s) /\ r.slipped \in Nat /\ r.pushed \in Nat
  BY ReaderTypes, LenProperties DEF Reads, ReaderOK
<1>2. SubSeq(s, r.offset + 1, r.offset + 0) = <<>>
  BY <1>1, SubSeqEmpty
<1>3. r.all \o <<>> = r.all
  BY <1>1, ConcatEmptySeq
<1>4. p.all = r.all /\ p.stay = r.stay /\ p.slipped = r.slipped /\ p.pushed = r.pushed /\ p.state = "done"
  BY <1>1, <1>2, <1>3 DEF Turn, Cursor
<1>5. r.stay \ ToSet(r.all) = Skipped(s, r)
  <2>1. ToSet(s) \subseteq Ahead(s, r.offset)
    <3>1. DOMAIN s = 1 .. Len(s)
      BY <1>1, LenProperties
    <3> QED BY <1>1, <3>1 DEF ToSet, Ahead
  <2> QED BY <1>1, <2>1 DEF Skipped
<1>6. Again(p) = Again(r)
  BY <1>4 DEF Again
<1> HIDE DEF p
<1>7. /\ Cardinality(Skipped(s, r)) <= r.slipped
      /\ Cardinality(Again(r)) + Cardinality(Due(s, r)) <= r.pushed
      /\ Cardinality(Again(r)) \in Nat /\ Cardinality(Due(s, r)) \in Nat
  BY <1>1, Counts DEF Reads, ReaderOK
<1>8. Cardinality(Again(r)) <= r.pushed
  BY <1>1, <1>7
<1> QED BY <1>4, <1>5, <1>6, <1>7, <1>8 DEF ResultOK, p

LEMMA NextTurn ==
  ASSUME NEW s, NEW r, Reads(s, r), NEW n \in Nat, 1 <= n, r.offset + n <= Len(s)
  PROVE  ReaderOK(s, Turn(s, r, n)) /\ (Turn(s, r, n).state = "done" => ResultOK(Turn(s, r, n)))
<1> DEFINE o == r.offset
           m == Len(s)
           p == Turn(s, r, n)
           A == ToSet(r.all)
           New == {s[i] : i \in o + 1 .. o + n}
           P2 == {i \in o + 1 .. o + n : s[i] \in r.stay /\ s[i] \in A}
           P3 == {i \in o + 1 .. o + n : s[i] \in r.stay /\ s[i] \notin A}
           D2 == {s[i] : i \in P2}
           D3 == {s[i] : i \in P3}
<1>1. /\ r \in Cursor /\ r.all \in Seq(Devices) /\ Len(r.all) = o /\ o \in Nat
      /\ s \in Seq(Devices) /\ m \in Nat /\ o + n <= m
      /\ \A i \in 1 .. m : s[i] \in Devices
      /\ \A i, j \in 1 .. m : s[i] = s[j] => i = j
      /\ r.stay \subseteq ToSet(s) /\ r.stay \subseteq Devices
      /\ r.slipped \in Nat /\ r.pushed \in Nat
      /\ ToSet(s) = {s[i] : i \in 1 .. m}
      /\ A = {r.all[i] : i \in 1 .. o}
  <2>1. s \in Seq(Devices) /\ r \in Cursor /\ ReaderOK(s, r) /\ \A i, j \in 1 .. m : s[i] = s[j] => i = j
    BY DEF Reads
  <2>2. m \in Nat /\ DOMAIN s = 1 .. m /\ \A i \in 1 .. m : s[i] \in Devices
    BY <2>1, LenProperties, ElementOfSeq
  <2>3. ToSet(s) = {s[i] : i \in 1 .. m}
    BY <2>2 DEF ToSet
  <2>4. Len(r.all) = o /\ r.stay \subseteq ToSet(s)
    BY <2>1 DEF ReaderOK
  <2> QED BY <2>1, <2>2, <2>3, <2>4, ReaderTypes
<1>n. o \in Nat /\ m \in Nat /\ n \in Nat /\ 1 <= n /\ o + n <= m
  BY <1>1
<1> DEFINE t == SubSeq(s, o + 1, o + n)
<1>2. t \in Seq(Devices) /\ Len(t) = n /\ \A i \in 1 .. n : t[i] = s[o + i]
  <2> HIDE DEF o, m
  <2>1. o + 1 \in Nat \ {0} /\ o + n \in Nat /\ o + 1 <= o + n /\ ((o + n) - (o + 1)) + 1 = n
    BY <1>n
  <2>2. /\ t \in Seq(Devices)
        /\ Len(t) = IF o + 1 <= o + n THEN ((o + n) - (o + 1)) + 1 ELSE 0
        /\ \A i \in 1 .. ((o + n) - (o + 1)) + 1 : t[i] = s[((o + 1) + i) - 1]
    BY <1>1, <1>n, <2>1, PartOf DEF m
  <2>3. \A i \in 1 .. n : ((o + 1) + i) - 1 = o + i
    BY <1>n
  <2> HIDE DEF t
  <2> QED BY <2>1, <2>2, <2>3
<1>3. /\ r.all \o t \in Seq(Devices) /\ Len(r.all \o t) = o + n
      /\ \A i \in 1 .. o + n : (r.all \o t)[i] = IF i <= o THEN r.all[i] ELSE s[i]
  <2> HIDE DEF t, o, m
  <2>0. /\ r.all \o t \in Seq(Devices) /\ Len(r.all \o t) = Len(r.all) + Len(t)
        /\ \A i \in 1 .. Len(r.all) + Len(t) :
             (r.all \o t)[i] = IF i <= Len(r.all) THEN r.all[i] ELSE t[i - Len(r.all)]
    <3>1. r.all \in Seq(Devices)
      BY <1>1
    <3> QED BY <1>2, <3>1, Joined
  <2>1. /\ r.all \o t \in Seq(Devices) /\ Len(r.all \o t) = o + n
        /\ \A i \in 1 .. o + n : (r.all \o t)[i] = IF i <= o THEN r.all[i] ELSE t[i - o]
    <3>1. Len(r.all) = o /\ Len(t) = n
      BY <1>1, <1>2
    <3> QED BY <2>0, <3>1
  <2> DEFINE u == r.all \o t
  <2> HIDE DEF u
  <2>2. ASSUME NEW i \in 1 .. o + n PROVE u[i] = IF i <= o THEN r.all[i] ELSE s[i]
    <3>1. u[i] = IF i <= o THEN r.all[i] ELSE t[i - o]
      BY <2>1 DEF u
    <3>2. CASE i <= o
      BY <3>1, <3>2
    <3>3. CASE i > o
      <4>1. i - o \in 1 .. n /\ o + (i - o) = i
        BY <1>n, <3>3
      <4>2. t[i - o] = s[i]
        BY <1>2, <4>1
      <4> QED BY <1>n, <3>1, <3>3, <4>2
    <3> QED BY <1>n, <3>2, <3>3
  <2> QED BY <2>1, <2>2 DEF u
<1>4. /\ p.all = r.all \o t /\ p.offset = o + n /\ p.stay = r.stay
      /\ p.slipped = r.slipped /\ p.pushed = r.pushed
      /\ p.state = "done" => o + n = m
  <2>1. p = [r EXCEPT !.all = r.all \o t, !.offset = o + n,
                      !.state = IF o + n >= m \/ n = 0 THEN "done" ELSE "on"]
    BY <1>1 DEF Turn, Cursor
  <2> HIDE DEF p, t, o, m
  <2>2. p.state = IF o + n >= m \/ n = 0 THEN "done" ELSE "on"
    BY <1>1, <2>1 DEF Cursor
  <2>3. p.state = "done" => o + n = m
    BY <1>n, <2>2
  <2> QED BY <1>1, <2>1, <2>3 DEF Cursor
<1>5. /\ Len(p.all) = o + n
      /\ \A i \in 1 .. o + n : p.all[i] = IF i <= o THEN r.all[i] ELSE s[i]
      /\ ToSet(p.all) = {p.all[i] : i \in 1 .. o + n}
  <2> HIDE DEF p, t, o, m
  <2>1. p.all \in Seq(Devices) /\ Len(p.all) = o + n
    BY <1>3, <1>4
  <2>2. DOMAIN p.all = 1 .. o + n
    BY <2>1, LenProperties
  <2>3. ToSet(p.all) = {p.all[i] : i \in 1 .. o + n}
    BY <2>2 DEF ToSet
  <2> QED BY <1>3, <1>4, <2>1, <2>3
<1> HIDE DEF p, t, o, m
<1>6. ToSet(p.all) = A \union New
  <2>1. ASSUME NEW x \in ToSet(p.all) PROVE x \in A \union New
    <3>1. PICK i \in 1 .. o + n : x = p.all[i]
      BY <1>5
    <3>2. CASE i <= o
      <4>1. i \in 1 .. o /\ x = r.all[i]
        BY <1>n, <1>5, <3>1, <3>2
      <4> QED BY <1>1, <4>1
    <3>3. CASE i > o
      <4>1. i \in o + 1 .. o + n
        BY <1>n, <3>3
      <4>2. x = s[i]
        BY <1>n, <1>5, <3>1, <3>3
      <4> QED BY <4>1, <4>2
    <3> QED BY <1>n, <3>2, <3>3
  <2>2. ASSUME NEW i \in 1 .. o PROVE r.all[i] \in ToSet(p.all)
    <3>1. i \in 1 .. o + n /\ i <= o
      BY <1>1
    <3> QED BY <1>5, <3>1
  <2>3. ASSUME NEW i \in o + 1 .. o + n PROVE s[i] \in ToSet(p.all)
    <3>1. i \in 1 .. o + n /\ ~(i <= o)
      BY <1>1
    <3> QED BY <1>5, <3>1
  <2> HIDE DEF A
  <2> QED BY <1>1, <2>1, <2>2, <2>3
<1>7. Ahead(s, o + n) = Ahead(s, o) \union New
  <2>1. \A i : i \in 1 .. m /\ i <= o + n <=> (i \in 1 .. m /\ i <= o) \/ i \in o + 1 .. o + n
    BY <1>1
  <2> QED BY <2>1 DEF Ahead, m
<1>8. Behind(s, o) = Behind(s, o + n) \union New /\ \A x \in New : x \notin Behind(s, o + n)
  <2>1. \A i : i \in 1 .. m /\ o < i <=> (i \in 1 .. m /\ o + n < i) \/ i \in o + 1 .. o + n
    BY <1>1
  <2>2. ASSUME NEW i \in o + 1 .. o + n, NEW j \in 1 .. m, o + n < j PROVE s[i] # s[j]
    <3>1. i \in 1 .. m /\ i # j
      BY <1>1, <2>2
    <3> QED BY <1>1, <3>1
  <2> QED BY <2>1, <2>2 DEF Behind, m
<1>9. Skipped(s, p) \subseteq Skipped(s, r)
  BY <1>4, <1>6, <1>7 DEF Skipped, o
<1>10. /\ IsFiniteSet(P2) /\ IsFiniteSet(P3) /\ Cardinality(P2) \in Nat /\ Cardinality(P3) \in Nat
       /\ Cardinality(P2) + Cardinality(P3) <= n
       /\ \A x \in P2 : x \notin P3
  <2>1. IsFiniteSet(o + 1 .. o + n) /\ Cardinality(o + 1 .. o + n) = n
    BY <1>1, UpTo
  <2>2. P2 \subseteq o + 1 .. o + n /\ P3 \subseteq o + 1 .. o + n /\ P2 \union P3 \subseteq o + 1 .. o + n
    OBVIOUS
  <2>3. \A x \in P2 : x \notin P3
    OBVIOUS
  <2>4. IsFiniteSet(P2) /\ IsFiniteSet(P3) /\ Cardinality(P2 \union P3) <= n
    BY <2>1, <2>2, Fewer
  <2> HIDE DEF P2, P3
  <2> QED BY <2>3, <2>4, Apart
<1>11. /\ Cardinality(D2) = Cardinality(P2) /\ Cardinality(D3) = Cardinality(P3)
       /\ IsFiniteSet(D2) /\ IsFiniteSet(D3)
  <2>1. \A i, j \in P2 : s[i] = s[j] => i = j
    BY <1>1
  <2>2. \A i, j \in P3 : s[i] = s[j] => i = j
    BY <1>1
  <2> HIDE DEF P2, P3
  <2>3. Cardinality(D2) = Cardinality(P2) /\ IsFiniteSet(D2)
    BY <1>10, <2>1, PlacesOf
  <2>4. Cardinality(D3) = Cardinality(P3) /\ IsFiniteSet(D3)
    BY <1>10, <2>2, PlacesOf
  <2> QED BY <2>3, <2>4
<1>12. /\ D2 = (r.stay \intersect New) \intersect A
       /\ D3 = (r.stay \intersect New) \ A
  OBVIOUS
<1>13. Due(s, r) = Due(s, p) \union D2 /\ \A x \in Due(s, p) : x \notin D2
  <2>1. Due(s, p) = (r.stay \intersect Behind(s, o + n)) \intersect (A \union New)
    BY <1>4, <1>6 DEF Due
  <2>2. Due(s, r) = (r.stay \intersect Behind(s, o)) \intersect A
    BY DEF Due, o
  <2> HIDE DEF A, New, D2, D3
  <2> QED BY <1>8, <1>12, <2>1, <2>2
<1>14. Again(p) \subseteq Again(r) \union P2
  <2> SUFFICES ASSUME NEW i \in 1 .. o + n, p.all[i] \in r.stay,
                      NEW k \in 1 .. i - 1, p.all[k] = p.all[i]
               PROVE  i \in Again(r) \union P2
    BY <1>4, <1>5 DEF Again
  <2>1. k \in 1 .. o + n /\ k # i
    BY <1>1
  <2>2. CASE i <= o
    <3>1. i \in 1 .. Len(r.all) /\ k \in 1 .. i - 1 /\ p.all[i] = r.all[i] /\ p.all[k] = r.all[k]
      BY <1>1, <1>5, <2>1, <2>2
    <3> QED BY <3>1 DEF Again
  <2>3. CASE i > o
    <3>1. i \in o + 1 .. o + n /\ p.all[i] = s[i] /\ i \in 1 .. m
      BY <1>1, <1>5, <2>3
    <3>2. CASE k <= o
      <4>1. r.all[k] = s[i] /\ k \in 1 .. o
        BY <1>1, <1>5, <2>1, <3>1, <3>2
      <4>2. s[i] \in A
        BY <1>1, <4>1
      <4> QED BY <3>1, <4>2
    <3>3. CASE k > o
      <4>1. p.all[k] = s[k] /\ k \in 1 .. m
        BY <1>1, <1>5, <2>1, <3>3
      <4> QED BY <1>1, <2>1, <3>1, <4>1
    <3> QED BY <1>1, <3>2, <3>3
  <2> QED BY <1>1, <2>2, <2>3
<1>15. (r.stay \intersect ToSet(p.all)) = (r.stay \intersect A) \union D3
  <2> HIDE DEF A, New, D3
  <2> QED BY <1>6, <1>12
<1> DEFINE a == Cardinality(Again(r))
           b == Cardinality(Due(s, r))
           c == Cardinality(r.stay \intersect A)
<1>16. /\ a \in Nat /\ b \in Nat /\ c \in Nat /\ IsFiniteSet(Again(r))
       /\ Cardinality(Skipped(s, r)) <= r.slipped /\ a + b <= r.pushed /\ a + c <= o
       /\ IsFiniteSet(Skipped(s, r)) /\ IsFiniteSet(r.stay \intersect A) /\ IsFiniteSet(Due(s, p))
       /\ p.stay \subseteq Devices
  <2>1. /\ IsFiniteSet(Again(r)) /\ a \in Nat
        /\ \A T \in SUBSET Devices : IsFiniteSet(T) /\ Cardinality(T) \in Nat
        /\ Skipped(s, r) \subseteq Devices /\ Due(s, r) \subseteq Devices
        /\ r.stay \intersect A \subseteq Devices
    BY <1>1, Counts
  <2>2. /\ Cardinality(Skipped(s, r)) <= r.slipped /\ a + b <= r.pushed /\ a + c <= o
    BY DEF Reads, ReaderOK, o
  <2>3. Due(s, p) \subseteq Devices
    BY <1>1, <1>4 DEF Due
  <2> QED BY <1>1, <1>4, <2>1, <2>2, <2>3
<1>17. Cardinality(Skipped(s, p)) <= p.slipped
  <2>1. Cardinality(Skipped(s, p)) \in Nat /\ Cardinality(Skipped(s, p)) <= Cardinality(Skipped(s, r))
        /\ Cardinality(Skipped(s, r)) \in Nat
    BY <1>9, <1>16, Fewer
  <2> QED BY <1>1, <1>4, <1>16, <2>1
<1>18. Cardinality(Again(p)) \in Nat /\ Cardinality(Again(p)) <= a + Cardinality(P2)
  <2>1. IsFiniteSet(Again(p))
    <3>1. IsFiniteSet(Again(r) \union P2)
      BY <1>10, <1>16, FS_Union
    <3> QED BY <1>14, <3>1, Fewer
  <2> DEFINE R == Again(p) \ Again(r)
  <2>2. R \subseteq P2 /\ Again(p) \subseteq Again(r) \union R /\ \A x \in Again(r) : x \notin R
    BY <1>14
  <2>3. IsFiniteSet(R) /\ Cardinality(R) <= Cardinality(P2) /\ Cardinality(R) \in Nat
    BY <1>10, <2>2, Fewer
  <2> HIDE DEF R
  <2>4. IsFiniteSet(Again(r) \union R) /\ Cardinality(Again(r) \union R) = a + Cardinality(R)
    BY <1>16, <2>2, <2>3, Apart
  <2>5. Cardinality(Again(p)) \in Nat /\ Cardinality(Again(p)) <= Cardinality(Again(r) \union R)
    BY <2>2, <2>4, Fewer
  <2> HIDE DEF a, P2
  <2> QED BY <1>10, <1>16, <2>3, <2>4, <2>5
<1>19. b = Cardinality(Due(s, p)) + Cardinality(P2) /\ Cardinality(Due(s, p)) \in Nat
  <2> HIDE DEF P2, D2
  <2> QED BY <1>11, <1>13, <1>16, Apart
<1>20. Cardinality(p.stay \intersect ToSet(p.all)) = c + Cardinality(P3)
  <2>1. \A x \in r.stay \intersect A : x \notin D3
    BY <1>12
  <2>2. p.stay \intersect ToSet(p.all) = (r.stay \intersect A) \union D3
    BY <1>4, <1>15
  <2> HIDE DEF P3, D3, A
  <2>3. Cardinality((r.stay \intersect A) \union D3) = c + Cardinality(D3)
    BY <1>11, <1>16, <2>1, Apart
  <2> QED BY <1>11, <2>2, <2>3
<1>21. ReaderOK(s, p)
  <2>1. Cardinality(Again(p)) + Cardinality(Due(s, p)) <= p.pushed
    <3> DEFINE x == Cardinality(Again(p))  y == Cardinality(Due(s, p))  z == Cardinality(P2)
    <3>1. /\ x \in Nat /\ y \in Nat /\ z \in Nat /\ a \in Nat /\ b \in Nat /\ p.pushed \in Nat
          /\ x <= a + z /\ b = y + z /\ a + b <= p.pushed
      BY <1>1, <1>4, <1>10, <1>16, <1>18, <1>19
    <3> HIDE DEF a, b, x, y, z
    <3>2. x + y <= p.pushed
      BY <3>1
    <3> QED BY <3>2 DEF x, y
  <2>2. Cardinality(Again(p)) + Cardinality(p.stay \intersect ToSet(p.all)) <= p.offset
    <3> HIDE DEF a, c, P2, P3
    <3> QED BY <1>1, <1>4, <1>10, <1>16, <1>18, <1>20
  <2>3. p.offset <= Cardinality(Devices)
    <3>1. m <= Cardinality(Devices) /\ Cardinality(Devices) \in Nat
      BY <1>1, NoLonger, FS_CardinalityType, DevicesAssumption DEF m
    <3> QED BY <1>1, <1>4, <3>1
  <2> QED BY <1>1, <1>4, <1>5, <1>17, <2>1, <2>2, <2>3 DEF ReaderOK
<1>22. ASSUME p.state = "done" PROVE ResultOK(p)
  <2>1. p.stay \ ToSet(p.all) = Skipped(s, p)
    <3>1. ToSet(s) \subseteq Ahead(s, p.offset)
      <4>1. p.offset = m /\ \A i \in 1 .. m : i <= m
        BY <1>1, <1>4, <1>22
      <4> QED BY <1>1, <4>1 DEF Ahead, m
    <3> QED BY <1>1, <1>4, <3>1 DEF Skipped
  <2>2. Cardinality(Again(p)) <= p.pushed
    <3> HIDE DEF a, b, P2
    <3> QED BY <1>1, <1>4, <1>10, <1>16, <1>18, <1>19
  <2> QED BY <1>17, <2>1, <2>2 DEF ResultOK
<1> QED BY <1>21, <1>22 DEF p
LEMMA SeqFacts ==
  ASSUME NEW s \in Seq(Devices)
  PROVE  /\ Len(s) \in Nat /\ \A i \in 1 .. Len(s) : s[i] \in Devices
         /\ ToSet(s) = {s[i] : i \in 1 .. Len(s)}
<1>1. Len(s) \in Nat /\ DOMAIN s = 1 .. Len(s)
  BY LenProperties
<1> QED BY <1>1, ElementOfSeq DEF ToSet

\* A reader whose list loses the client at k.
LEMMA ClientLeaves ==
  ASSUME NEW s, NEW r, Reads(s, r), NEW k \in 1 .. Len(s)
  PROVE  ReaderOK(RemoveAt(s, k),
                  [r EXCEPT !.stay = @ \ {s[k]},
                            !.slipped = IF k <= r.offset THEN OneMore(@) ELSE @])
<1> DEFINE o == r.offset
           m == Len(s)
           u == RemoveAt(s, k)
           p == [r EXCEPT !.stay = @ \ {s[k]},
                          !.slipped = IF k <= r.offset THEN OneMore(@) ELSE @]
           N == Cardinality(Devices)
<1>1. /\ r \in Cursor /\ ReaderOK(s, r) /\ r.all \in Seq(Devices)
      /\ s \in Seq(Devices) /\ ToSet(s) = {s[i] : i \in 1 .. m}
      /\ \A i, j \in 1 .. m : s[i] = s[j] => i = j
      /\ r.stay \subseteq ToSet(s) /\ r.stay \subseteq Devices
  BY SeqFacts, ReaderTypes DEF Reads, ReaderOK
<1>n. o \in Nat /\ m \in Nat /\ k \in 1 .. m /\ r.slipped \in Nat /\ r.pushed \in Nat
  BY <1>1, SeqFacts, ReaderTypes
<1>2. /\ u \in Seq(Devices) /\ Len(u) = m - 1
      /\ \A i \in 1 .. m - 1 : u[i] = IF i < k THEN s[i] ELSE s[i + 1]
  BY <1>1, RemoveAtFacts
<1>3. ToSet(u) = {u[i] : i \in 1 .. m - 1}
  BY <1>2, SeqFacts
<1>4. /\ p.all = r.all /\ p.offset = o /\ p.pushed = r.pushed /\ p.stay = r.stay \ {s[k]}
      /\ p.slipped = IF k <= o THEN OneMore(r.slipped) ELSE r.slipped
  BY <1>1 DEF Cursor
<1> HIDE DEF o, m, u, p
<1>5. p.stay \subseteq ToSet(u)
  <2> SUFFICES ASSUME NEW i \in 1 .. m, i # k PROVE s[i] \in ToSet(u)
    BY <1>1, <1>4
  <2> DEFINE j == IF i < k THEN i ELSE i - 1
  <2>1. j \in 1 .. m - 1 /\ (IF j < k THEN j ELSE j + 1) = i
    BY <1>n
  <2>2. u[j] = s[i]
    BY <1>2, <2>1
  <2> QED BY <1>3, <2>1, <2>2
<1>6. Behind(u, o) \subseteq Behind(s, o)
  <2> SUFFICES ASSUME NEW i \in 1 .. m - 1, o < i PROVE u[i] \in Behind(s, o)
    BY <1>2 DEF Behind
  <2>1. i \in 1 .. m /\ i + 1 \in 1 .. m /\ o < i + 1
    BY <1>n
  <2> QED BY <1>2, <2>1 DEF Behind, m
<1>7. k > o => Ahead(u, o) \subseteq Ahead(s, o)
  <2> SUFFICES ASSUME NEW i \in 1 .. m - 1, i <= o, k > o PROVE u[i] \in Ahead(s, o)
    BY <1>2 DEF Ahead
  <2>1. i \in 1 .. m /\ i < k
    BY <1>n
  <2> QED BY <1>2, <2>1 DEF Ahead, m
<1>8. Ahead(u, o) \subseteq Ahead(s, o) \union {s[o + 1]}
  <2> SUFFICES ASSUME NEW i \in 1 .. m - 1, i <= o PROVE u[i] \in Ahead(s, o) \union {s[o + 1]}
    BY <1>2 DEF Ahead
  <2>1. i \in 1 .. m /\ i + 1 \in 1 .. m /\ (i + 1 <= o \/ i + 1 = o + 1)
    BY <1>n
  <2>2. u[i] = s[i] \/ u[i] = s[i + 1]
    BY <1>2
  <2>3. s[i] \in Ahead(s, o)
    BY <2>1 DEF Ahead, m
  <2>4. CASE i + 1 <= o
    <3>1. s[i + 1] \in Ahead(s, o)
      BY <2>1, <2>4 DEF Ahead, m
    <3> QED BY <2>2, <2>3, <3>1
  <2>5. CASE i + 1 = o + 1
    BY <2>2, <2>3, <2>5
  <2> QED BY <2>1, <2>4, <2>5
<1>9. /\ k > o => Skipped(u, p) \subseteq Skipped(s, r)
      /\ Skipped(u, p) \subseteq Skipped(s, r) \union {s[o + 1]}
      /\ Due(u, p) \subseteq Due(s, r) /\ Again(p) \subseteq Again(r)
      /\ p.stay \intersect ToSet(p.all) \subseteq r.stay \intersect ToSet(r.all)
      /\ Skipped(u, p) \subseteq Devices
  BY <1>1, <1>4, <1>6, <1>7, <1>8 DEF Skipped, Due, Again, o
<1> DEFINE a == Cardinality(Again(r))
           b == Cardinality(Due(s, r))
           c == Cardinality(r.stay \intersect ToSet(r.all))
           x == Cardinality(Again(p))
           y == Cardinality(Due(u, p))
           z == Cardinality(p.stay \intersect ToSet(p.all))
           q == Cardinality(Skipped(s, r))
           w == Cardinality(Skipped(u, p))
<1>10. /\ a \in Nat /\ b \in Nat /\ c \in Nat /\ x \in Nat /\ y \in Nat /\ z \in Nat
       /\ q \in Nat /\ w \in Nat /\ N \in Nat
       /\ x <= a /\ y <= b /\ z <= c /\ w <= q + 1 /\ w <= N /\ (k > o => w <= q)
       /\ q <= r.slipped /\ a + b <= r.pushed /\ a + c <= o /\ o <= N
  <2>1. /\ N \in Nat
        /\ \A T \in SUBSET Devices : IsFiniteSet(T) /\ Cardinality(T) \in Nat /\ Cardinality(T) <= N
        /\ IsFiniteSet(Again(r)) /\ a \in Nat
        /\ Skipped(s, r) \subseteq Devices /\ Due(s, r) \subseteq Devices
        /\ r.stay \intersect ToSet(r.all) \subseteq Devices
    BY <1>1, Counts
  <2>2. q <= r.slipped /\ a + b <= r.pushed /\ a + c <= o /\ o <= N
    BY <1>1 DEF ReaderOK, o
  <2>3. IsFiniteSet(Skipped(s, r)) /\ IsFiniteSet(Due(s, r)) /\ IsFiniteSet(r.stay \intersect ToSet(r.all))
        /\ q \in Nat /\ b \in Nat /\ c \in Nat /\ w \in Nat /\ w <= N
    BY <1>9, <2>1
  <2>4. x \in Nat /\ x <= a
    BY <1>9, <2>1, Fewer
  <2>5. y \in Nat /\ y <= b
    BY <1>9, <2>3, Fewer
  <2>6. z \in Nat /\ z <= c
    BY <1>9, <2>3, Fewer
  <2>7. k > o => w <= q
    BY <1>9, <2>3, Fewer
  <2>8. w <= q + 1
    BY <1>9, <2>3, OneExtra
  <2> QED BY <2>1, <2>2, <2>3, <2>4, <2>5, <2>6, <2>7, <2>8
<1>11. /\ Len(p.all) = p.offset /\ p.offset <= N
  BY <1>1, <1>4 DEF ReaderOK, o
<1> HIDE DEF a, b, c, x, y, z, q, w, N
<1>12. w <= p.slipped /\ x + y <= p.pushed /\ x + z <= p.offset
  <2>1. w <= p.slipped
    BY <1>4, <1>10, <1>n DEF OneMore, N
  <2>2. x + y <= p.pushed /\ x + z <= p.offset
    <3>1. x + y <= a + b /\ x + z <= a + c
      BY <1>10
    <3> QED BY <1>4, <1>10, <1>n, <3>1
  <2> QED BY <2>1, <2>2
<1>13. ReaderOK(u, p)
  BY <1>5, <1>11, <1>12 DEF ReaderOK, w, x, y, z, N
<1> QED BY <1>13 DEF u, p

\* A reader in whose list another client connects, at k.
LEMMA ClientJoins ==
  ASSUME NEW s, NEW r, Reads(s, r), NEW k \in 1 .. Len(s) + 1, NEW d \in Devices, d \notin ToSet(s)
  PROVE  ReaderOK(InsertAt(s, k, d),
                  [r EXCEPT !.pushed = IF k <= r.offset THEN OneMore(@) ELSE @])
<1> DEFINE o == r.offset
           m == Len(s)
           u == InsertAt(s, k, d)
           p == [r EXCEPT !.pushed = IF k <= r.offset THEN OneMore(@) ELSE @]
           N == Cardinality(Devices)
<1>1. /\ r \in Cursor /\ ReaderOK(s, r) /\ r.all \in Seq(Devices)
      /\ s \in Seq(Devices) /\ ToSet(s) = {s[i] : i \in 1 .. m}
      /\ r.stay \subseteq ToSet(s) /\ r.stay \subseteq Devices
  BY SeqFacts, ReaderTypes DEF Reads, ReaderOK
<1>n. o \in Nat /\ m \in Nat /\ k \in 1 .. m + 1 /\ r.slipped \in Nat /\ r.pushed \in Nat
  BY <1>1, SeqFacts, ReaderTypes
<1>2. /\ u \in Seq(Devices) /\ Len(u) = m + 1
      /\ \A i \in 1 .. m + 1 : u[i] = IF i < k THEN s[i] ELSE IF i = k THEN d ELSE s[i - 1]
  <2>1. /\ u \in Seq(Devices) /\ Len(u) = Len(s) + 1
        /\ \A i \in 1 .. Len(s) + 1 : u[i] = IF i < k THEN s[i] ELSE IF i = k THEN d ELSE s[i - 1]
    <3> HIDE DEF m
    <3> QED BY <1>1, InsertAtFacts
  <2> HIDE DEF u
  <2> QED BY <2>1
<1>3. ToSet(u) = {u[i] : i \in 1 .. m + 1}
  BY <1>2, SeqFacts
<1>4. /\ p.all = r.all /\ p.offset = o /\ p.slipped = r.slipped /\ p.stay = r.stay
      /\ p.pushed = IF k <= o THEN OneMore(r.pushed) ELSE r.pushed
  BY <1>1 DEF Cursor
<1>d. d \notin r.stay
  BY <1>1
<1> HIDE DEF o, m, u, p
<1>5. p.stay \subseteq ToSet(u)
  <2> SUFFICES ASSUME NEW i \in 1 .. m PROVE s[i] \in ToSet(u)
    BY <1>1, <1>4
  <2> DEFINE j == IF i < k THEN i ELSE i + 1
  <2>1. j \in 1 .. m + 1 /\ j # k /\ (IF j < k THEN j ELSE j - 1) = i
    BY <1>n
  <2>2. u[j] = s[i]
    BY <1>2, <2>1
  <2> QED BY <1>3, <2>1, <2>2
<1>6. Ahead(u, o) \subseteq Ahead(s, o) \union {d}
  <2> SUFFICES ASSUME NEW i \in 1 .. m + 1, i <= o PROVE u[i] \in Ahead(s, o) \union {d}
    BY <1>2 DEF Ahead
  <2>1. CASE i < k
    <3>1. i \in 1 .. m /\ u[i] = s[i]
      BY <1>n, <1>2, <2>1
    <3> QED BY <3>1 DEF Ahead, m
  <2>2. CASE i = k
    BY <1>2, <2>2, <1>n
  <2>3. CASE i > k
    <3>1. i - 1 \in 1 .. m /\ i - 1 <= o /\ u[i] = s[i - 1]
      BY <1>n, <1>2, <2>3
    <3> QED BY <3>1 DEF Ahead, m
  <2> QED BY <1>n, <2>1, <2>2, <2>3
<1>7. k > o => Behind(u, o) \subseteq Behind(s, o) \union {d}
  <2> SUFFICES ASSUME NEW i \in 1 .. m + 1, o < i, k > o PROVE u[i] \in Behind(s, o) \union {d}
    BY <1>2 DEF Behind
  <2>1. CASE i < k
    <3>1. i \in 1 .. m /\ u[i] = s[i]
      BY <1>n, <1>2, <2>1
    <3> QED BY <3>1 DEF Behind, m
  <2>2. CASE i = k
    BY <1>2, <2>2, <1>n
  <2>3. CASE i > k
    <3>1. i - 1 \in 1 .. m /\ o < i - 1 /\ u[i] = s[i - 1]
      BY <1>n, <1>2, <2>3
    <3> QED BY <3>1 DEF Behind, m
  <2> QED BY <1>n, <2>1, <2>2, <2>3
<1>8. Behind(u, o) \subseteq (Behind(s, o) \union {s[o]}) \union {d}
  <2> SUFFICES ASSUME NEW i \in 1 .. m + 1, o < i
               PROVE  u[i] \in (Behind(s, o) \union {s[o]}) \union {d}
    BY <1>2 DEF Behind
  <2>1. CASE i < k
    <3>1. i \in 1 .. m /\ u[i] = s[i]
      BY <1>n, <1>2, <2>1
    <3> QED BY <3>1 DEF Behind, m
  <2>2. CASE i = k
    BY <1>2, <2>2, <1>n
  <2>3. CASE i > k
    <3>1. i - 1 \in 1 .. m /\ (o < i - 1 \/ i - 1 = o) /\ u[i] = s[i - 1]
      BY <1>n, <1>2, <2>3
    <3>2. CASE o < i - 1
      BY <3>1, <3>2 DEF Behind, m
    <3>3. CASE i - 1 = o
      BY <3>1, <3>3
    <3> QED BY <3>1, <3>2, <3>3
  <2> QED BY <1>n, <2>1, <2>2, <2>3
<1>9. /\ Skipped(u, p) \subseteq Skipped(s, r)
      /\ k > o => Due(u, p) \subseteq Due(s, r)
      /\ Due(u, p) \subseteq Due(s, r) \union {s[o]}
      /\ Due(u, p) \subseteq r.stay \intersect ToSet(r.all)
      /\ Again(p) = Again(r)
      /\ p.stay \intersect ToSet(p.all) = r.stay \intersect ToSet(r.all)
  BY <1>4, <1>d, <1>6, <1>7, <1>8 DEF Skipped, Due, Again, o
<1> DEFINE a == Cardinality(Again(r))
           b == Cardinality(Due(s, r))
           c == Cardinality(r.stay \intersect ToSet(r.all))
           y == Cardinality(Due(u, p))
           q == Cardinality(Skipped(s, r))
           w == Cardinality(Skipped(u, p))
<1>10. /\ a \in Nat /\ b \in Nat /\ c \in Nat /\ y \in Nat /\ q \in Nat /\ w \in Nat /\ N \in Nat
       /\ y <= b + 1 /\ y <= c /\ (k > o => y <= b) /\ w <= q
       /\ q <= r.slipped /\ a + b <= r.pushed /\ a + c <= o /\ o <= N
  <2>1. /\ N \in Nat
        /\ \A T \in SUBSET Devices : IsFiniteSet(T) /\ Cardinality(T) \in Nat /\ Cardinality(T) <= N
        /\ a \in Nat
        /\ Skipped(s, r) \subseteq Devices /\ Due(s, r) \subseteq Devices
        /\ r.stay \intersect ToSet(r.all) \subseteq Devices
    BY <1>1, Counts
  <2>2. q <= r.slipped /\ a + b <= r.pushed /\ a + c <= o /\ o <= N
    BY <1>1 DEF ReaderOK, o
  <2>3. IsFiniteSet(Skipped(s, r)) /\ IsFiniteSet(Due(s, r)) /\ IsFiniteSet(r.stay \intersect ToSet(r.all))
        /\ q \in Nat /\ b \in Nat /\ c \in Nat
    BY <2>1
  <2>4. w \in Nat /\ w <= q
    BY <1>9, <2>3, Fewer
  <2>5. y \in Nat /\ y <= c
    BY <1>9, <2>3, Fewer
  <2>6. k > o => y <= b
    BY <1>9, <2>3, Fewer
  <2>7. y <= b + 1
    BY <1>9, <2>3, OneExtra
  <2> QED BY <2>1, <2>2, <2>3, <2>4, <2>5, <2>6, <2>7
<1>11. Len(p.all) = p.offset /\ p.offset <= N
  BY <1>1, <1>4 DEF ReaderOK, o
<1>12. Cardinality(Again(p)) = a /\ Cardinality(p.stay \intersect ToSet(p.all)) = c
  BY <1>9
<1> HIDE DEF a, b, c, y, q, w, N
<1>13. w <= p.slipped /\ a + y <= p.pushed /\ a + c <= p.offset
  <2>1. w <= p.slipped
    BY <1>4, <1>10, <1>n
  <2>2. a + c <= p.offset
    BY <1>4, <1>10
  <2>3. a + y <= p.pushed
    <3>1. CASE k > o
      BY <1>4, <1>10, <1>n, <3>1
    <3>2. CASE k <= o /\ r.pushed < N
      <4>1. p.pushed = r.pushed + 1
        BY <1>4, <3>2 DEF OneMore, N
      <4> QED BY <1>10, <1>n, <4>1
    <3>3. CASE k <= o /\ r.pushed >= N
      <4>1. p.pushed = r.pushed
        BY <1>4, <1>10, <1>n, <3>3 DEF OneMore, N
      <4>2. a + y <= N
        BY <1>10, <1>n
      <4> QED BY <1>10, <1>n, <3>3, <4>1, <4>2
    <3> QED BY <1>10, <1>n, <3>1, <3>2, <3>3
  <2> QED BY <2>1, <2>2, <2>3
<1>14. ReaderOK(u, p)
  BY <1>5, <1>11, <1>12, <1>13 DEF ReaderOK, w, y, N
<1> QED BY <1>14 DEF u, p

LEMMA ReaderBegins ==
  ASSUME NEW s \in Seq(Devices)
  PROVE  ReaderOK(s, [NoCursor EXCEPT !.state = "on", !.stay = ToSet(s)])
<1> DEFINE p == [NoCursor EXCEPT !.state = "on", !.stay = ToSet(s)]
<1>1. /\ p.all = <<>> /\ p.offset = 0 /\ p.stay = ToSet(s) /\ p.slipped = 0 /\ p.pushed = 0
      /\ Len(p.all) = 0
  BY DEF NoCursor
<1> HIDE DEF p
<1>2. ToSet(p.all) = {}
  BY <1>1 DEF ToSet
<1>3. Again(p) = {} /\ Due(s, p) = {} /\ p.stay \intersect ToSet(p.all) = {}
  BY <1>1, <1>2 DEF Again, Due
<1>4. Skipped(s, p) = {}
  <2>1. Len(s) \in Nat
    BY LenProperties
  <2>2. Ahead(s, 0) = {}
    BY <2>1 DEF Ahead
  <2> QED BY <1>1, <2>2 DEF Skipped
<1>5. Cardinality({}) = 0 /\ Cardinality(Devices) \in Nat
  BY FS_EmptySet, FS_CardinalityType, DevicesAssumption
<1>6. /\ Cardinality(Skipped(s, p)) = 0 /\ Cardinality(Again(p)) = 0 /\ Cardinality(Due(s, p)) = 0
      /\ Cardinality(p.stay \intersect ToSet(p.all)) = 0
  BY <1>3, <1>4, <1>5
<1>7. ReaderOK(s, p)
  BY <1>1, <1>5, <1>6 DEF ReaderOK
<1> QED BY <1>7 DEF p
-----------------------------------------------------------------------------
(* The list through the steps of Devices.                                   *)

ListOK == ListTypes /\ ListInv

LEMMA OthersRead ==
  ASSUME ListOK, NEW c \in Callers, NEW r \in Cursor, UNCHANGED clients,
         cursor' = [cursor EXCEPT ![c] = r],
         r.state = "on" => ReaderOK(clients, r), r.state = "done" => ResultOK(r)
  PROVE  ListInv'
<1> SUFFICES ASSUME NEW e \in Callers
             PROVE  /\ cursor'[e].state = "on" => ReaderOK(clients, cursor'[e])
                    /\ cursor'[e].state = "done" => ResultOK(cursor'[e])
  BY DEF ListInv
<1>1. cursor'[e] = IF e = c THEN r ELSE cursor[e]
  BY DEF ListOK, ListTypes
<1> QED BY <1>1 DEF ListOK, ListInv

LEMMA ListingBegins ==
  ASSUME ListOK, NEW c \in Callers, StartListing(c), UNCHANGED clients
  PROVE  ListOK'
<1> DEFINE r == [NoCursor EXCEPT !.state = "on", !.stay = Connected]
<1>1. clients \in Seq(Devices) /\ Connected \subseteq Devices
  BY ListFacts DEF ListOK, ListTypes
<1>2. r \in Cursor /\ r.state = "on"
  BY <1>1, NoCursorType DEF Cursor, NoCursor
<1>3. ReaderOK(clients, r)
  BY <1>1, ReaderBegins DEF Connected
<1>4. cursor' = [cursor EXCEPT ![c] = r]
  BY DEF StartListing
<1> HIDE DEF r
<1>5. ListInv'
  BY <1>2, <1>3, <1>4, OthersRead
<1> QED BY <1>5, StartListingTypes DEF ListOK

LEMMA ListingEnds ==
  ASSUME ListOK, NEW c \in Callers, EndListing(c)
  PROVE  ListOK'
<1>1. NoCursor.state = "off" /\ cursor' = [cursor EXCEPT ![c] = NoCursor] /\ UNCHANGED clients
  BY DEF NoCursor, EndListing
<1>2. ListInv'
  BY <1>1, NoCursorType, OthersRead
<1> QED BY <1>2, EndListingTypes DEF ListOK

LEMMA ListReads ==
  ASSUME ListOK, NEW c \in Callers, cursor[c].state = "on"
  PROVE  Reads(clients, cursor[c])
BY ListFacts DEF ListOK, ListTypes, ListInv, Reads

LEMMA ListPaged ==
  ASSUME ListOK, NEW c \in Callers, Page(c)
  PROVE  ListOK'
<1> DEFINE r == cursor[c]
<1>1. ListTypes' /\ UNCHANGED clients /\ r.state = "on" /\ r \in Cursor
  BY PageTypes, PageReads DEF ListOK
<1>2. PICK n \in Nat :
        /\ (r.offset < Len(clients) /\ 1 <= n /\ r.offset + n <= Len(clients)) \/ (Len(clients) <= r.offset /\ n = 0)
        /\ cursor' = [cursor EXCEPT ![c] = Turn(clients, r, n)]
  BY PageReads DEF ListOK, Turn
<1>3. Reads(clients, r)
  BY <1>1, ListReads
<1> DEFINE p == Turn(clients, r, n)
<1>4. (p.state = "on" => ReaderOK(clients, p)) /\ (p.state = "done" => ResultOK(p))
  <2>1. CASE 1 <= n /\ r.offset + n <= Len(clients)
    BY <1>3, <2>1, NextTurn
  <2>2. CASE Len(clients) <= r.offset /\ n = 0
    BY <1>3, <2>2, LastTurn
  <2> QED BY <1>2, <2>1, <2>2
<1>5. p \in Cursor
  BY <1>1, <1>2 DEF ListOK, ListTypes
<1> HIDE DEF p
<1>6. ListInv'
  BY <1>1, <1>2, <1>4, <1>5, OthersRead DEF p
<1> QED BY <1>1, <1>6 DEF ListOK

LEMMA ListLeft ==
  ASSUME ListOK, Leave
  PROVE  ListOK'
<1>1. PICK k \in 1 .. Len(clients) :
        /\ clients' = RemoveAt(clients, k)
        /\ cursor' = [c \in Callers |->
             IF cursor[c].state # "on" THEN cursor[c]
             ELSE [cursor[c] EXCEPT !.stay = @ \ {clients[k]},
                                    !.slipped = IF k <= cursor[c].offset THEN OneMore(@) ELSE @]]
  BY DEF Leave
<1>2. ListInv'
  <2> SUFFICES ASSUME NEW c \in Callers
               PROVE  /\ cursor'[c].state = "on" => ReaderOK(clients', cursor'[c])
                      /\ cursor'[c].state = "done" => ResultOK(cursor'[c])
    BY DEF ListInv
  <2> DEFINE r == cursor[c]
             p == [r EXCEPT !.stay = @ \ {clients[k]},
                            !.slipped = IF k <= r.offset THEN OneMore(@) ELSE @]
  <2>1. r \in Cursor /\ cursor'[c] = IF r.state # "on" THEN r ELSE p
    BY <1>1 DEF ListOK, ListTypes
  <2>2. p.state = r.state
    BY <2>1 DEF Cursor
  <2>3. CASE r.state = "on"
    <3>1. ReaderOK(RemoveAt(clients, k), p)
      BY <2>3, ListReads, ClientLeaves
    <3> HIDE DEF p
    <3> QED BY <1>1, <2>1, <2>2, <2>3, <3>1
  <2>4. CASE r.state # "on"
    BY <2>1, <2>4 DEF ListOK, ListInv
  <2> QED BY <2>3, <2>4
<1> QED BY <1>2, LeaveTypes DEF ListOK

LEMMA ListJoined ==
  ASSUME ListOK, Join
  PROVE  ListOK'
<1>1. PICK d \in Devices \ Connected, k \in 1 .. Len(clients) + 1 :
        /\ clients' = InsertAt(clients, k, d)
        /\ cursor' = [c \in Callers |->
             IF cursor[c].state # "on" THEN cursor[c]
             ELSE [cursor[c] EXCEPT !.pushed = IF k <= cursor[c].offset THEN OneMore(@) ELSE @]]
  BY DEF Join
<1>2. ListInv'
  <2> SUFFICES ASSUME NEW c \in Callers
               PROVE  /\ cursor'[c].state = "on" => ReaderOK(clients', cursor'[c])
                      /\ cursor'[c].state = "done" => ResultOK(cursor'[c])
    BY DEF ListInv
  <2> DEFINE r == cursor[c]
             p == [r EXCEPT !.pushed = IF k <= r.offset THEN OneMore(@) ELSE @]
  <2>1. r \in Cursor /\ cursor'[c] = IF r.state # "on" THEN r ELSE p
    BY <1>1 DEF ListOK, ListTypes
  <2>2. p.state = r.state
    BY <2>1 DEF Cursor
  <2>3. CASE r.state = "on"
    <3>1. ReaderOK(InsertAt(clients, k, d), p)
      BY <2>3, ListReads, ClientJoins DEF Connected
    <3> HIDE DEF p
    <3> QED BY <1>1, <2>1, <2>2, <2>3, <3>1
  <2>4. CASE r.state # "on"
    BY <2>1, <2>4 DEF ListOK, ListInv
  <2> QED BY <2>3, <2>4
<1> QED BY <1>2, JoinTypes DEF ListOK

LEMMA ListKept == ASSUME ListOK, UNCHANGED network PROVE ListOK'
BY DEF ListOK, ListTypes, ListInv, network, IsInjective

\* What a step of Devices does to the list.
LEMMA ListSteps ==
  ASSUME [Next]_vars
  PROVE  \/ UNCHANGED network
         \/ Leave \/ Join
         \/ \E c \in Callers : \/ Page(c)
                               \/ EndListing(c)
                               \/ StartListing(c) /\ UNCHANGED clients
<1>1. CASE UNCHANGED vars
  BY <1>1 DEF vars
<1>2. ASSUME NEW j \in Callers, Move(j) \/ Save(j) \/ Open(j) PROVE UNCHANGED network
  BY <1>2 DEF Move, Save, Open
<1>3. ASSUME NEW j \in Callers, Enroll(j) \/ LoadDevices(j)
      PROVE  StartListing(j) /\ UNCHANGED clients
  BY <1>3 DEF Enroll, LoadDevices
<1>4. ASSUME NEW j \in Callers,
             \/ LoadProfiles(j)
             \/ \E w \in Puts : PutChecked(j, w) \/ PutRefused(j, w)
             \/ \E w \in Saves : Saved(j, w) \/ SaveFails(j, w) \/ Push(j, w) \/ Answered(j, w) \/ GivesUp(j, w)
      PROVE  UNCHANGED network
  BY <1>4 DEF PutChecked, PutRefused, Saved, SaveFails, Push, Answered, GivesUp, LoadProfiles
<1>5. ASSUME NEW j \in Callers,
             EnrollUnknown(j) \/ EnrollRefused(j) \/ EnrollChecked(j) \/ ShowDevices(j)
      PROVE  EndListing(j)
  BY <1>5 DEF EnrollUnknown, EnrollRefused, EnrollChecked, ShowDevices
<1>6. ASSUME NEW j \in Callers, ReadPage(j) PROVE Page(j)
  BY <1>6 DEF ReadPage
<1>7. ASSUME NEW j \in Callers, LoadFails(j) PROVE UNCHANGED network \/ EndListing(j)
  BY <1>7 DEF LoadFails
<1>8. ASSUME AppRename \/ Rest PROVE UNCHANGED network
  BY <1>8 DEF AppRename, Rest, vars
<1>9. ASSUME Churn PROVE Leave \/ Join
  BY <1>9 DEF Churn
<1> QED BY <1>1, <1>2, <1>3, <1>4, <1>5, <1>6, <1>7, <1>8, <1>9 DEF Next, Work

LEMMA ListOKStep == ListOK /\ [Next]_vars => ListOK'
<1> SUFFICES ASSUME ListOK, [Next]_vars PROVE ListOK'
  OBVIOUS
<1> QED BY ListSteps, ListKept, ListLeft, ListJoined, ListPaged, ListingBegins, ListingEnds

LEMMA ListOKInit == Init => ListOK
<1> SUFFICES ASSUME Init PROVE ListInv
  BY InitListing DEF ListOK
<1>1. \A c \in Callers : cursor[c].state = "off"
  BY DEF Init, NoCursor
<1> QED BY <1>1 DEF ListInv

LEMMA ListOKAlways == Spec => []ListOK
<1>1. ListOK /\ [Next]_vars => ListOK'
  BY ListOKStep
<1>2. Init => ListOK
  BY ListOKInit
<1> QED BY <1>1, <1>2, PTL DEF Spec

\* ListClients, however many clients come and go under it and however many requests
\* read at a time: a client that is connected all the while is missing from the
\* list only if others left ahead of the offset, one for each, and is listed
\* twice only if others came there.
THEOREM ListsMissAndRepeatNoMore == Spec => []ListedOnce
<1>1. ListOK => ListedOnce
  <2> SUFFICES ASSUME ListOK, NEW c \in Callers
               PROVE  /\ cursor[c].state = "done" => Cardinality(Missed(c)) <= cursor[c].slipped
                      /\ Reading(c) => Repeats(c) <= cursor[c].pushed
    BY DEF ListedOnce
  <2> DEFINE r == cursor[c]
             a == Cardinality(Again(r))
             b == Cardinality(Due(clients, r))
  <2>1. r \in Cursor /\ clients \in Seq(Devices)
    BY DEF ListOK, ListTypes
  <2>2. r.state \in {"off", "on", "done"} /\ r.pushed \in Nat
    BY <2>1 DEF Cursor
  <2>3. CASE r.state = "on"
    <3>1. a + b <= r.pushed
      BY <2>3 DEF ListOK, ListInv, ReaderOK
    <3>2. a \in Nat /\ b \in Nat
      BY <2>1, Counts
    <3> HIDE DEF a, b
    <3>3. a <= r.pushed
      BY <2>2, <3>1, <3>2
    <3> QED BY <2>3, <3>3 DEF Repeats, a
  <2>4. CASE r.state = "done"
    BY <2>4 DEF ListOK, ListInv, ResultOK, Missed, Repeats
  <2> QED BY <2>2, <2>3, <2>4 DEF Reading
<1> QED BY <1>1, ListOKAlways, PTL
-----------------------------------------------------------------------------
(* Types.                                                                   *)

GroupTypes   == groups \in [Groups -> Members] /\ ruled \subseteq Groups
NameTypes    == alias \in [Devices -> Labels \union {None}] /\ owed \subseteq Devices
PageTyped    == page \in [profiles : [Groups -> Members], devices : [Devices -> Row \union {None}]]
JobTypes     == job \in [Callers -> Job]
RequestTypes == request \in [Callers -> [Saves -> Request]]
CountTypes   == mix \in Mixes /\ started \in 0 .. MaxJobs /\ faults \in 0 .. MaxFaults

LEMMA TypeParts ==
  TypeOK <=> /\ ListTypes /\ GroupTypes /\ NameTypes /\ PageTyped
             /\ JobTypes /\ RequestTypes /\ CountTypes
BY DEF TypeOK, ListTypes, GroupTypes, NameTypes, PageTyped, JobTypes, RequestTypes, CountTypes

LEMMA NobodyType == Nobody \in Members
BY DEF Nobody, Members

LEMMA IdleJobType == IdleJob \in Job
BY NobodyType DEF IdleJob, Job, Places

LEMMA NoRequestType == NoRequest \in Request
BY NobodyType DEF NoRequest, Request

LEMMA AtPlaceType ==
  ASSUME NEW t \in Job, NEW pc \in Places, NEW todo \in SUBSET Loads
  PROVE  AtPlace(t, pc, todo) \in Job
<1>1. [t EXCEPT !.pc = pc, !.todo = todo] \in Job
  BY DEF Job
<1> QED BY <1>1, IdleJobType DEF AtPlace

LEMMA DoneType ==
  ASSUME NEW t \in Job, NEW done \in SUBSET (Places \union {"late"})
  PROVE  [t EXCEPT !.done = done] \in Job
BY DEF Job

LEMMA AfterSuccessType == ASSUME NEW t \in Job PROVE AfterSuccess(t) \in Job
<1>1. t.pc \in Places /\ t.done \in SUBSET (Places \union {"late"})
  BY DEF Job
<1>2. [t EXCEPT !.done = {"remove"}] \in Job /\ [t EXCEPT !.done = @ \union {t.pc}] \in Job
  <2>1. {"remove"} \in SUBSET (Places \union {"late"}) /\ t.done \union {t.pc} \in SUBSET (Places \union {"late"})
    BY <1>1 DEF Places, Saves, Puts
  <2> QED BY <2>1, DoneType
<1>3. "add" \in Places /\ "load" \in Places /\ {} \in SUBSET Loads /\ Loads \in SUBSET Loads
  BY DEF Places, Saves, Puts
<1>4. /\ AtPlace([t EXCEPT !.done = {"remove"}], "add", {}) \in Job
      /\ AtPlace([t EXCEPT !.done = @ \union {t.pc}], "load", Loads) \in Job
  BY <1>2, <1>3, AtPlaceType
<1> QED BY <1>4, IdleJobType DEF AfterSuccess

LEMMA AfterFailureType == ASSUME NEW t \in Job PROVE AfterFailure(t) \in Job
<1>1. /\ "return" \in Places /\ "load" \in Places
      /\ {} \in SUBSET Loads /\ Loads \in SUBSET Loads /\ {"devices"} \in SUBSET Loads
  BY DEF Places, Saves, Puts, Loads
<1>2. /\ AtPlace(t, "load", {"devices"}) \in Job /\ AtPlace(t, "return", {}) \in Job
      /\ AtPlace(t, "load", Loads) \in Job
  BY <1>1, AtPlaceType
<1> QED BY <1>2, IdleJobType DEF AfterFailure

LEMMA MovedTypes ==
  ASSUME JobTypes, NEW j \in Callers, NEW t \in Job, Moved(j, t)
  PROVE  JobTypes'
<1> SUFFICES ASSUME NEW i \in Callers PROVE job'[i] \in Job
  BY DEF Moved, JobTypes
<1>1. job[i] \in Job /\ job[i].alone \in BOOLEAN
  BY DEF JobTypes, Job
<1>2. [job[i] EXCEPT !.alone = @ /\ groups' = groups] \in Job
  <2> DEFINE b == job[i].alone /\ groups' = groups
  <2>1. b \in BOOLEAN
    OBVIOUS
  <2>2. [job[i] EXCEPT !.alone = b] \in Job
    <3> HIDE DEF b
    <3> QED BY <1>1, <2>1 DEF Job
  <2> QED BY <2>2
<1> QED BY <1>2 DEF Moved

LEMMA SetJobTypes ==
  ASSUME JobTypes, NEW j \in Callers, NEW t \in Job, job' = [job EXCEPT ![j] = t]
  PROVE  JobTypes'
BY DEF JobTypes

LEMMA BecomesFacts ==
  ASSUME RequestTypes, NEW j \in Callers, NEW w \in Saves, NEW r \in Request, Becomes(j, w, r)
  PROVE  /\ RequestTypes' /\ request'[j][w] = r
         /\ \A v \in Saves \ {w} : request'[j][v] = request[j][v]
         /\ \A i \in Callers \ {j} : request'[i] = request[i]
BY DEF Becomes, RequestTypes

LEMMA StartTypes ==
  ASSUME JobTypes, CountTypes, NEW j \in Callers, NEW kind \in Kinds, NEW t \in Job,
         Start(j, kind, t), UNCHANGED <<mix, faults>>
  PROVE  JobTypes' /\ CountTypes'
<1>1. [t EXCEPT !.kind = kind] \in Job
  BY DEF Job
<1>2. job' = [job EXCEPT ![j] = [t EXCEPT !.kind = kind]]
  BY DEF Start
<1>3. mix.jobs \in 0 .. MaxJobs /\ started \in Nat /\ MaxJobs \in Nat
  BY MixesAssumption, BoundsAssumption DEF CountTypes
<1>4. started' \in 0 .. MaxJobs
  BY <1>3 DEF Start
<1> QED BY <1>1, <1>2, <1>4, SetJobTypes DEF CountTypes

LEMMA FaultTypes == ASSUME CountTypes, UNCHANGED <<mix, started>>, Fault \/ UNCHANGED faults PROVE CountTypes'
<1>1. mix.faults \in 0 .. MaxFaults /\ faults \in Nat /\ MaxFaults \in Nat
  BY MixesAssumption, BoundsAssumption DEF CountTypes
<1> QED BY <1>1 DEF CountTypes, Fault

LEMMA PutTypes ==
  ASSUME NEW t \in Job, t.pc \in Puts
  PROVE  PutMembers(t) \in Members
<1>1. t.old \in Members /\ t.next \in Members /\ t.name \in Labels \union {None}
  BY DEF Job
<1>2. /\ [t.old EXCEPT ![t.device] = None] \in Members
      /\ [t.old EXCEPT ![t.device] = t.name] \in Members
      /\ [t.next EXCEPT ![t.device] = t.name] \in Members
  BY <1>1 DEF Members
<1> QED BY <1>1, <1>2 DEF PutMembers, Puts

\* What requests write.
Writes == [Groups -> Members \union {None}]

LEMMA AskedType ==
  ASSUME JobTypes, RequestTypes, NEW j \in Callers, NEW w \in Puts, Arriving(j, w) \/ job[j].pc = w
  PROVE  Asked(j, w) \in Writes
<1>1. job[j] \in Job /\ request[j][w] \in Request
  BY DEF JobTypes, RequestTypes, Saves
<1>2. request[j][w].pc # "sent" => job[j].pc \in Puts
  BY DEF Arriving
<1>3. request[j][w].pc # "sent" => PutMembers(job[j]) \in Members
  BY <1>1, <1>2, PutTypes
<1> QED BY <1>1, <1>3 DEF Asked, Writes, Request

LEMMA StoredType ==
  ASSUME GroupTypes, NEW w \in Writes
  PROVE  Stored(w) \in [Groups -> Members]
BY DEF Stored, Writes, GroupTypes

LEMMA OweType == ASSUME NEW given, Owe(given) PROVE owed' \subseteq Devices
BY DEF Owe

LEMMA ShownType ==
  ASSUME NameTypes, NEW snap \in [Groups -> Members], NEW place \in Placings(snap), NEW live
  PROVE  Shown(snap, place, live) \in [Devices -> Row \union {None}]
<1> SUFFICES ASSUME NEW d \in Devices
             PROVE  Shown(snap, place, live)[d] \in Row \union {None}
  BY DEF Shown
<1>1. /\ place[d] \in Groups \union {None}
      /\ place[d] # None => place[d] \in Groups /\ snap[place[d]][d] # None
  BY DEF Placings, HomesOf
<1>2. ShownName(d) \in Labels
  BY DEF ShownName, NameTypes, Labels
<1>3. place[d] # None => snap[place[d]][d] \in Labels
  BY <1>1 DEF Members
<1> QED BY <1>1, <1>2, <1>3 DEF Shown, Row

\* The types but those of the list.
OwnTypes == GroupTypes /\ NameTypes /\ PageTyped /\ JobTypes /\ RequestTypes /\ CountTypes

LEMMA MoveTypes ==
  ASSUME OwnTypes, NEW j \in Callers, Move(j)
  PROVE  OwnTypes'
<1>1. PICK d \in Devices, to \in Groups \union {None} :
        LET row == page.devices[d]
        IN  /\ row # None
            /\ Start(j, "Move",
                 [IdleJob EXCEPT !.pc = First(row.group, to), !.device = d, !.name = row.name,
                    !.from = row.group, !.to = to, !.alone = Fresh /\ Parted,
                    !.old  = IF row.group = None THEN Nobody ELSE page.profiles[row.group],
                    !.next = IF to = None THEN Nobody ELSE page.profiles[to]])
            /\ UNCHANGED <<groups, ruled, alias, page, request, mix, faults, owed>>
  BY DEF Move, network
<1> DEFINE row == page.devices[d]
           b == Fresh /\ Parted
           pc == First(row.group, to)
           old == IF row.group = None THEN Nobody ELSE page.profiles[row.group]
           next == IF to = None THEN Nobody ELSE page.profiles[to]
<1>2. row \in Row
  BY <1>1 DEF OwnTypes, PageTyped
<1>3. row.group \in Groups \union {None} /\ row.name \in Labels
  BY <1>2 DEF Row
<1>4. old \in Members /\ next \in Members /\ b \in BOOLEAN /\ pc \in Places
  BY <1>3, NobodyType DEF OwnTypes, PageTyped, First, Places, Saves, Puts
<1> DEFINE t == [IdleJob EXCEPT !.pc = pc, !.device = d, !.name = row.name, !.from = row.group,
                                !.to = to, !.alone = b, !.old = old, !.next = next]
<1>5. t \in Job
  <2> HIDE DEF b, pc, old, next, row
  <2> QED BY <1>3, <1>4, IdleJobType DEF Job
<1>6. Start(j, "Move", t) /\ UNCHANGED <<groups, ruled, alias, page, request, mix, faults, owed>>
  BY <1>1
<1> HIDE DEF t
<1>7. JobTypes' /\ CountTypes'
  BY <1>5, <1>6, StartTypes DEF OwnTypes, Kinds
<1> QED BY <1>6, <1>7 DEF OwnTypes, GroupTypes, NameTypes, PageTyped, RequestTypes

LEMMA SaveTypes ==
  ASSUME OwnTypes, NEW j \in Callers, Save(j)
  PROVE  OwnTypes'
<1>1. PICK g \in Groups, m \in Members :
        Start(j, "Save", [IdleJob EXCEPT !.pc = "save", !.to = g, !.next = m, !.alone = Fresh /\ Parted])
  BY DEF Save, Edits
<1> DEFINE b == Fresh /\ Parted
           t == [IdleJob EXCEPT !.pc = "save", !.to = g, !.next = m, !.alone = b]
<1>2. b \in BOOLEAN
  OBVIOUS
<1>3. t \in Job
  <2> HIDE DEF b
  <2> QED BY <1>2, IdleJobType DEF Job, Places, Saves, Puts
<1>4. Start(j, "Save", t) /\ UNCHANGED <<groups, ruled, alias, page, request, mix, faults, owed>>
  BY <1>1 DEF Save
<1> HIDE DEF t
<1>5. JobTypes' /\ CountTypes'
  BY <1>3, <1>4, StartTypes DEF OwnTypes, Kinds
<1> QED BY <1>4, <1>5 DEF OwnTypes, GroupTypes, NameTypes, PageTyped, RequestTypes

LEMMA OpenTypes ==
  ASSUME OwnTypes, NEW j \in Callers, Open(j)
  PROVE  OwnTypes'
<1> DEFINE t == [IdleJob EXCEPT !.pc = "load", !.todo = Loads]
<1>1. t \in Job
  BY IdleJobType DEF Job, Places, Saves, Puts
<1>2. Start(j, "Open", t) /\ UNCHANGED <<groups, ruled, alias, page, request, mix, faults, owed>>
  BY DEF Open
<1> HIDE DEF t
<1>3. JobTypes' /\ CountTypes'
  BY <1>1, <1>2, StartTypes DEF OwnTypes, Kinds
<1> QED BY <1>2, <1>3 DEF OwnTypes, GroupTypes, NameTypes, PageTyped, RequestTypes

LEMMA EnrollTypes ==
  ASSUME OwnTypes, NEW j \in Callers, Enroll(j)
  PROVE  OwnTypes'
<1>1. PICK d \in Devices, to \in Groups, n \in Names \union {None} :
        Start(j, "Enroll", [IdleJob EXCEPT !.pc = "enroll", !.device = d, !.to = to,
                                           !.name = n, !.snap = groups])
  BY DEF Enroll
<1> DEFINE t == [IdleJob EXCEPT !.pc = "enroll", !.device = d, !.to = to, !.name = n, !.snap = groups]
<1>2. t \in Job
  <2>1. groups \in [Groups -> Members] /\ n \in Labels \union {None} /\ "enroll" \in Places
    BY DEF OwnTypes, GroupTypes, Labels, Places, Saves, Puts
  <2> QED BY <2>1, IdleJobType DEF Job
<1>3. Start(j, "Enroll", t) /\ UNCHANGED <<groups, ruled, alias, page, request, mix, faults, owed>>
  BY <1>1 DEF Enroll
<1> HIDE DEF t
<1>4. JobTypes' /\ CountTypes'
  BY <1>2, <1>3, StartTypes DEF OwnTypes, Kinds
<1> QED BY <1>3, <1>4 DEF OwnTypes, GroupTypes, NameTypes, PageTyped, RequestTypes

LEMMA PutCheckedTypes ==
  ASSUME OwnTypes, NEW j \in Callers, NEW w \in Puts, PutChecked(j, w)
  PROVE  OwnTypes'
<1> DEFINE asked == Asked(j, w)
<1>1. /\ Arriving(j, w)
      /\ UNCHANGED <<groups, ruled, alias, page, job, mix, started, faults, owed>>
  BY DEF PutChecked
<1>2. PICK g \in Written(asked) :
        Becomes(j, w,
          [request[j][w] EXCEPT !.pc = "save", !.writes = asked,
             !.names = [d \in Devices |-> IF d \in Renamed(g, asked[g]) THEN asked[g][d] ELSE None],
             !.given = {d \in Devices : groups[g][d] # None
                                        /\ asked[g][d] \notin {None, groups[g][d]}}])
  BY DEF PutChecked
<1>3. request[j][w] \in Request /\ asked \in Writes /\ w \in Saves
  BY <1>1, AskedType DEF OwnTypes, RequestTypes, Saves
<1>4. g \in Groups /\ asked[g] # None
  BY DEF Written
<1> HIDE DEF asked
<1> DEFINE names == [d \in Devices |-> IF d \in Renamed(g, asked[g]) THEN asked[g][d] ELSE None]
           given == {d \in Devices : groups[g][d] # None /\ asked[g][d] \notin {None, groups[g][d]}}
<1>5. asked[g] \in Members
  BY <1>3, <1>4 DEF Writes
<1>6. names \in Members /\ given \in SUBSET Devices
  BY <1>5 DEF Members
<1> DEFINE r == [request[j][w] EXCEPT !.pc = "save", !.writes = asked, !.names = names, !.given = given]
<1>7. Becomes(j, w, r)
  BY <1>2
<1>8. r \in Request
  <2> HIDE DEF names, given
  <2> QED BY <1>3, <1>6 DEF Request, Writes
<1> HIDE DEF r
<1>9. RequestTypes'
  BY <1>3, <1>7, <1>8, BecomesFacts DEF OwnTypes
<1> QED BY <1>1, <1>9 DEF OwnTypes, GroupTypes, NameTypes, PageTyped, JobTypes, CountTypes

LEMMA AnswerType ==
  ASSUME JobTypes, NEW j \in Callers, NEW w, NEW t \in Job
  PROVE  Answer(j, w, t) \in Job
BY DEF Answer, JobTypes

LEMMA PutRefusedTypes ==
  ASSUME OwnTypes, NEW j \in Callers, NEW w \in Puts, PutRefused(j, w)
  PROVE  OwnTypes'
<1>1. /\ Becomes(j, w, NoRequest) /\ job' = [job EXCEPT ![j] = Answer(j, w, AfterFailure(job[j]))]
      /\ UNCHANGED <<groups, ruled, alias, page, mix, started, faults, owed>>
  BY DEF PutRefused
<1>2. Answer(j, w, AfterFailure(job[j])) \in Job
  BY AfterFailureType, AnswerType DEF OwnTypes, JobTypes
<1>3. JobTypes'
  BY <1>1, <1>2, SetJobTypes DEF OwnTypes
<1>4. RequestTypes'
  BY <1>1, NoRequestType, BecomesFacts DEF OwnTypes, Saves
<1> QED BY <1>1, <1>3, <1>4 DEF OwnTypes, GroupTypes, NameTypes, PageTyped, CountTypes

LEMMA SavedTypes ==
  ASSUME OwnTypes, NEW j \in Callers, NEW w \in Saves, Saved(j, w)
  PROVE  OwnTypes'
<1> DEFINE r == request[j][w]
<1>1. /\ groups' = Stored(r.writes) /\ Becomes(j, w, [r EXCEPT !.pc = "push"])
      /\ Owe({d \in r.given : ~Crossed(j, w, d)})
      /\ Moved(j, job[j])
      /\ UNCHANGED <<ruled, alias, page, mix, started, faults>>
  BY DEF Saved
<1>2. r \in Request /\ job[j] \in Job
  BY DEF OwnTypes, RequestTypes, JobTypes
<1> HIDE DEF r
<1>3. groups' \in [Groups -> Members]
  <2>1. r.writes \in Writes
    BY <1>2 DEF Request, Writes
  <2> QED BY <1>1, <2>1, StoredType DEF OwnTypes
<1>4. JobTypes'
  BY <1>1, <1>2, MovedTypes DEF OwnTypes
<1>5. RequestTypes'
  <2>1. [r EXCEPT !.pc = "push"] \in Request
    BY <1>2 DEF Request
  <2> QED BY <1>1, <2>1, BecomesFacts DEF OwnTypes
<1>6. owed' \subseteq Devices
  BY <1>1, OweType
<1> QED BY <1>1, <1>3, <1>4, <1>5, <1>6 DEF OwnTypes, GroupTypes, NameTypes, PageTyped, CountTypes

LEMMA SaveFailsTypes ==
  ASSUME OwnTypes, NEW j \in Callers, NEW w \in Saves, SaveFails(j, w)
  PROVE  OwnTypes'
<1> DEFINE r == request[j][w]
<1>1. /\ Fault /\ groups' \in {groups, Stored(r.writes)}
      /\ Becomes(j, w, NoRequest) /\ Owe({})
      /\ Moved(j, Answer(j, w, AfterFailure(job[j])))
      /\ UNCHANGED <<ruled, alias, page, mix, started>>
  BY DEF SaveFails
<1>2. r \in Request /\ job[j] \in Job
  BY DEF OwnTypes, RequestTypes, JobTypes
<1> HIDE DEF r
<1>3. groups' \in [Groups -> Members]
  <2>1. r.writes \in Writes
    BY <1>2 DEF Request, Writes
  <2>2. Stored(r.writes) \in [Groups -> Members]
    BY <2>1, StoredType DEF OwnTypes
  <2> QED BY <1>1, <2>2 DEF OwnTypes, GroupTypes
<1>4. JobTypes'
  <2>1. Answer(j, w, AfterFailure(job[j])) \in Job
    BY <1>2, AfterFailureType, AnswerType DEF OwnTypes
  <2> QED BY <1>1, <2>1, MovedTypes DEF OwnTypes
<1>5. RequestTypes'
  BY <1>1, NoRequestType, BecomesFacts DEF OwnTypes
<1>6. owed' \subseteq Devices
  BY <1>1, OweType
<1>7. CountTypes'
  BY <1>1, FaultTypes DEF OwnTypes
<1> QED BY <1>1, <1>3, <1>4, <1>5, <1>6, <1>7 DEF OwnTypes, GroupTypes, NameTypes, PageTyped

LEMMA PushTypes ==
  ASSUME OwnTypes, NEW j \in Callers, NEW w \in Saves, Push(j, w)
  PROVE  OwnTypes'
<1> DEFINE r == request[j][w]
<1>1. PICK d \in Devices :
        /\ r.names[d] # None
        /\ Becomes(j, w, [r EXCEPT !.names[d] = None])
        /\ \/ alias' = [alias EXCEPT ![d] = r.names[d]] /\ UNCHANGED faults
           \/ Fault /\ UNCHANGED alias
  BY DEF Push
<1>2. UNCHANGED <<groups, ruled, page, job, mix, started, owed>>
  BY DEF Push
<1>3. r \in Request /\ r.names \in Members
  BY DEF OwnTypes, RequestTypes, Request
<1> HIDE DEF r
<1>4. [r EXCEPT !.names[d] = None] \in Request
  <2>1. [r.names EXCEPT ![d] = None] \in Members
    BY <1>3 DEF Members
  <2> QED BY <1>3, <2>1 DEF Request
<1>5. RequestTypes'
  BY <1>1, <1>4, BecomesFacts DEF OwnTypes
<1>6. NameTypes'
  BY <1>1, <1>2, <1>3 DEF OwnTypes, NameTypes, Members
<1>7. CountTypes'
  BY <1>1, <1>2, FaultTypes DEF OwnTypes
<1> QED BY <1>2, <1>5, <1>6, <1>7 DEF OwnTypes, GroupTypes, PageTyped, JobTypes

LEMMA AnsweredTypes ==
  ASSUME OwnTypes, NEW j \in Callers, NEW w \in Saves, Answered(j, w)
  PROVE  OwnTypes'
<1>1. /\ Becomes(j, w, NoRequest) /\ job' = [job EXCEPT ![j] = Answer(j, w, AfterSuccess(job[j]))]
      /\ UNCHANGED <<groups, ruled, alias, page, mix, started, faults, owed>>
  BY DEF Answered
<1>2. Answer(j, w, AfterSuccess(job[j])) \in Job
  BY AfterSuccessType, AnswerType DEF OwnTypes, JobTypes
<1>3. JobTypes'
  BY <1>1, <1>2, SetJobTypes DEF OwnTypes
<1>4. RequestTypes'
  BY <1>1, NoRequestType, BecomesFacts DEF OwnTypes
<1> QED BY <1>1, <1>3, <1>4 DEF OwnTypes, GroupTypes, NameTypes, PageTyped, CountTypes

\* A job given up.
LateOf(j, w) == IF request'[j][w].pc \in {"sent", "save"} THEN {"late"} ELSE {}
GivenUp(t, late) == AfterFailure([t EXCEPT !.done = t.done \union late])

LEMMA GivesUpFacts ==
  ASSUME OwnTypes, NEW j \in Callers, NEW w \in Saves, GivesUp(j, w)
  PROVE  /\ job[j].pc = w /\ Fault
         /\ job' = [job EXCEPT ![j] = GivenUp(job[j], LateOf(j, w))]
         /\ UNCHANGED <<groups, ruled, alias, page, mix, started, owed>>
         /\ \/ request' = request /\ request[j][w].pc = "none"
            \/ \E r \in Request : /\ Becomes(j, w, r) /\ r.lost
                                  /\ \/ /\ r.pc = "sent" /\ w \in Puts /\ r.names = Nobody
                                        /\ r.writes = Asked(j, w) /\ request[j][w].pc = "none"
                                        /\ ~Twice(job[j])
                                     \/ /\ r.pc = request[j][w].pc /\ r.pc \in {"save", "push"}
                                        /\ r.writes = request[j][w].writes
<1> DEFINE r == request[j][w]
<1>1. r \in Request /\ job[j] \in Job
  BY DEF OwnTypes, RequestTypes, JobTypes
<1>2. /\ job[j].pc = w /\ Fault
      /\ UNCHANGED <<groups, ruled, alias, page, mix, started, owed>>
  BY DEF GivesUp
<1>3. job' = [job EXCEPT ![j] = GivenUp(job[j], LateOf(j, w))]
  BY DEF GivesUp, GivenUp, LateOf
<1>4. CASE w \in Puts /\ r.pc = "none" /\ UNCHANGED request
  BY <1>2, <1>3, <1>4
<1>5. CASE /\ w \in Puts /\ r.pc = "none" /\ ~Twice(job[j])
           /\ Becomes(j, w, [NoRequest EXCEPT !.pc = "sent", !.writes = Asked(j, w), !.lost = TRUE])
  <2> DEFINE asked == Asked(j, w)
             n == [NoRequest EXCEPT !.pc = "sent", !.writes = asked, !.lost = TRUE]
  <2>1. asked \in Writes
    BY <1>2, <1>5, AskedType DEF OwnTypes
  <2>2. n \in Request /\ n.lost /\ n.pc = "sent" /\ n.names = Nobody /\ n.writes = asked
    <3> HIDE DEF asked
    <3> QED BY <2>1, NoRequestType DEF Request, Writes, NoRequest
  <2>3. Becomes(j, w, n)
    BY <1>5
  <2> HIDE DEF n
  <2> QED BY <1>2, <1>3, <1>5, <2>2, <2>3
<1>6. CASE /\ r.pc \in {"save", "push"}
           /\ \E names \in {r.names, Nobody} : Becomes(j, w, [r EXCEPT !.lost = TRUE, !.names = names])
  <2>1. PICK names \in {r.names, Nobody} : Becomes(j, w, [r EXCEPT !.lost = TRUE, !.names = names])
    BY <1>6
  <2> DEFINE n == [r EXCEPT !.lost = TRUE, !.names = names]
  <2>2. names \in Members
    BY <1>1, NobodyType DEF Request
  <2>3. n \in Request /\ n.lost /\ n.pc = r.pc /\ n.writes = r.writes
    BY <1>1, <2>2 DEF Request
  <2>4. Becomes(j, w, n)
    BY <2>1
  <2> HIDE DEF n
  <2> QED BY <1>2, <1>3, <1>6, <2>3, <2>4
<1> QED BY <1>4, <1>5, <1>6 DEF GivesUp

LEMMA GivenUpType ==
  ASSUME NEW t \in Job, NEW late \in SUBSET {"late"}
  PROVE  [t EXCEPT !.done = t.done \union late] \in Job /\ GivenUp(t, late) \in Job
<1>1. t.done \union late \in SUBSET (Places \union {"late"})
  BY DEF Job
<1> QED BY <1>1, DoneType, AfterFailureType DEF GivenUp

LEMMA GivesUpTypes ==
  ASSUME OwnTypes, NEW j \in Callers, NEW w \in Saves, GivesUp(j, w)
  PROVE  OwnTypes'
<1>1. /\ Fault /\ job' = [job EXCEPT ![j] = GivenUp(job[j], LateOf(j, w))]
      /\ UNCHANGED <<groups, ruled, alias, page, mix, started, owed>>
      /\ request' = request \/ \E r \in Request : Becomes(j, w, r)
  BY GivesUpFacts
<1>2. GivenUp(job[j], LateOf(j, w)) \in Job
  BY GivenUpType DEF OwnTypes, JobTypes, LateOf
<1>3. JobTypes'
  BY <1>1, <1>2, SetJobTypes DEF OwnTypes
<1>4. RequestTypes'
  BY <1>1, BecomesFacts DEF OwnTypes, RequestTypes
<1>5. CountTypes'
  BY <1>1, FaultTypes DEF OwnTypes
<1> QED BY <1>1, <1>3, <1>4, <1>5 DEF OwnTypes, GroupTypes, NameTypes, PageTyped

LEMMA EnrollEndsTypes ==
  ASSUME OwnTypes, NEW j \in Callers, EnrollUnknown(j) \/ EnrollRefused(j)
  PROVE  OwnTypes'
<1>1. job' = [job EXCEPT ![j] = IdleJob]
      /\ UNCHANGED <<groups, ruled, alias, page, request, mix, started, faults, owed>>
  BY DEF EnrollUnknown, EnrollRefused
<1>2. JobTypes'
  BY <1>1, IdleJobType, SetJobTypes DEF OwnTypes
<1> QED BY <1>1, <1>2 DEF OwnTypes, GroupTypes, NameTypes, PageTyped, RequestTypes, CountTypes

LEMMA EnrollWritesType ==
  ASSUME NameTypes, NEW t \in Job, t.device \in Devices, NEW from
  PROVE  /\ EnrollWrites(t, from) \in Writes /\ EnrollName(t) \in Labels
         /\ t.to \in Groups => EnrollWrites(t, from)[t.to] = [t.snap[t.to] EXCEPT ![t.device] = EnrollName(t)]
<1>1. t.snap \in [Groups -> Members] /\ t.name \in Labels \union {None}
  BY DEF Job
<1>2. EnrollName(t) \in Labels
  BY <1>1 DEF EnrollName, ShownName, NameTypes, Labels
<1>3. ASSUME NEW g \in Groups PROVE EnrollWrites(t, from)[g] \in Members \union {None}
  <2>1. t.snap[g] \in Members
    BY <1>1
  <2>2. Leaving(t, g) \in Members /\ [t.snap[g] EXCEPT ![t.device] = EnrollName(t)] \in Members
    BY <1>2, <2>1 DEF Leaving, Members
  <2> QED BY <2>1, <2>2 DEF EnrollWrites
<1>4. EnrollWrites(t, from) \in Writes
  BY <1>3 DEF EnrollWrites, Writes
<1> QED BY <1>2, <1>4 DEF EnrollWrites

LEMMA EnrollCheckedFacts ==
  ASSUME ListTypes, OwnTypes, NEW j \in Callers, EnrollChecked(j)
  PROVE  /\ job[j].pc = "enroll" /\ job[j].device \in Devices
         /\ UNCHANGED <<groups, ruled, alias, page, job, mix, started, faults, owed>>
         /\ \E from : \E r \in Request :
              /\ Becomes(j, "enroll", r)
              /\ r.pc = "save" /\ r.writes = EnrollWrites(job[j], from) /\ r.given = {job[j].device}
              /\ r.names = [Nobody EXCEPT ![job[j].device] = EnrollName(job[j])]
<1> DEFINE t == job[j]
<1>1. /\ t.pc = "enroll" /\ Found(j)
      /\ UNCHANGED <<groups, ruled, alias, page, job, mix, started, faults, owed>>
  BY DEF EnrollChecked, Listed
<1>2. PICK from \in EnrollSources(t) :
        Becomes(j, "enroll",
                [request[j]["enroll"] EXCEPT
                   !.pc = "save", !.writes = EnrollWrites(t, from), !.given = {t.device},
                   !.names = [Nobody EXCEPT ![t.device] = EnrollName(t)]])
  BY DEF EnrollChecked
<1>3. t \in Job /\ request[j]["enroll"] \in Request
  BY DEF OwnTypes, JobTypes, RequestTypes, Saves
<1>4. t.device \in Devices
  <2>1. cursor[j].all \in Seq(Devices)
    BY DEF ListTypes, Cursor
  <2>2. t.device \in ToSet(cursor[j].all)
    BY <1>1 DEF Found
  <2> QED BY <2>1, <2>2, ElementOfSeq DEF ToSet
<1> HIDE DEF t
<1> DEFINE writes == EnrollWrites(t, from)
           names == [Nobody EXCEPT ![t.device] = EnrollName(t)]
           given == {t.device}
           r == [request[j]["enroll"] EXCEPT !.pc = "save", !.writes = writes, !.given = given, !.names = names]
<1>5. writes \in Writes /\ EnrollName(t) \in Labels
  BY <1>3, <1>4, EnrollWritesType DEF OwnTypes
<1>6. names \in Members /\ given \in SUBSET Devices
  BY <1>4, <1>5, NobodyType DEF Members
<1>7. Becomes(j, "enroll", r)
  BY <1>2
<1>8. r \in Request /\ r.pc = "save" /\ r.writes = writes /\ r.given = given /\ r.names = names
  <2> HIDE DEF writes, names, given
  <2> QED BY <1>3, <1>5, <1>6 DEF Request, Writes
<1> HIDE DEF r
<1>9. \E fr : \E s \in Request :
        /\ Becomes(j, "enroll", s)
        /\ s.pc = "save" /\ s.writes = EnrollWrites(t, fr) /\ s.given = {t.device}
        /\ s.names = [Nobody EXCEPT ![t.device] = EnrollName(t)]
  BY <1>7, <1>8
<1> QED BY <1>1, <1>4, <1>9 DEF t

LEMMA EnrollCheckedTypes ==
  ASSUME ListTypes, OwnTypes, NEW j \in Callers, EnrollChecked(j)
  PROVE  OwnTypes'
<1>1. PICK r \in Request : Becomes(j, "enroll", r)
  BY EnrollCheckedFacts
<1>2. RequestTypes'
  BY <1>1, BecomesFacts DEF OwnTypes, Saves
<1>3. UNCHANGED <<groups, ruled, alias, page, job, mix, started, faults, owed>>
  BY EnrollCheckedFacts
<1> QED BY <1>2, <1>3 DEF OwnTypes, GroupTypes, NameTypes, PageTyped, JobTypes, CountTypes

LEMMA LoadedTypes ==
  ASSUME JobTypes, NEW j \in Callers, NEW what, Loaded(j, what)
  PROVE  JobTypes'
<1>1. job[j] \in Job /\ job[j].todo \ {what} \in SUBSET Loads /\ "load" \in Places
  BY DEF JobTypes, Job, Places, Saves, Puts
<1>2. AtPlace(job[j], "load", job[j].todo \ {what}) \in Job
  BY <1>1, AtPlaceType
<1> QED BY <1>2, SetJobTypes DEF Loaded

LEMMA LoadTypes ==
  ASSUME OwnTypes, NEW j \in Callers,
         LoadProfiles(j) \/ LoadDevices(j) \/ ShowDevices(j) \/ LoadFails(j)
  PROVE  OwnTypes'
<1>1. CASE LoadProfiles(j)
  <2>1. /\ Loaded(j, "profiles") /\ page' = [page EXCEPT !.profiles = groups]
        /\ UNCHANGED <<groups, ruled, alias, request, mix, started, faults, owed>>
    BY <1>1 DEF LoadProfiles
  <2>2. JobTypes'
    BY <2>1, LoadedTypes DEF OwnTypes
  <2> QED BY <2>1, <2>2 DEF OwnTypes, GroupTypes, NameTypes, PageTyped, RequestTypes, CountTypes
<1>2. CASE LoadDevices(j)
  <2>1. /\ job' = [job EXCEPT ![j].snap = groups]
        /\ UNCHANGED <<groups, ruled, alias, page, request, mix, started, faults, owed>>
    BY <1>2 DEF LoadDevices
  <2>2. [job[j] EXCEPT !.snap = groups] \in Job
    BY DEF OwnTypes, JobTypes, GroupTypes, Job
  <2>3. JobTypes'
    BY <2>1, <2>2 DEF OwnTypes, JobTypes
  <2> QED BY <2>1, <2>3 DEF OwnTypes, GroupTypes, NameTypes, PageTyped, RequestTypes, CountTypes
<1>3. CASE ShowDevices(j)
  <2>1. /\ Loaded(j, "devices") /\ UNCHANGED <<groups, ruled, alias, request, mix, started, faults, owed>>
    BY <1>3 DEF ShowDevices
  <2>2. PICK place \in Placings(job[j].snap) :
          page' = [page EXCEPT !.devices = Shown(job[j].snap, place, ToSet(cursor[j].all))]
    BY <1>3 DEF ShowDevices
  <2>3. job[j].snap \in [Groups -> Members]
    BY DEF OwnTypes, JobTypes, Job
  <2>4. Shown(job[j].snap, place, ToSet(cursor[j].all)) \in [Devices -> Row \union {None}]
    BY <2>3, ShownType DEF OwnTypes
  <2>5. PageTyped'
    BY <2>2, <2>4 DEF OwnTypes, PageTyped
  <2>6. JobTypes'
    BY <2>1, LoadedTypes DEF OwnTypes
  <2> QED BY <2>1, <2>5, <2>6 DEF OwnTypes, GroupTypes, NameTypes, RequestTypes, CountTypes
<1>4. CASE LoadFails(j)
  <2>1. /\ Fault /\ \E what \in Loads : Loaded(j, what)
        /\ UNCHANGED <<groups, ruled, alias, page, request, mix, started, owed>>
    BY <1>4 DEF LoadFails, Loads
  <2>2. JobTypes'
    BY <2>1, LoadedTypes DEF OwnTypes
  <2>3. CountTypes'
    BY <2>1, FaultTypes DEF OwnTypes
  <2> QED BY <2>1, <2>2, <2>3 DEF OwnTypes, GroupTypes, NameTypes, PageTyped, RequestTypes
<1> QED BY <1>1, <1>2, <1>3, <1>4

LEMMA RestTypes ==
  ASSUME OwnTypes, AppRename \/ Churn \/ (\E j \in Callers : ReadPage(j)) \/ UNCHANGED vars
  PROVE  OwnTypes'
<1>1. CASE AppRename
  <2>1. PICK d \in Devices, n \in Names \union {None} :
          alias' = [alias EXCEPT ![d] = n] /\ owed' = owed \ {d}
    BY <1>1 DEF AppRename
  <2>2. NameTypes'
    BY <2>1 DEF OwnTypes, NameTypes, Labels
  <2>3. mix.jobs \in 0 .. MaxJobs /\ started \in Nat /\ MaxJobs \in Nat
    BY MixesAssumption, BoundsAssumption DEF OwnTypes, CountTypes
  <2>4. started' \in 0 .. MaxJobs /\ UNCHANGED <<groups, ruled, page, job, request, mix, faults>>
    BY <1>1, <2>3 DEF AppRename
  <2> QED BY <2>2, <2>4 DEF OwnTypes, GroupTypes, PageTyped, JobTypes, RequestTypes, CountTypes
<1>2. CASE UNCHANGED <<groups, ruled, alias, page, job, request, mix, started, faults, owed>>
  BY <1>2 DEF OwnTypes, GroupTypes, NameTypes, PageTyped, JobTypes, RequestTypes, CountTypes
<1> QED BY <1>1, <1>2 DEF Churn, ReadPage, vars

LEMMA OwnTypesStep == ListTypes /\ OwnTypes /\ [Next]_vars => OwnTypes'
<1> SUFFICES ASSUME ListTypes, OwnTypes, [Next]_vars PROVE OwnTypes'
  OBVIOUS
<1>1. ASSUME NEW j \in Callers, Work(j), ~ReadPage(j) PROVE OwnTypes'
  BY <1>1, PutCheckedTypes, PutRefusedTypes, SavedTypes, SaveFailsTypes, PushTypes, AnsweredTypes,
     GivesUpTypes, EnrollEndsTypes, EnrollCheckedTypes, LoadTypes
  DEF Work
<1> QED BY <1>1, MoveTypes, SaveTypes, OpenTypes, EnrollTypes, RestTypes DEF Next, Rest

LEMMA OwnTypesInit == Init => OwnTypes
<1> SUFFICES ASSUME Init PROVE OwnTypes
  OBVIOUS
<1>1. PICK place \in [Devices -> Groups \union {None}] :
        /\ groups = [g \in Groups |-> [d \in Devices |-> IF place[d] = g THEN d ELSE None]]
        /\ page = [profiles |-> groups, devices |-> Shown(groups, place, Devices)]
  BY DEF Init
<1>2. groups \in [Groups -> Members]
  BY <1>1 DEF Members, Labels
<1>3. NameTypes
  BY DEF Init, NameTypes
<1>4. place \in Placings(groups)
  <2> SUFFICES ASSUME NEW d \in Devices
               PROVE  IF HomesOf(groups, d) = {} THEN place[d] = None ELSE place[d] \in HomesOf(groups, d)
    BY DEF Placings
  <2>1. None \notin Devices
    BY NoneAssumption DEF Labels
  <2>2. HomesOf(groups, d) = {g \in Groups : place[d] = g}
    BY <1>1, <2>1 DEF HomesOf
  <2> QED BY <2>2
<1>5. Shown(groups, place, Devices) \in [Devices -> Row \union {None}]
  BY <1>2, <1>3, <1>4, ShownType
<1>6. PageTyped
  BY <1>1, <1>2, <1>5 DEF PageTyped
<1>7. MaxJobs \in Nat /\ MaxFaults \in Nat
  BY BoundsAssumption
<1>8. ruled \subseteq Groups
  BY DEF Init
<1>9. JobTypes
  BY IdleJobType DEF Init, JobTypes
<1>r. RequestTypes
  BY NoRequestType DEF Init, RequestTypes
<1>10. CountTypes
  <2>1. mix \in Mixes /\ started = 0 /\ faults = 0
    BY DEF Init
  <2> QED BY <1>7, <2>1 DEF CountTypes
<1> QED BY <1>2, <1>3, <1>6, <1>8, <1>9, <1>r, <1>10 DEF OwnTypes, GroupTypes

\* Every variable of the model has its type, whatever pages and phones do beside
\* each other, and no device is in the gateway's list twice.
THEOREM DevicesAreTyped == Spec => []TypeOK
<1>1. Init => OwnTypes
  BY OwnTypesInit
<1>2. ListOK /\ OwnTypes /\ [Next]_vars => OwnTypes'
  BY OwnTypesStep DEF ListOK
<1>3. ListOK /\ OwnTypes => TypeOK
  BY TypeParts DEF ListOK, OwnTypes
<1> QED BY <1>1, <1>2, <1>3, ListOKAlways, PTL DEF Spec
-----------------------------------------------------------------------------
(* One job acts at a time.                                                  *)

\* What a step of job j leaves to another one.
Beside(t, next) ==
  \/ next = t /\ UNCHANGED groups
  \/ next = [t EXCEPT !.alone = FALSE]
Aside(j) == \A i \in Callers \ {j} : Beside(job[i], job'[i]) /\ request'[i] = request[i]

Acts(j) == Move(j) \/ Save(j) \/ Open(j) \/ Enroll(j) \/ Work(j)

LEMMA MovedBeside ==
  ASSUME JobTypes, NEW j \in Callers, NEW t, Moved(j, t)
  PROVE  job'[j] = t /\ \A i \in Callers \ {j} : Beside(job[i], job'[i])
<1>1. job'[j] = t
  BY DEF Moved
<1>2. ASSUME NEW i \in Callers \ {j} PROVE Beside(job[i], job'[i])
  <2> DEFINE b == job[i].alone /\ groups' = groups
  <2>1. job'[i] = [job[i] EXCEPT !.alone = b]
    BY DEF Moved
  <2>2. job[i] \in Job /\ job[i].alone \in BOOLEAN
    BY DEF JobTypes, Job
  <2>3. CASE groups' = groups
    <3>1. b = job[i].alone
      BY <2>2, <2>3
    <3>2. [job[i] EXCEPT !.alone = job[i].alone] = job[i]
      BY <2>2 DEF Job
    <3> QED BY <2>1, <2>3, <3>1, <3>2 DEF Beside
  <2>4. CASE groups' # groups
    <3>1. b = FALSE
      BY <2>4
    <3> QED BY <2>1, <3>1 DEF Beside
  <2> QED BY <2>3, <2>4
<1> QED BY <1>1, <1>2

LEMMA SetBeside ==
  ASSUME JobTypes, NEW j \in Callers, NEW t, job' = [job EXCEPT ![j] = t], UNCHANGED groups
  PROVE  job'[j] = t /\ \A i \in Callers \ {j} : Beside(job[i], job'[i])
BY DEF JobTypes, Beside

LEMMA SameBeside ==
  ASSUME UNCHANGED <<job, groups>> PROVE \A i \in Callers : Beside(job[i], job'[i])
BY DEF Beside

LEMMA BecomesAside ==
  ASSUME RequestTypes, NEW j \in Callers, NEW w, NEW r, Becomes(j, w, r)
  PROVE  \A i \in Callers \ {j} : request'[i] = request[i]
BY DEF Becomes, RequestTypes

LEMMA JobSteps ==
  ASSUME ListTypes, OwnTypes, [Next]_vars
  PROVE  /\ UNCHANGED ruled /\ faults \in Nat /\ faults' \in Nat /\ faults' >= faults
         /\ UNCHANGED <<job, groups, request>> \/ \E j \in Callers : Acts(j) /\ ~ReadPage(j) /\ Aside(j)
<1>0. JobTypes /\ RequestTypes /\ faults \in Nat
  BY BoundsAssumption DEF OwnTypes, CountTypes
<1>f. Fault => faults' \in Nat /\ faults' >= faults
  BY <1>0 DEF Fault
<1> DEFINE Quiet == UNCHANGED ruled /\ faults' \in Nat /\ faults' >= faults
<1>1. CASE UNCHANGED vars \/ AppRename \/ Churn \/ Rest
  BY <1>0, <1>1 DEF vars, AppRename, Churn, Rest
<1>2. ASSUME NEW j \in Callers, Move(j) \/ Save(j) \/ Open(j) \/ Enroll(j) PROVE Quiet /\ Aside(j)
  <2>1. UNCHANGED <<groups, ruled, request, faults>> /\ \E t : job' = [job EXCEPT ![j] = t]
    BY <1>2 DEF Move, Save, Open, Enroll, Start
  <2>2. PICK t : job' = [job EXCEPT ![j] = t]
    BY <2>1
  <2>3. Aside(j)
    BY <1>0, <2>1, <2>2, SetBeside DEF Aside
  <2>4. Quiet
    BY <1>0, <2>1
  <2> QED BY <2>3, <2>4
<1>3. ASSUME NEW j \in Callers, NEW w \in Saves, Saved(j, w) \/ SaveFails(j, w)
      PROVE  Quiet /\ Aside(j)
  <2>1. /\ UNCHANGED ruled /\ (Fault \/ UNCHANGED faults) /\ \E t : Moved(j, t)
        /\ \E r : Becomes(j, w, r)
    BY <1>3 DEF Saved, SaveFails
  <2>2. PICK t : Moved(j, t)
    BY <2>1
  <2>3. Aside(j)
    BY <1>0, <2>1, <2>2, MovedBeside, BecomesAside DEF Aside
  <2>4. Quiet
    BY <1>0, <1>f, <2>1
  <2> QED BY <2>3, <2>4
<1>4. ASSUME NEW j \in Callers, NEW w \in Saves,
             (w \in Puts /\ PutRefused(j, w)) \/ Answered(j, w)
      PROVE  Quiet /\ Aside(j)
  <2>1. /\ UNCHANGED <<groups, ruled, faults>> /\ \E t : job' = [job EXCEPT ![j] = t]
        /\ \E r : Becomes(j, w, r)
    BY <1>4 DEF PutRefused, Answered
  <2>2. PICK t : job' = [job EXCEPT ![j] = t]
    BY <2>1
  <2>3. Aside(j)
    BY <1>0, <2>1, <2>2, SetBeside, BecomesAside DEF Aside
  <2>4. Quiet
    BY <1>0, <2>1
  <2> QED BY <2>3, <2>4
<1>5. ASSUME NEW j \in Callers, NEW w \in Saves, GivesUp(j, w) PROVE Quiet /\ Aside(j)
  <2>1. /\ UNCHANGED <<groups, ruled>> /\ Fault /\ \E t : job' = [job EXCEPT ![j] = t]
        /\ request' = request \/ \E r : Becomes(j, w, r)
    BY <1>5, GivesUpFacts
  <2>2. PICK t : job' = [job EXCEPT ![j] = t]
    BY <2>1
  <2>3. Aside(j)
    BY <1>0, <2>1, <2>2, SetBeside, BecomesAside DEF Aside
  <2>4. Quiet
    BY <1>0, <1>f, <2>1
  <2> QED BY <2>3, <2>4
<1>6. ASSUME NEW j \in Callers, NEW w \in Saves, (w \in Puts /\ PutChecked(j, w)) \/ Push(j, w) \/ EnrollChecked(j)
      PROVE  Quiet /\ Aside(j)
  <2>1. UNCHANGED <<groups, ruled, job>> /\ (Fault \/ UNCHANGED faults) /\ \E v, r : Becomes(j, v, r)
    BY <1>6, EnrollCheckedFacts DEF PutChecked, Push
  <2>2. Aside(j)
    BY <1>0, <2>1, SameBeside, BecomesAside DEF Aside
  <2>3. Quiet
    BY <1>0, <1>f, <2>1
  <2> QED BY <2>2, <2>3
<1>7. ASSUME NEW j \in Callers,
             \/ EnrollUnknown(j) \/ EnrollRefused(j)
             \/ LoadProfiles(j) \/ ShowDevices(j) \/ LoadFails(j) \/ LoadDevices(j)
      PROVE  Quiet /\ Aside(j)
  <2>1. /\ UNCHANGED <<groups, ruled, request>> /\ (Fault \/ UNCHANGED faults)
        /\ \E t : job' = [job EXCEPT ![j] = t]
    <3>1. CASE LoadDevices(j)
      <4>1. UNCHANGED <<groups, ruled, request, faults>> /\ job' = [job EXCEPT ![j].snap = groups]
        BY <3>1 DEF LoadDevices
      <4>2. job' = [job EXCEPT ![j] = [job[j] EXCEPT !.snap = groups]]
        BY <4>1
      <4> QED BY <4>1, <4>2
    <3>2. CASE LoadProfiles(j) \/ ShowDevices(j) \/ LoadFails(j) \/ EnrollUnknown(j) \/ EnrollRefused(j)
      BY <3>2 DEF LoadProfiles, ShowDevices, LoadFails, Loaded, EnrollUnknown, EnrollRefused
    <3> QED BY <1>7, <3>1, <3>2
  <2>2. PICK t : job' = [job EXCEPT ![j] = t]
    BY <2>1
  <2>3. Aside(j)
    BY <1>0, <2>1, <2>2, SetBeside DEF Aside
  <2>4. Quiet
    BY <1>0, <1>f, <2>1
  <2> QED BY <2>3, <2>4
<1>8. CASE \E j \in Callers : ReadPage(j)
  BY <1>0, <1>8 DEF ReadPage
<1>9. CASE \E j \in Callers : Acts(j) /\ ~ReadPage(j)
  <2>1. PICK j \in Callers : Acts(j) /\ ~ReadPage(j)
    BY <1>9
  <2>2. Quiet /\ Aside(j)
    <3>1. \A w \in Puts : w \in Saves
      BY DEF Saves
    <3>2. "enroll" \in Saves
      BY DEF Saves
    <3> QED BY <2>1, <3>1, <3>2, <1>2, <1>3, <1>4, <1>5, <1>6, <1>7 DEF Acts, Work
  <2> QED BY <1>0, <2>1, <2>2
<1> QED BY <1>1, <1>8, <1>9 DEF Next, Acts

\* What the acting job's step makes of the job.
LEMMA ActsOn ==
  ASSUME ListTypes, OwnTypes, NEW j \in Callers, Acts(j), ~ReadPage(j)
  PROVE  \/ Move(j) \/ Save(j) \/ Open(j) \/ Enroll(j)
         \/ \E w \in Puts : PutChecked(j, w) \/ PutRefused(j, w)
         \/ \E w \in Saves : Saved(j, w) \/ SaveFails(j, w) \/ Push(j, w) \/ Answered(j, w) \/ GivesUp(j, w)
         \/ job'[j] = job[j] /\ EnrollChecked(j)
         \/ job'[j] = IdleJob
         \/ /\ \E todo \in SUBSET Loads : job'[j] = AtPlace(job[j], "load", todo)
            /\ job[j].pc = "load" \/ job'[j] = AtPlace(job[j], "load", job[j].todo \ {"devices"})
            /\ UNCHANGED <<groups, request>>
         \/ /\ job[j].pc = "load" /\ job'[j] = [job[j] EXCEPT !.snap = groups]
            /\ UNCHANGED <<groups, request>>
<1>0. \A t : job' = [job EXCEPT ![j] = t] => job'[j] = t
  BY DEF OwnTypes, JobTypes
<1>1. CASE EnrollUnknown(j) \/ EnrollRefused(j)
  BY <1>0, <1>1 DEF EnrollUnknown, EnrollRefused
<1>2. CASE EnrollChecked(j)
  BY <1>2, EnrollCheckedFacts
<1>t. job[j].todo \subseteq Loads
  BY DEF OwnTypes, JobTypes, Job
<1>3. CASE LoadProfiles(j) \/ ShowDevices(j) \/ LoadFails(j)
  <2>1. PICK what \in Loads : /\ Loaded(j, what) /\ UNCHANGED <<groups, request>>
                              /\ job[j].pc = "load" \/ what = "devices"
    BY <1>3 DEF LoadProfiles, ShowDevices, LoadFails, Loads
  <2>2. job'[j] = AtPlace(job[j], "load", job[j].todo \ {what})
    BY <1>0, <2>1 DEF Loaded
  <2>3. job[j].todo \ {what} \in SUBSET Loads
    BY <1>t
  <2> QED BY <2>1, <2>2, <2>3
<1>4. CASE LoadDevices(j)
  <2>1. UNCHANGED <<groups, request>> /\ job[j].pc = "load" /\ job' = [job EXCEPT ![j].snap = groups]
    BY <1>4 DEF LoadDevices
  <2>2. job'[j] = [job[j] EXCEPT !.snap = groups]
    BY <2>1 DEF OwnTypes, JobTypes
  <2> QED BY <2>1, <2>2
<1> QED BY <1>1, <1>2, <1>3, <1>4 DEF Acts, Work

LEMMA AtPlaceFacts ==
  ASSUME NEW t \in Job, NEW pc \in Places, NEW todo \in SUBSET Loads
  PROVE  \/ AtPlace(t, pc, todo) = IdleJob
         \/ /\ AtPlace(t, pc, todo) = [t EXCEPT !.pc = pc, !.todo = todo]
            /\ AtPlace(t, pc, todo).pc = pc /\ AtPlace(t, pc, todo).todo = todo
BY DEF AtPlace, Job

-----------------------------------------------------------------------------
(* Names.                                                                   *)

\* An enrollment is into a group.
Shaped == \A j \in Callers : job[j].pc = "enroll" => job[j].to \in Groups

\* The places a job can come to.
LEMMA NextPlaces ==
  ASSUME NEW t \in Job
  PROVE  /\ AfterSuccess(t).pc \in {"idle", "add", "load"}
         /\ AfterFailure(t).pc \in {"idle", "return", "load"}
         /\ \A todo : AtPlace(t, "load", todo).pc \in {"idle", "load"}
<1>0. IdleJob.pc = "idle"
  BY DEF IdleJob
<1>1. ASSUME NEW u \in Job, NEW pc, NEW todo PROVE AtPlace(u, pc, todo).pc \in {"idle", pc}
  BY <1>0 DEF AtPlace, Job
<1>2. [t EXCEPT !.done = {"remove"}] \in Job /\ [t EXCEPT !.done = @ \union {t.pc}] \in Job
  <2>1. t.pc \in Places /\ t.done \in SUBSET (Places \union {"late"})
    BY DEF Job
  <2>2. {"remove"} \in SUBSET (Places \union {"late"}) /\ t.done \union {t.pc} \in SUBSET (Places \union {"late"})
    BY <2>1 DEF Places, Saves, Puts
  <2> QED BY <2>2, DoneType
<1>3. AfterSuccess(t) \in {IdleJob, AtPlace([t EXCEPT !.done = {"remove"}], "add", {}),
                           AtPlace([t EXCEPT !.done = @ \union {t.pc}], "load", Loads)}
  BY DEF AfterSuccess
<1>4. AfterFailure(t) \in {IdleJob, AtPlace(t, "load", {"devices"}), AtPlace(t, "return", {}),
                           AtPlace(t, "load", Loads)}
  BY DEF AfterFailure
<1>5. AfterSuccess(t).pc \in {"idle", "add", "load"}
  BY <1>0, <1>1, <1>2, <1>3
<1>6. AfterFailure(t).pc \in {"idle", "return", "load"}
  BY <1>0, <1>1, <1>4
<1> QED BY <1>1, <1>5, <1>6

LEMMA StartShape ==
  ASSUME OwnTypes, NEW j \in Callers, Move(j) \/ Save(j) \/ Open(j) \/ Enroll(j)
  PROVE  job'[j].pc = "enroll" => job'[j].to \in Groups
<1>1. CASE Move(j)
  <2>1. PICK d \in Devices, to \in Groups \union {None} :
          LET row == page.devices[d]
          IN  job' = [job EXCEPT ![j] = [
                   [IdleJob EXCEPT !.pc = First(row.group, to), !.device = d, !.name = row.name,
                      !.from = row.group, !.to = to, !.alone = Fresh /\ Parted,
                      !.old  = IF row.group = None THEN Nobody ELSE page.profiles[row.group],
                      !.next = IF to = None THEN Nobody ELSE page.profiles[to]]
                    EXCEPT !.kind = "Move"]]
    BY <1>1 DEF Move, Start
  <2>2. job'[j].pc = First(page.devices[d].group, to)
    BY <2>1 DEF OwnTypes, JobTypes, IdleJob
  <2> QED BY <2>2 DEF First
<1>2. CASE Save(j)
  <2>1. PICK g \in Groups, m \in Members : job' = [job EXCEPT ![j] =
          [[IdleJob EXCEPT !.pc = "save", !.to = g, !.next = m, !.alone = Fresh /\ Parted] EXCEPT !.kind = "Save"]]
    BY <1>2 DEF Save, Start, Edits
  <2> QED BY <2>1 DEF OwnTypes, JobTypes, IdleJob
<1>3. CASE Open(j)
  <2>1. job' = [job EXCEPT ![j] = [[IdleJob EXCEPT !.pc = "load", !.todo = Loads] EXCEPT !.kind = "Open"]]
    BY <1>3 DEF Open, Start
  <2> QED BY <2>1 DEF OwnTypes, JobTypes, IdleJob
<1>4. CASE Enroll(j)
  <2>1. PICK d \in Devices, to \in Groups, n \in Names \union {None} : job' = [job EXCEPT ![j] =
          [[IdleJob EXCEPT !.pc = "enroll", !.device = d, !.to = to, !.name = n, !.snap = groups]
           EXCEPT !.kind = "Enroll"]]
    BY <1>4 DEF Enroll, Start
  <2> QED BY <2>1 DEF OwnTypes, JobTypes, IdleJob
<1> QED BY <1>1, <1>2, <1>3, <1>4

\* What the save of a request leaves of its job.
LEMMA ServedJob ==
  ASSUME OwnTypes, NEW j \in Callers, NEW w \in Saves,
         \/ w \in Puts /\ (PutChecked(j, w) \/ PutRefused(j, w))
         \/ Saved(j, w) \/ SaveFails(j, w) \/ Push(j, w) \/ Answered(j, w) \/ GivesUp(j, w)
  PROVE  \/ job'[j] = job[j]
         \/ job'[j] = AfterSuccess(job[j])
         \/ job'[j] = AfterFailure(job[j])
         \/ \E late \in SUBSET {"late"} : job'[j] = GivenUp(job[j], late)
<1>0. \A t : job' = [job EXCEPT ![j] = t] => job'[j] = t
  BY DEF OwnTypes, JobTypes
<1>1. \A t : Moved(j, t) => job'[j] = t
  BY DEF Moved
<1>2. CASE (w \in Puts /\ PutChecked(j, w)) \/ Push(j, w)
  BY <1>2 DEF PutChecked, Push
<1>3. CASE w \in Puts /\ PutRefused(j, w)
  BY <1>0, <1>3 DEF PutRefused, Answer
<1>4. CASE Saved(j, w)
  BY <1>1, <1>4 DEF Saved
<1>5. CASE SaveFails(j, w)
  BY <1>1, <1>5 DEF SaveFails, Answer
<1>6. CASE Answered(j, w)
  BY <1>0, <1>6 DEF Answered, Answer
<1>7. CASE GivesUp(j, w)
  <2>1. job'[j] = GivenUp(job[j], LateOf(j, w)) /\ LateOf(j, w) \in SUBSET {"late"}
    BY <1>0, <1>7, GivesUpFacts DEF LateOf
  <2> QED BY <2>1
<1> QED BY <1>2, <1>3, <1>4, <1>5, <1>6, <1>7

LEMMA ShapeKept ==
  ASSUME ListTypes, OwnTypes, Shaped, [Next]_vars
  PROVE  Shaped'
<1>1. CASE UNCHANGED <<job, groups, request>>
  BY <1>1 DEF Shaped
<1>2. ASSUME NEW j \in Callers, Acts(j), ~ReadPage(j), Aside(j)
      PROVE  Shaped'
  <2>0. \A i \in Callers : job[i] \in Job
    BY DEF OwnTypes, JobTypes
  <2>1. ASSUME NEW i \in Callers \ {j} PROVE job'[i].pc = "enroll" => job'[i].to \in Groups
    <3>1. job[i] \in Job /\ Beside(job[i], job'[i])
      BY <1>2, <2>0 DEF Aside
    <3>2. job'[i].pc = job[i].pc /\ job'[i].to = job[i].to
      BY <3>1 DEF Beside, Job
    <3> QED BY <3>2 DEF Shaped
  <2>2. job'[j].pc = "enroll" => job'[j].to \in Groups
    <3>1. CASE Move(j) \/ Save(j) \/ Open(j) \/ Enroll(j)
      BY <3>1, StartShape
    <3>2. CASE job'[j] = job[j]
      BY <3>2 DEF Shaped
    <3>3. CASE \/ job'[j] = AfterSuccess(job[j]) \/ job'[j] = AfterFailure(job[j]) \/ job'[j] = IdleJob
               \/ \E todo \in SUBSET Loads : job'[j] = AtPlace(job[j], "load", todo)
      BY <2>0, <3>3, NextPlaces DEF IdleJob
    <3>4. CASE \E late \in SUBSET {"late"} : job'[j] = GivenUp(job[j], late)
      <4>1. PICK late \in SUBSET {"late"} : job'[j] = GivenUp(job[j], late)
        BY <3>4
      <4>2. [job[j] EXCEPT !.done = job[j].done \union late] \in Job
        BY <2>0, GivenUpType
      <4> QED BY <4>1, <4>2, NextPlaces DEF GivenUp
    <3>5. CASE job'[j] = [job[j] EXCEPT !.snap = groups] /\ job[j].pc = "load"
      BY <2>0, <3>5 DEF Job
    <3>6. \A w \in Puts : w \in Saves
      BY DEF Saves
    <3> QED BY <1>2, <3>6, ActsOn, ServedJob, <3>1, <3>2, <3>3, <3>4, <3>5
  <2> QED BY <2>1, <2>2 DEF Shaped
<1> QED BY <1>1, <1>2, JobSteps

LEMMA ShapedInit == Init => Shaped
BY DEF Init, Shaped, IdleJob

\* Of the only name a device has.
LEMMA OnlyName ==
  ASSUME NEW gs \in [Groups -> Members], NEW d \in Devices, NEW g \in Groups, gs[g][d] # None,
         Cardinality(NamesOf(gs, d)) = 1
  PROVE  NamesOf(gs, d) = {gs[g][d]}
<1> DEFINE S == NamesOf(gs, d)
           T == {gs[o][d] : o \in Groups}
           f == [o \in Groups |-> gs[o][d]]
<1>1. IsFiniteSet(T)
  <2>1. IsFiniteSet(Groups)
    BY GroupsAssumption
  <2>2. f \in Surjection(Groups, T)
    BY DEF Surjection
  <2> QED BY <2>1, <2>2, FS_Surjection
<1>2. IsFiniteSet(S)
  BY <1>1, FS_Subset DEF NamesOf
<1>3. gs[g][d] \in S
  BY DEF NamesOf
<1> HIDE DEF S
<1>4. PICK x : S = {x}
  BY <1>2, FS_Singleton DEF S
<1>5. S = {gs[g][d]}
  BY <1>3, <1>4
<1> QED BY <1>5 DEF S

\* A checked request writes every name it will push, and pushes every one it gives;
\* an owed device has one name, every name about to be pushed for it is this one,
\* and it is the gateway's or about to be.
Pushing(r, d) == r.pc = "push" /\ r.names[d] # None
RequestOK(r) ==
  r.pc = "save" =>
    /\ \A d \in Devices : r.names[d] # None =>
         \E g \in Groups : r.writes[g] # None /\ r.writes[g][d] = r.names[d]
    /\ \A d \in r.given : r.names[d] # None
OwingOK(d, rs, gs, a) ==
  /\ \E n : n # None /\ NamesOf(gs, d) = {n}
  /\ \A j \in Callers, w \in Saves : Pushing(rs[j][w], d) => rs[j][w].names[d] \in NamesOf(gs, d)
  /\ \/ NamesOf(gs, d) = {a[d]}
     \/ \E j \in Callers, w \in Saves : Pushing(rs[j][w], d)
NameInv ==
  faults = 0 =>
    /\ \A j \in Callers, w \in Saves : RequestOK(request[j][w])
    /\ \A d \in owed : OwingOK(d, request, groups, alias)

\* Steps of a request that is not about to push before or after.
LEMMA NamesKept ==
  ASSUME OwnTypes, NameInv, UNCHANGED <<groups, alias, owed, faults>>,
         NEW j \in Callers, NEW w \in Saves, NEW r \in Request, Becomes(j, w, r),
         RequestOK(r), r.pc # "push", request[j][w].pc # "push" \/ request[j][w].names = Nobody
  PROVE  NameInv'
<1> SUFFICES ASSUME faults = 0
             PROVE  /\ \A i \in Callers, v \in Saves : RequestOK(request'[i][v])
                    /\ \A d \in owed : OwingOK(d, request', groups, alias)
  BY DEF NameInv
<1>1. /\ request'[j][w] = r
      /\ \A i \in Callers, v \in Saves : <<i, v>> = <<j, w>> \/ request'[i][v] = request[i][v]
  BY BecomesFacts DEF OwnTypes
<1>2. \A i \in Callers, v \in Saves : RequestOK(request'[i][v])
  BY <1>1 DEF NameInv
<1>3. ASSUME NEW d \in owed PROVE OwingOK(d, request', groups, alias)
  <2>1. d \in Devices /\ OwingOK(d, request, groups, alias)
    BY DEF NameInv, OwnTypes, NameTypes
  <2>2. ~Pushing(request[j][w], d) /\ ~Pushing(r, d)
    BY <2>1 DEF Pushing, Nobody
  <2>3. \A i \in Callers, v \in Saves :
          \/ request'[i][v] = request[i][v]
          \/ ~Pushing(request[i][v], d) /\ ~Pushing(request'[i][v], d)
    BY <1>1, <2>2
  <2> QED BY <2>1, <2>3 DEF OwingOK
<1> QED BY <1>2, <1>3

LEMMA NamesAfterCheck ==
  ASSUME OwnTypes, NameInv, NEW j \in Callers, NEW w \in Puts, PutChecked(j, w)
  PROVE  NameInv'
<1> DEFINE asked == Asked(j, w)
<1>1. Arriving(j, w) /\ UNCHANGED <<groups, alias, owed, faults>>
  BY DEF PutChecked
<1>2. PICK g \in Written(asked) :
        Becomes(j, w,
          [request[j][w] EXCEPT !.pc = "save", !.writes = asked,
             !.names = [d \in Devices |-> IF d \in Renamed(g, asked[g]) THEN asked[g][d] ELSE None],
             !.given = {d \in Devices : groups[g][d] # None
                                        /\ asked[g][d] \notin {None, groups[g][d]}}])
  BY DEF PutChecked
<1>3. request[j][w] \in Request /\ asked \in Writes /\ w \in Saves
  BY <1>1, AskedType DEF OwnTypes, RequestTypes, Saves
<1>4. g \in Groups /\ asked[g] # None
  BY <1>2 DEF Written
<1> HIDE DEF asked
<1> DEFINE names == [d \in Devices |-> IF d \in Renamed(g, asked[g]) THEN asked[g][d] ELSE None]
           given == {d \in Devices : groups[g][d] # None /\ asked[g][d] \notin {None, groups[g][d]}}
           r == [request[j][w] EXCEPT !.pc = "save", !.writes = asked, !.names = names, !.given = given]
<1>5. names \in Members /\ given \in SUBSET Devices
  BY <1>3, <1>4 DEF Members, Writes
<1>6. Becomes(j, w, r)
  BY <1>2
<1>7. given = Renamed(g, asked[g])
  BY DEF Renamed
<1>8. \A d \in Devices : /\ names[d] # None => asked[g][d] = names[d]
                         /\ d \in given => names[d] # None
  BY <1>7
<1>9. r \in Request /\ r.pc = "save" /\ r.writes = asked /\ r.names = names /\ r.given = given
  <2> HIDE DEF names, given
  <2> QED BY <1>3, <1>5 DEF Request, Writes
<1> HIDE DEF names, given, r
<1>10. RequestOK(r)
  BY <1>4, <1>5, <1>8, <1>9 DEF RequestOK
<1>11. request[j][w].pc # "push"
  BY <1>1 DEF Arriving
<1> QED BY <1>1, <1>3, <1>6, <1>9, <1>10, <1>11, NamesKept

LEMMA NamesAfterEnroll ==
  ASSUME ListTypes, OwnTypes, Shaped, NameInv, NEW j \in Callers, EnrollChecked(j)
  PROVE  NameInv'
<1> DEFINE t == job[j]
<1>1. t.pc = "enroll" /\ t.device \in Devices /\ t \in Job /\ t.to \in Groups
  BY EnrollCheckedFacts DEF OwnTypes, JobTypes, Shaped
<1>2. PICK from : \E r \in Request :
              /\ Becomes(j, "enroll", r)
              /\ r.pc = "save" /\ r.writes = EnrollWrites(t, from) /\ r.given = {t.device}
              /\ r.names = [Nobody EXCEPT ![t.device] = EnrollName(t)]
  BY EnrollCheckedFacts
<1>3. PICK r \in Request :
              /\ Becomes(j, "enroll", r)
              /\ r.pc = "save" /\ r.writes = EnrollWrites(t, from) /\ r.given = {t.device}
              /\ r.names = [Nobody EXCEPT ![t.device] = EnrollName(t)]
  BY <1>2
<1>4. UNCHANGED <<groups, alias, owed, faults>> /\ request[j]["enroll"].pc = "none" /\ "enroll" \in Saves
  BY DEF EnrollChecked, Listed, Saves
<1> HIDE DEF t
<1>5. /\ r.writes \in Writes /\ EnrollName(t) \in Labels
      /\ r.writes[t.to] = [t.snap[t.to] EXCEPT ![t.device] = EnrollName(t)]
  BY <1>1, <1>3, EnrollWritesType DEF OwnTypes
<1>6. EnrollName(t) # None
  BY <1>5, NoneAssumption
<1>7. \A d \in Devices : r.names[d] = IF d = t.device THEN EnrollName(t) ELSE None
  BY <1>1, <1>3 DEF Nobody
<1>8. t.snap[t.to] \in Members
  BY <1>1 DEF Job
<1>9. r.writes[t.to][t.device] = EnrollName(t) /\ r.writes[t.to] \in Members
  BY <1>1, <1>5, <1>8 DEF Members
<1>10. r.writes[t.to] # None
  BY <1>9, NoneAssumption
<1>11. RequestOK(r)
  BY <1>1, <1>3, <1>6, <1>7, <1>9, <1>10 DEF RequestOK
<1>12. r.pc # "push" /\ request[j]["enroll"].pc # "push"
  BY <1>3, <1>4
<1> QED BY <1>3, <1>4, <1>11, <1>12, NamesKept

LEMMA NamesAfterSave ==
  ASSUME OwnTypes, NameInv, NEW j \in Callers, NEW w \in Saves, Saved(j, w), faults = 0
  PROVE  NameInv'
<1> DEFINE r == request[j][w]
           p == [r EXCEPT !.pc = "push"]
           new == {d \in r.given : ~Crossed(j, w, d)}
<1>1. /\ r.pc = "save" /\ groups' = Stored(r.writes) /\ Becomes(j, w, p) /\ Owe(new)
      /\ UNCHANGED <<alias, faults>>
  BY DEF Saved
<1>2. r \in Request /\ RequestOK(r)
  BY DEF OwnTypes, RequestTypes, NameInv
<1>3. r.writes \in Writes /\ r.names \in Members /\ r.given \subseteq Devices
  BY <1>2 DEF Request, Writes
<1>4. groups' \in [Groups -> Members]
  BY <1>1, <1>3, StoredType DEF OwnTypes
<1>5. p \in Request /\ p.pc = "push" /\ p.names = r.names
  BY <1>2 DEF Request
<1>c. \A d : Crossed(j, w, d) <=>
        \E i \in Callers, v \in Saves :
          <<i, v>> # <<j, w>> /\ request[i][v].pc = "push" /\ request[i][v].names[d] \notin {None, r.names[d]}
  BY DEF Crossed
<1>n. \A d \in new : d \in r.given /\ ~Crossed(j, w, d)
  OBVIOUS
<1> HIDE DEF r, p, new
<1>6. /\ request'[j][w] = p
      /\ \A i \in Callers, v \in Saves : <<i, v>> = <<j, w>> \/ request'[i][v] = request[i][v]
  BY <1>1, <1>5, BecomesFacts DEF OwnTypes
<1>7. \A i \in Callers, v \in Saves : RequestOK(request'[i][v])
  BY <1>5, <1>6 DEF NameInv, RequestOK
<1>8. ASSUME NEW d \in owed' PROVE OwingOK(d, request', groups', alias)
  <2>1. /\ d \in Devices /\ Cardinality(NamesOf(groups', d)) = 1
        /\ d \in new \/ (d \in owed /\ NamesOf(groups', d) = NamesOf(groups, d))
    BY <1>1 DEF Owe
  <2>2. ASSUME r.names[d] # None PROVE NamesOf(groups', d) = {r.names[d]}
    <3>1. PICK g \in Groups : r.writes[g] # None /\ r.writes[g][d] = r.names[d]
      BY <1>1, <1>2, <2>1, <2>2 DEF RequestOK
    <3>2. groups'[g][d] = r.names[d]
      BY <1>1, <3>1 DEF Stored
    <3> QED BY <1>4, <2>1, <2>2, <3>2, OnlyName
  <2>3. CASE d \in new
    <3>1. r.names[d] # None /\ ~Crossed(j, w, d)
      BY <1>1, <1>2, <1>n, <2>3 DEF RequestOK
    <3>2. NamesOf(groups', d) = {r.names[d]}
      BY <2>2, <3>1
    <3>3. \A i \in Callers, v \in Saves :
            Pushing(request'[i][v], d) => request'[i][v].names[d] = r.names[d]
      BY <1>5, <1>6, <1>c, <3>1 DEF Pushing
    <3>4. Pushing(request'[j][w], d)
      BY <1>5, <1>6, <3>1 DEF Pushing
    <3> QED BY <3>1, <3>2, <3>3, <3>4 DEF OwingOK
  <2>4. CASE d \in owed /\ NamesOf(groups', d) = NamesOf(groups, d)
    <3>1. OwingOK(d, request, groups, alias)
      BY <2>4 DEF NameInv
    <3>2. ~Pushing(r, d)
      BY <1>1 DEF Pushing
    <3>3. \A i \in Callers, v \in Saves :
            Pushing(request'[i][v], d) => request'[i][v].names[d] \in NamesOf(groups', d)
      BY <1>5, <1>6, <2>2, <2>4, <3>1 DEF OwingOK, Pushing
    <3>4. \A i \in Callers, v \in Saves : Pushing(request[i][v], d) => Pushing(request'[i][v], d)
      BY <1>6, <3>2 DEF r
    <3> QED BY <2>4, <3>1, <3>3, <3>4 DEF OwingOK
  <2> QED BY <2>1, <2>3, <2>4
<1> QED BY <1>1, <1>7, <1>8 DEF NameInv

LEMMA NamesAfterPush ==
  ASSUME OwnTypes, NameInv, NEW j \in Callers, NEW w \in Saves, Push(j, w), faults = 0, faults' = 0
  PROVE  NameInv'
<1> DEFINE r == request[j][w]
<1>1. PICK e \in Devices :
        /\ r.names[e] # None
        /\ Becomes(j, w, [r EXCEPT !.names[e] = None])
        /\ \/ alias' = [alias EXCEPT ![e] = r.names[e]] /\ UNCHANGED faults
           \/ Fault /\ UNCHANGED alias
  BY DEF Push
<1> DEFINE p == [r EXCEPT !.names[e] = None]
<1>2. r \in Request /\ r.names \in Members /\ r.pc = "push" /\ UNCHANGED <<groups, owed>>
  BY DEF Push, OwnTypes, RequestTypes, Request
<1>3. alias' = [alias EXCEPT ![e] = r.names[e]]
  BY <1>1 DEF Fault
<1>4. p \in Request /\ p.pc = "push" /\ \A d \in Devices : p.names[d] = IF d = e THEN None ELSE r.names[d]
  <2>1. /\ [r.names EXCEPT ![e] = None] \in Members
        /\ \A d \in Devices : [r.names EXCEPT ![e] = None][d] = IF d = e THEN None ELSE r.names[d]
    BY <1>2 DEF Members
  <2> QED BY <1>2, <2>1 DEF Request
<1>5. Becomes(j, w, p)
  BY <1>1
<1> HIDE DEF p
<1>6. /\ request'[j][w] = p
      /\ \A i \in Callers, v \in Saves : <<i, v>> = <<j, w>> \/ request'[i][v] = request[i][v]
  BY <1>4, <1>5, BecomesFacts DEF OwnTypes
<1>7. \A i \in Callers, v \in Saves : RequestOK(request'[i][v])
  BY <1>4, <1>6 DEF NameInv, RequestOK
<1>8. ASSUME NEW d \in owed PROVE OwingOK(d, request', groups, alias')
  <2>1. d \in Devices /\ OwingOK(d, request, groups, alias)
    BY DEF NameInv, OwnTypes, NameTypes
  <2>2. PICK n : n # None /\ NamesOf(groups, d) = {n}
    BY <2>1 DEF OwingOK
  <2>3. \A i \in Callers, v \in Saves :
          Pushing(request'[i][v], d) => Pushing(request[i][v], d) /\ request'[i][v].names[d] = request[i][v].names[d]
    BY <1>2, <1>4, <1>6, <2>1 DEF Pushing
  <2>4. CASE d = e
    <3>1. r.names[d] = n
      BY <1>1, <1>2, <2>1, <2>2, <2>4 DEF OwingOK, Pushing
    <3>2. alias'[d] = n
      BY <1>3, <2>1, <2>4, <3>1 DEF OwnTypes, NameTypes
    <3> QED BY <2>1, <2>2, <2>3, <3>2 DEF OwingOK
  <2>5. CASE d # e
    <3>1. alias'[d] = alias[d]
      BY <1>3, <2>1, <2>5 DEF OwnTypes, NameTypes
    <3>2. \A i \in Callers, v \in Saves : Pushing(request[i][v], d) => Pushing(request'[i][v], d)
      BY <1>2, <1>4, <1>6, <2>1, <2>5 DEF Pushing
    <3> QED BY <2>1, <2>3, <3>1, <3>2 DEF OwingOK
  <2> QED BY <2>4, <2>5
<1> QED BY <1>2, <1>7, <1>8 DEF NameInv

LEMMA NameStep ==
  ASSUME ListTypes, OwnTypes, Shaped, NameInv, [Next]_vars
  PROVE  NameInv'
<1> SUFFICES ASSUME faults' = 0 PROVE NameInv'
  BY DEF NameInv
<1>0. faults \in Nat
  BY BoundsAssumption DEF OwnTypes, CountTypes
<1>1. CASE UNCHANGED <<groups, alias, request, owed, faults>>
  BY <1>1 DEF NameInv, OwingOK
<1>2. ~Fault
  BY <1>0 DEF Fault
<1>3. CASE AppRename
  <2>1. UNCHANGED <<groups, request, faults>>
    BY <1>3 DEF AppRename
  <2>2. PICK d \in Devices, n \in Names \union {None} : alias' = [alias EXCEPT ![d] = n] /\ owed' = owed \ {d}
    BY <1>3 DEF AppRename
  <2>3. \A e \in owed' : e \in Devices /\ e \in owed /\ alias'[e] = alias[e]
    BY <2>2 DEF OwnTypes, NameTypes
  <2> QED BY <2>1, <2>3 DEF NameInv, OwingOK
<1>4. CASE UNCHANGED vars \/ Rest \/ Churn
  BY <1>1, <1>4 DEF vars, Rest, Churn
<1>5. ASSUME NEW j \in Callers, Acts(j) PROVE NameInv'
  <2>1. CASE Move(j) \/ Save(j) \/ Open(j) \/ Enroll(j)
    BY <1>1, <2>1 DEF Move, Save, Open, Enroll
  <2>2. CASE EnrollUnknown(j) \/ EnrollRefused(j) \/ ReadPage(j)
    BY <1>1, <2>2 DEF EnrollUnknown, EnrollRefused, ReadPage
  <2>3. CASE LoadProfiles(j) \/ LoadDevices(j) \/ ShowDevices(j)
    BY <1>1, <2>3 DEF LoadProfiles, LoadDevices, ShowDevices
  <2>4. CASE LoadFails(j) \/ \E w \in Saves : SaveFails(j, w) \/ GivesUp(j, w)
    BY <1>2, <2>4 DEF LoadFails, SaveFails, GivesUp
  <2>5. CASE EnrollChecked(j)
    BY <2>5, NamesAfterEnroll
  <2>6. ASSUME NEW w \in Puts, PutChecked(j, w) PROVE NameInv'
    BY <2>6, NamesAfterCheck
  <2>7. ASSUME NEW w \in Puts, PutRefused(j, w) PROVE NameInv'
    <3>1. Becomes(j, w, NoRequest) /\ UNCHANGED <<groups, alias, owed, faults>> /\ Arriving(j, w) /\ w \in Saves
      BY <2>7 DEF PutRefused, Saves
    <3>2. RequestOK(NoRequest) /\ NoRequest.pc # "push" /\ request[j][w].pc # "push"
      BY <3>1 DEF RequestOK, NoRequest, Arriving
    <3> QED BY <3>1, <3>2, NamesKept, NoRequestType
  <2>8. ASSUME NEW w \in Saves, Saved(j, w) PROVE NameInv'
    <3>1. faults = 0
      BY <2>8 DEF Saved
    <3> QED BY <2>8, <3>1, NamesAfterSave
  <2>9. ASSUME NEW w \in Saves, Push(j, w) PROVE NameInv'
    <3>1. faults = 0
      BY <1>2, <2>9 DEF Push
    <3> QED BY <2>9, <3>1, NamesAfterPush
  <2>10. ASSUME NEW w \in Saves, Answered(j, w) PROVE NameInv'
    <3>1. Becomes(j, w, NoRequest) /\ UNCHANGED <<groups, alias, owed, faults>> /\ request[j][w].names = Nobody
      BY <2>10 DEF Answered
    <3>2. RequestOK(NoRequest) /\ NoRequest.pc # "push"
      BY DEF RequestOK, NoRequest
    <3> QED BY <3>1, <3>2, NamesKept, NoRequestType
  <2> QED BY <1>5, <2>1, <2>2, <2>3, <2>4, <2>5, <2>6, <2>7, <2>8, <2>9, <2>10 DEF Acts, Work
<1> QED BY <1>3, <1>4, <1>5 DEF Next, Acts

\* As long as nothing fails, the name a device was given, by its enrollment or by
\* renaming it as a member of a group, is the one the gateway has once its save has
\* pushed it, until it is renamed in the UniFi app or the store has another name for
\* it; stores and pushes of several requests come in any order, but for names that
\* are stored while another request has yet to push another name for the device.
THEOREM GivenNamesReachTheGateway == Spec => []NamesAgree
<1>1. Init => ListOK /\ OwnTypes /\ Shaped
  BY ListOKInit, OwnTypesInit, ShapedInit
<1>2. Init => NameInv
  BY DEF Init, NameInv, RequestOK, NoRequest
<1>3. ListOK /\ OwnTypes /\ Shaped /\ NameInv /\ [Next]_vars => ListOK' /\ OwnTypes' /\ Shaped' /\ NameInv'
  BY ListOKStep, OwnTypesStep, ShapeKept, NameStep DEF ListOK
<1>4. NameInv => NamesAgree
  BY DEF NameInv, NamesAgree, OwingOK, Pushing
<1> QED BY <1>1, <1>2, <1>3, <1>4, PTL DEF Spec

-----------------------------------------------------------------------------
(* Moves.                                                                   *)

PartedIn(gs) == \A d \in Devices, g, o \in Groups : gs[g][d] # None /\ gs[o][d] # None => g = o
\* The group a move takes its device from, without it; the other one with it; and
\* the first one with the device put back.
Left(t)   == [t.old EXCEPT ![t.device] = None]
WithIt(t) == [t.next EXCEPT ![t.device] = t.name]
Back(t)   == [t.old EXCEPT ![t.device] = t.name]
\* What a save of one group writes.
Only(g, m) == [o \in Groups |-> IF o = g THEN m ELSE None]

\* The only group a device is in.
AtHome(gs, d, g) == HomesOf(gs, d) = {g}
\* A job has no request but these, and waits for the answer of the one of its place.
Alike(q, ws) == \A w \in Saves \ ws : q[w] = NoRequest
Waits(r)     == ~r.lost /\ r.pc \in {"none", "save", "push"}

\* A move that nobody disturbed, at each of its places: q are its requests, gs the
\* groups, rs those with rules, f the faults so far.
Removing(t, q, gs, rs) ==
  LET r == q["remove"]
  IN  /\ t.from \in Groups /\ t.old[t.device] # None /\ t.done = {}
      /\ t.to # None => gs[t.to] = t.next
      /\ Alike(q, {"remove"}) /\ Waits(r)
      /\ gs[t.from] = IF r.pc = "push" THEN Left(t) ELSE t.old
      /\ r.pc = "push" => HomesOf(gs, t.device) = {}
      /\ r.pc = "save" => r.writes = Only(t.from, Left(t))
      /\ r.pc # "none" /\ Left(t) = Nobody => t.from \notin rs
Adding(t, q, gs, rs) ==
  LET r == q["add"]
  IN  /\ t.to \in Groups /\ t.next[t.device] = None
      /\ t.from = None => t.done = {}
      /\ t.from # None => /\ gs[t.from] = Left(t) /\ t.done = {"remove"}
                          /\ Left(t) = Nobody => t.from \notin rs
      /\ Alike(q, {"add"}) /\ Waits(r)
      /\ gs[t.to] = IF r.pc = "push" THEN WithIt(t) ELSE t.next
      /\ IF r.pc = "push" THEN AtHome(gs, t.device, t.to) ELSE HomesOf(gs, t.device) = {}
      /\ r.pc = "save" => r.writes = Only(t.to, WithIt(t))
\* The second save was given up: it may still be stored.
Straggling(t, q, gs) ==
  LET a == q["add"]
  IN  /\ a.pc # "none" => a.lost
      /\ a.pc \in {"sent", "save"} =>
           /\ "late" \in t.done /\ gs[t.to] = t.next /\ t.next[t.device] = None
           /\ a.writes = Only(t.to, WithIt(t))
Returning(t, q, gs, f) ==
  LET r == q["return"]
      homes == HomesOf(gs, t.device)
  IN  /\ f = 1 /\ t.from \in Groups /\ t.to \in Groups /\ "remove" \in t.done
      /\ Alike(q, {"add", "return"}) /\ Waits(r) /\ Straggling(t, q, gs)
      /\ homes \subseteq {t.from, t.to}
      /\ r.pc # "push" => t.from \notin homes
      /\ r.pc = "none" => gs[t.from] = Left(t) /\ PartedIn(gs)
      /\ r.pc = "save" => r.writes = Only(t.from, Back(t))
      /\ r.pc = "push" => t.from \in homes
      /\ r.pc # "none" /\ t.to \in homes => "late" \in t.done
AsAsked(t, gs, rs) ==
  IF t.from \in rs /\ Left(t) = Nobody
  THEN gs[t.from] = t.old /\ (t.to # None => gs[t.to] = t.next)
  ELSE /\ t.from # None => gs[t.from] = Left(t)
       /\ t.to # None => gs[t.to] = WithIt(t)
Over(t, q, gs, rs, f) ==
  /\ f = 0 => AsAsked(t, gs, rs) /\ Alike(q, {})
  /\ "remove" \in t.done /\ t.to # None =>
       LET homes == HomesOf(gs, t.device)
       IN  /\ Alike(q, {"add"}) /\ Straggling(t, q, gs)
           /\ homes # {} /\ homes \subseteq {t.from, t.to}
           /\ homes = {t.from, t.to} => "late" \in t.done

Alone(t) == t.kind = "Move" /\ t.alone
MoveOK(t, q, gs, rs, f) ==
  Alone(t) /\ f <= 1 =>
    /\ t.device \in Devices /\ t.name \in Labels /\ t.from # t.to
    /\ t.pc \in {"remove", "add", "return", "load"}
    /\ t.pc # "load" => t.todo = {}
    /\ t.pc \in {"remove", "add"} => PartedIn(gs)
    /\ t.pc = "remove" => Removing(t, q, gs, rs)
    /\ t.pc = "add"    => Adding(t, q, gs, rs)
    /\ t.pc = "return" => Returning(t, q, gs, f)
    /\ t.pc = "load"   => Over(t, q, gs, rs, f)

MoveInv == \A j \in Callers : MoveOK(job[j], request[j], groups, ruled, faults)

LEMMA NotAlone == ASSUME NEW t, ~Alone(t), NEW q, NEW gs, NEW rs, NEW f PROVE MoveOK(t, q, gs, rs, f)
BY DEF MoveOK

LEMMA IdleNotAlone == ~Alone(IdleJob)
BY DEF Alone, IdleJob

LEMMA Undisturbed ==
  ASSUME NEW t, NEW q, NEW gs, NEW rs, NEW f, Alone(t), f <= 1, MoveOK(t, q, gs, rs, f)
  PROVE  /\ t.device \in Devices /\ t.name \in Labels /\ t.from # t.to
         /\ t.pc \in {"remove", "add", "return", "load"}
         /\ t.pc # "load" => t.todo = {}
         /\ t.pc \in {"remove", "add"} => PartedIn(gs)
         /\ t.pc = "remove" => Removing(t, q, gs, rs)
         /\ t.pc = "add"    => Adding(t, q, gs, rs)
         /\ t.pc = "return" => Returning(t, q, gs, f)
         /\ t.pc = "load"   => Over(t, q, gs, rs, f)
BY DEF MoveOK

\* A move that is over and had no first save to make good.
LEMMA NothingDue ==
  ASSUME NEW t, NEW q, NEW gs, NEW rs, NEW f, t.device \in Devices, t.name \in Labels, t.from # t.to,
         t.pc = "load", f # 0, ~("remove" \in t.done /\ t.to # None)
  PROVE  MoveOK(t, q, gs, rs, f)
BY DEF MoveOK, Over

\* Which of its saves such a move has in the server.
LEMMA Whose ==
  ASSUME NEW t, NEW q, NEW gs, NEW rs, NEW f \in Nat, Alone(t), f <= 1, MoveOK(t, q, gs, rs, f),
         NEW w \in Saves, q[w].pc # "none"
  PROVE  \/ w = t.pc /\ w \in {"remove", "add", "return"} /\ Waits(q[w])
         \/ /\ w = "add" /\ (t.pc = "return" \/ (t.pc = "load" /\ f # 0 /\ "remove" \in t.done /\ t.to # None))
            /\ q[w].lost
         \/ t.pc = "load" /\ f # 0 /\ ~("remove" \in t.done /\ t.to # None)
<1>1. \A ws : Alike(q, ws) => w \in ws
  BY DEF Alike, NoRequest
<1>2. CASE t.pc = "remove"
  BY <1>1, <1>2, Undisturbed DEF Removing
<1>3. CASE t.pc = "add"
  BY <1>1, <1>3, Undisturbed DEF Adding
<1>4. CASE t.pc = "return"
  BY <1>1, <1>4, Undisturbed DEF Returning, Straggling
<1>5. CASE t.pc = "load"
  BY <1>1, <1>5, Undisturbed DEF Over, Straggling
<1> QED BY <1>2, <1>3, <1>4, <1>5, Undisturbed

\* The members a move's saves write.
LEMMA LabelKept ==
  ASSUME NEW m \in Members, NEW d \in Devices, NEW n \in Labels
  PROVE  /\ [m EXCEPT ![d] = n] \in Members
         /\ [m EXCEPT ![d] = n][d] # None /\ [m EXCEPT ![d] = n] # Nobody
         /\ \A e \in Devices \ {d} : [m EXCEPT ![d] = n][e] = m[e]
<1>1. n # None
  BY NoneAssumption
<1>2. [m EXCEPT ![d] = n][d] = n /\ \A e \in Devices \ {d} : [m EXCEPT ![d] = n][e] = m[e]
  BY DEF Members
<1>3. Nobody[d] = None
  BY DEF Nobody
<1> QED BY <1>1, <1>2, <1>3 DEF Members

LEMMA MoveMembers ==
  ASSUME NEW t \in Job, t.device \in Devices, t.name \in Labels
  PROVE  /\ Left(t) \in Members /\ WithIt(t) \in Members /\ Back(t) \in Members
         /\ \A e \in Devices : Left(t)[e] = IF e = t.device THEN None ELSE t.old[e]
         /\ WithIt(t)[t.device] # None /\ WithIt(t) # Nobody
         /\ \A e \in Devices \ {t.device} : WithIt(t)[e] = t.next[e]
         /\ Back(t)[t.device] # None /\ Back(t) # Nobody
         /\ \A e \in Devices \ {t.device} : Back(t)[e] = t.old[e]
<1>1. t.old \in Members /\ t.next \in Members
  BY DEF Job
<1>2. /\ Left(t) \in Members
      /\ \A e \in Devices : Left(t)[e] = IF e = t.device THEN None ELSE t.old[e]
  BY <1>1 DEF Left, Members
<1> QED BY <1>1, <1>2, LabelKept DEF WithIt, Back

\* A save of one group: what it needs, and what the groups are after it.
LEMMA OneAcceptable ==
  ASSUME NEW g \in Groups, NEW m \in Members
  PROVE  Acceptable(Only(g, m)) <=>
           /\ \A d \in Devices, o \in Groups \ {g} : m[d] # None => groups[o][d] = None
           /\ m = Nobody => g \notin ruled
<1>1. m # None
  BY NoneAssumption
<1>2. Written(Only(g, m)) = {g} /\ Only(g, m)[g] = m
  BY <1>1 DEF Written, Only
<1> QED BY <1>2 DEF Acceptable

LEMMA OneStored ==
  ASSUME GroupTypes, NEW g \in Groups, NEW m \in Members
  PROVE  Stored(Only(g, m)) = [groups EXCEPT ![g] = m]
<1>1. m # None
  BY NoneAssumption
<1> QED BY <1>1 DEF Stored, Only, GroupTypes

\* The device out of its group, or into one.
LEMMA Removed ==
  ASSUME NEW gs \in [Groups -> Members], PartedIn(gs), NEW t \in Job, t.device \in Devices, t.name \in Labels,
         t.from \in Groups, gs[t.from] = t.old, t.old[t.device] # None,
         NEW hs, hs = [gs EXCEPT ![t.from] = Left(t)]
  PROVE  PartedIn(hs) /\ HomesOf(hs, t.device) = {}
<1>0. \A e \in Devices : Left(t)[e] = IF e = t.device THEN None ELSE t.old[e]
  BY MoveMembers
<1>1. \A o \in Groups, e \in Devices : hs[o][e] = IF o = t.from /\ e = t.device THEN None ELSE gs[o][e]
  BY <1>0
<1>2. PartedIn(hs)
  BY <1>1 DEF PartedIn
<1>3. HomesOf(hs, t.device) = {}
  BY <1>1 DEF PartedIn, HomesOf
<1> QED BY <1>2, <1>3

LEMMA Added ==
  ASSUME NEW gs \in [Groups -> Members], PartedIn(gs), NEW t \in Job, t.device \in Devices, t.name \in Labels,
         t.to \in Groups, gs[t.to] = t.next, HomesOf(gs, t.device) = {},
         NEW hs, hs = [gs EXCEPT ![t.to] = WithIt(t)]
  PROVE  PartedIn(hs) /\ AtHome(hs, t.device, t.to)
<1>0. \A e \in Devices \ {t.device} : WithIt(t)[e] = t.next[e]
  BY MoveMembers
<1>1. \A o \in Groups, e \in Devices :
        o # t.to \/ e # t.device => hs[o][e] = gs[o][e]
  BY <1>0
<1>2. \A o \in Groups : gs[o][t.device] = None
  BY DEF HomesOf
<1>3. PartedIn(hs)
  BY <1>1, <1>2 DEF PartedIn
<1>4. WithIt(t)[t.device] # None
  BY MoveMembers
<1>5. \A o \in Groups : hs[o][t.device] # None <=> o = t.to
  BY <1>1, <1>2, <1>4
<1>6. HomesOf(hs, t.device) = {t.to}
  BY <1>5 DEF HomesOf
<1> QED BY <1>3, <1>6 DEF AtHome

\* The parts of a job that a step does not touch.
Same(u, t) ==
  /\ u.kind = t.kind /\ u.alone = t.alone /\ u.device = t.device /\ u.name = t.name
  /\ u.from = t.from /\ u.to = t.to /\ u.old = t.old /\ u.next = t.next

LEMMA SameParts ==
  ASSUME NEW u, NEW t, Same(u, t)
  PROVE  /\ Alone(u) <=> Alone(t)
         /\ Left(u) = Left(t) /\ WithIt(u) = WithIt(t) /\ Back(u) = Back(t)
BY DEF Same, Alone, Left, WithIt, Back

LEMMA AtPlaceSame ==
  ASSUME NEW t \in Job, NEW done \in SUBSET (Places \union {"late"}), NEW pc \in Places,
         NEW todo \in SUBSET Loads, NEW u, u = AtPlace([t EXCEPT !.done = done], pc, todo)
  PROVE  u = IdleJob \/ (Same(u, t) /\ u.pc = pc /\ u.todo = todo /\ u.done = done)
BY DEF AtPlace, Same, Job

LEMMA AtPlaceSame2 ==
  ASSUME NEW t \in Job, NEW pc \in Places, NEW todo \in SUBSET Loads, NEW u, u = AtPlace(t, pc, todo)
  PROVE  u = IdleJob \/ (Same(u, t) /\ u.pc = pc /\ u.todo = todo /\ u.done = t.done)
BY DEF AtPlace, Same, Job

\* Where an answer leaves a move.
LEMMA SuccessSame ==
  ASSUME NEW t \in Job, NEW u, u = AfterSuccess(t), Alone(u)
  PROVE  /\ Same(u, t)
         /\ IF t.pc = "remove" /\ t.to # None THEN u.pc = "add" /\ u.todo = {} /\ u.done = {"remove"}
                                              ELSE u.pc = "load" /\ u.done = t.done \union {t.pc}
<1>0. u # IdleJob
  BY IdleNotAlone
<1>1. /\ {"remove"} \in SUBSET (Places \union {"late"}) /\ t.done \union {t.pc} \in SUBSET (Places \union {"late"})
      /\ "add" \in Places /\ "load" \in Places /\ {} \in SUBSET Loads /\ Loads \in SUBSET Loads
  BY DEF Job, Places, Saves, Puts
<1>2. CASE t.pc = "remove" /\ t.to # None
  <2> DEFINE done == {"remove"}
             none == {}
  <2>1. u = AtPlace([t EXCEPT !.done = done], "add", none) /\ none \in SUBSET Loads
        /\ done \in SUBSET (Places \union {"late"})
    BY <1>1, <1>2 DEF AfterSuccess
  <2> HIDE DEF done, none
  <2>2. Same(u, t) /\ u.pc = "add" /\ u.todo = none /\ u.done = done
    BY <1>0, <1>1, <2>1, AtPlaceSame
  <2> QED BY <1>2, <2>2 DEF done, none
<1>3. CASE ~(t.pc = "remove" /\ t.to # None)
  <2> DEFINE done == t.done \union {t.pc}
  <2>1. u = AtPlace([t EXCEPT !.done = done], "load", Loads) /\ done \in SUBSET (Places \union {"late"})
    BY <1>0, <1>1, <1>3 DEF AfterSuccess
  <2> HIDE DEF done
  <2>2. Same(u, t) /\ u.pc = "load" /\ u.done = done
    BY <1>0, <1>1, <2>1, AtPlaceSame
  <2> QED BY <1>3, <2>2 DEF done
<1> QED BY <1>2, <1>3

LEMMA FailureSame ==
  ASSUME NEW t \in Job, NEW u, u = AfterFailure(t), Alone(u)
  PROVE  /\ Same(u, t) /\ u.done = t.done
         /\ IF t.pc = "add" /\ t.from # None THEN u.pc = "return" /\ u.todo = {} ELSE u.pc = "load"
<1> DEFINE some == {"devices"}
           none == {}
<1>1. /\ "return" \in Places /\ "load" \in Places
      /\ none \in SUBSET Loads /\ Loads \in SUBSET Loads /\ some \in SUBSET Loads
  BY DEF Places, Saves, Puts, Loads
<1>2. u # IdleJob
  BY IdleNotAlone
<1>3. CASE t.pc = "remove"
  <2>1. u = AtPlace(t, "load", some)
    BY <1>3 DEF AfterFailure
  <2> HIDE DEF some
  <2> QED BY <1>1, <1>2, <1>3, <2>1, AtPlaceSame2
<1>4. CASE t.pc = "return" \/ (t.pc = "add" /\ t.from = None)
  <2>1. u = AtPlace(t, "load", Loads)
    BY <1>4 DEF AfterFailure
  <2> QED BY <1>1, <1>2, <1>4, <2>1, AtPlaceSame2
<1>5. CASE t.pc = "add" /\ t.from # None
  <2>1. u = AtPlace(t, "return", none)
    BY <1>5 DEF AfterFailure
  <2> HIDE DEF none
  <2>2. Same(u, t) /\ u.pc = "return" /\ u.todo = none /\ u.done = t.done
    BY <1>1, <1>2, <2>1, AtPlaceSame2
  <2> QED BY <1>5, <2>2 DEF none
<1> QED BY <1>2, <1>3, <1>4, <1>5 DEF AfterFailure

LEMMA GivenUpSame ==
  ASSUME NEW t \in Job, NEW late \in SUBSET {"late"}, NEW u, u = GivenUp(t, late), Alone(u)
  PROVE  /\ Same(u, t) /\ u.done = t.done \union late
         /\ IF t.pc = "add" /\ t.from # None THEN u.pc = "return" /\ u.todo = {} ELSE u.pc = "load"
<1> DEFINE done == t.done \union late
           v == [t EXCEPT !.done = done]
<1>1. v \in Job
  BY GivenUpType
<1>2. Same(v, t) /\ v.pc = t.pc /\ v.done = done
  BY DEF Same, Job
<1>3. u = AfterFailure(v)
  BY DEF GivenUp
<1> HIDE DEF v, done
<1>4. /\ Same(u, v) /\ u.done = v.done
      /\ IF v.pc = "add" /\ v.from # None THEN u.pc = "return" /\ u.todo = {} ELSE u.pc = "load"
  BY <1>1, <1>3, FailureSame
<1> QED BY <1>2, <1>4 DEF Same, done

\* A move begins.
LEMMA MoveBegins ==
  ASSUME OwnTypes, NEW j \in Callers, Move(j)
  PROVE  MoveOK(job'[j], request'[j], groups', ruled', faults')
<1>1. PICK d \in Devices, to \in Groups \union {None} :
        LET row == page.devices[d]
        IN  /\ row # None /\ to # row.group
            /\ job' = [job EXCEPT ![j] = [
                 [IdleJob EXCEPT !.pc = First(row.group, to), !.device = d, !.name = row.name,
                    !.from = row.group, !.to = to, !.alone = Fresh /\ Parted,
                    !.old  = IF row.group = None THEN Nobody ELSE page.profiles[row.group],
                    !.next = IF to = None THEN Nobody ELSE page.profiles[to]]
                  EXCEPT !.kind = "Move"]]
            /\ \A w \in Saves : request[j][w] = NoRequest
  BY DEF Move, Start
<1> DEFINE row == page.devices[d]
           t == job'[j]
           q == request[j]
<1>2. row \in Row /\ row.group \in Groups \union {None} /\ row.name \in Labels /\ to # row.group
  BY <1>1 DEF OwnTypes, PageTyped, Row
<1>3. /\ t.kind = "Move" /\ t.pc = First(row.group, to) /\ t.device = d /\ t.name = row.name
      /\ t.from = row.group /\ t.to = to /\ t.alone = (Fresh /\ Parted) /\ t.todo = {} /\ t.done = {}
      /\ t.old = (IF row.group = None THEN Nobody ELSE page.profiles[row.group])
      /\ t.next = (IF to = None THEN Nobody ELSE page.profiles[to])
  BY <1>1 DEF OwnTypes, JobTypes, IdleJob
<1>4. UNCHANGED <<groups, ruled, faults, request>>
  BY DEF Move
<1>q. \A ws : Alike(q, ws)
  BY <1>1 DEF Alike
<1>r. \A w \in {"remove", "add"} : Waits(q[w]) /\ q[w].pc = "none"
  BY <1>1 DEF Waits, NoRequest, Saves, Puts
<1> HIDE DEF t, q
<1> SUFFICES ASSUME Alone(t) PROVE MoveOK(t, q, groups, ruled, faults)
  BY <1>4, NotAlone DEF t, q
<1>5. Fresh /\ Parted /\ page.profiles = groups
  BY <1>3 DEF Alone, Fresh
<1>6. PICK place \in Placings(groups) : row.group = place[d]
  BY <1>1, <1>5 DEF Fresh
<1>7. IF row.group = None THEN HomesOf(groups, d) = {} ELSE HomesOf(groups, d) = {row.group}
  <2>1. IF HomesOf(groups, d) = {} THEN place[d] = None ELSE place[d] \in HomesOf(groups, d)
    BY DEF Placings
  <2>2. None \notin Groups
    BY NoneAssumption
  <2>3. \A g, o \in HomesOf(groups, d) : g = o
    BY <1>5 DEF HomesOf, Parted
  <2>4. HomesOf(groups, d) \subseteq Groups
    BY DEF HomesOf
  <2> HIDE DEF row
  <2> QED BY <1>6, <2>1, <2>2, <2>3, <2>4
<1>p. PartedIn(groups)
  BY <1>5 DEF Parted, PartedIn
<1> HIDE DEF row
<1>8. CASE row.group # None
  <2>1. row.group \in Groups /\ groups[row.group][d] # None /\ t.pc = "remove"
    BY <1>2, <1>3, <1>7, <1>8 DEF HomesOf, First
  <2>2. Removing(t, q, groups, ruled)
    BY <1>2, <1>3, <1>5, <1>8, <1>q, <1>r, <2>1 DEF Removing
  <2> QED BY <1>2, <1>3, <1>p, <2>1, <2>2 DEF MoveOK
<1>9. CASE row.group = None
  <2>1. t.pc = "add" /\ to \in Groups /\ groups[to][d] = None
    BY <1>2, <1>3, <1>7, <1>9 DEF First, HomesOf
  <2>2. Adding(t, q, groups, ruled)
    BY <1>2, <1>3, <1>5, <1>7, <1>9, <1>q, <1>r, <2>1 DEF Adding
  <2> QED BY <1>2, <1>3, <1>p, <2>1, <2>2 DEF MoveOK
<1> QED BY <1>8, <1>9

\* What a move's save asks for.
LEMMA MoveAsks ==
  ASSUME NEW j \in Callers, NEW w \in Puts, request[j][w].pc # "sent"
  PROVE  /\ job[j].pc = "remove" => Asked(j, w) = Only(job[j].from, Left(job[j]))
         /\ job[j].pc = "add"    => Asked(j, w) = Only(job[j].to, WithIt(job[j]))
         /\ job[j].pc = "return" => Asked(j, w) = Only(job[j].from, Back(job[j]))
BY DEF Asked, Only, PutGroup, PutMembers, Left, WithIt, Back

\* What the server makes of the saves of a move that nobody disturbed.
LEMMA RemoveAccepted ==
  ASSUME OwnTypes, NEW t \in Job, t.device \in Devices, t.name \in Labels, PartedIn(groups),
         t.from \in Groups, groups[t.from] = t.old
  PROVE  Acceptable(Only(t.from, Left(t))) <=> (Left(t) = Nobody => t.from \notin ruled)
<1>1. Left(t) \in Members /\ \A e \in Devices : Left(t)[e] # None => groups[t.from][e] # None
  BY MoveMembers
<1>2. \A e \in Devices, o \in Groups \ {t.from} : Left(t)[e] # None => groups[o][e] = None
  BY <1>1 DEF PartedIn
<1> QED BY <1>1, <1>2, OneAcceptable

LEMMA AddAccepted ==
  ASSUME OwnTypes, NEW t \in Job, t.device \in Devices, t.name \in Labels, PartedIn(groups),
         t.to \in Groups, groups[t.to] = t.next, HomesOf(groups, t.device) = {}
  PROVE  Acceptable(Only(t.to, WithIt(t)))
<1>1. \A o \in Groups : groups[o][t.device] = None
  BY DEF HomesOf
<1>2. /\ WithIt(t) \in Members /\ WithIt(t) # Nobody
      /\ \A e \in Devices \ {t.device} : WithIt(t)[e] = t.next[e]
  BY MoveMembers
<1>3. \A e \in Devices, o \in Groups \ {t.to} : WithIt(t)[e] # None => groups[o][e] = None
  BY <1>1, <1>2 DEF PartedIn
<1> QED BY <1>2, <1>3, OneAcceptable

LEMMA ReturnAccepted ==
  ASSUME OwnTypes, NEW t \in Job, t.device \in Devices, t.name \in Labels, PartedIn(groups),
         t.from \in Groups, groups[t.from] = Left(t)
  PROVE  Acceptable(Only(t.from, Back(t))) <=> HomesOf(groups, t.device) = {}
<1>1. /\ Back(t) \in Members /\ Back(t) # Nobody /\ Back(t)[t.device] # None
      /\ \A e \in Devices \ {t.device} : Back(t)[e] = t.old[e]
      /\ \A e \in Devices : Left(t)[e] = IF e = t.device THEN None ELSE t.old[e]
  BY MoveMembers
<1>2. \A e \in Devices \ {t.device}, o \in Groups \ {t.from} : Back(t)[e] # None => groups[o][e] = None
  BY <1>1 DEF PartedIn
<1>3. groups[t.from][t.device] = None
  BY <1>1
<1>4. HomesOf(groups, t.device) = {} <=> \A o \in Groups \ {t.from} : groups[o][t.device] = None
  BY <1>3 DEF HomesOf
<1> QED BY <1>1, <1>2, <1>4, OneAcceptable

LEMMA GroupsOf ==
  ASSUME NEW t \in Job
  PROVE  /\ t.to # None => t.to \in Groups
         /\ t.from # None => t.from \in Groups
         /\ None \notin Groups
BY NoneAssumption DEF Job

LEMMA CheckedMove ==
  ASSUME OwnTypes, NEW j \in Callers, NEW w \in Puts, PutChecked(j, w),
         MoveOK(job[j], request[j], groups, ruled, faults)
  PROVE  MoveOK(job'[j], request'[j], groups', ruled', faults')
<1> DEFINE t == job[j]
           q == request[j]
           p == request'[j]
           asked == Asked(j, w)
<1>1. /\ Arriving(j, w) /\ Passes(j, w)
      /\ UNCHANGED <<groups, ruled, job, faults>>
  BY DEF PutChecked
<1>2. t \in Job /\ q[w] \in Request /\ faults \in Nat /\ w \in Saves
  BY BoundsAssumption DEF OwnTypes, JobTypes, RequestTypes, CountTypes, Saves
<1>3. /\ p[w].pc = "save" /\ p[w].writes = asked /\ p[w].lost = q[w].lost
      /\ \A v \in Saves \ {w} : p[v] = q[v]
  <2>1. PICK names, given : Becomes(j, w, [q[w] EXCEPT !.pc = "save", !.writes = asked, !.names = names, !.given = given])
    BY DEF PutChecked
  <2>2. p = [q EXCEPT ![w] = [q[w] EXCEPT !.pc = "save", !.writes = asked, !.names = names, !.given = given]]
    BY <2>1 DEF Becomes, OwnTypes, RequestTypes
  <2>3. q \in [Saves -> Request]
    BY DEF OwnTypes, RequestTypes
  <2> QED BY <1>2, <2>2, <2>3 DEF Request
<1>4. /\ Acceptable(asked)
      /\ IF q[w].pc = "sent" THEN asked = q[w].writes ELSE t.pc = w /\ q[w].pc = "none"
      /\ q[w].pc # "sent" =>
           /\ t.pc = "remove" => asked = Only(t.from, Left(t))
           /\ t.pc = "add"    => asked = Only(t.to, WithIt(t))
           /\ t.pc = "return" => asked = Only(t.from, Back(t))
  BY <1>1, MoveAsks DEF Passes, Arriving, Asked
<1> HIDE DEF t, q, p, asked
<1> SUFFICES ASSUME Alone(t), faults <= 1 PROVE MoveOK(t, p, groups, ruled, faults)
  BY <1>1 DEF MoveOK, t, p
<1>5. MoveOK(t, q, groups, ruled, faults)
  BY DEF t, q
<1>6. \A ws : w \in ws /\ Alike(q, ws) => Alike(p, ws)
  BY <1>3 DEF Alike
<1>7. CASE q[w].pc = "sent"
  <2>1. CASE w = "add" /\ q[w].lost /\ (t.pc = "return" \/ (t.pc = "load" /\ faults # 0 /\ "remove" \in t.done /\ t.to # None))
    <3>1. Straggling(t, q, groups) => Straggling(t, p, groups)
      BY <1>3, <1>4, <1>7, <2>1 DEF Straggling
    <3>2. CASE t.pc = "return"
      <4>1. p["return"] = q["return"]
        BY <1>3, <2>1 DEF Saves, Puts
      <4>2. Returning(t, p, groups, faults)
        BY <1>5, <1>6, <2>1, <3>1, <3>2, <4>1, Undisturbed DEF Returning
      <4> QED BY <1>5, <3>2, <4>2, Undisturbed DEF MoveOK
    <3>3. CASE t.pc = "load" /\ faults # 0 /\ "remove" \in t.done /\ t.to # None
      <4>1. Over(t, p, groups, ruled, faults)
        BY <1>5, <1>6, <2>1, <3>1, <3>3, Undisturbed DEF Over
      <4> QED BY <1>5, <3>3, <4>1, Undisturbed DEF MoveOK
    <3> QED BY <2>1, <3>2, <3>3
  <2>2. CASE t.pc = "load" /\ faults # 0 /\ ~("remove" \in t.done /\ t.to # None)
    BY <1>5, <2>2, Undisturbed, NothingDue
  <2> QED BY <1>2, <1>5, <1>7, <2>1, <2>2, Whose DEF Waits
<1>8. CASE t.pc = w /\ q[w].pc = "none"
  <2>1. CASE t.pc = "remove"
    <3>1. Removing(t, q, groups, ruled) /\ t.device \in Devices /\ t.name \in Labels /\ PartedIn(groups)
      BY <1>5, <2>1, Undisturbed
    <3>2. t.from \in Groups /\ groups[t.from] = t.old
      BY <1>8, <2>1, <3>1 DEF Removing
    <3>3. Left(t) = Nobody => t.from \notin ruled
      BY <1>2, <1>4, <1>8, <2>1, <3>1, <3>2, RemoveAccepted
    <3>4. Removing(t, p, groups, ruled)
      BY <1>3, <1>4, <1>6, <1>8, <2>1, <3>1, <3>3 DEF Removing, Waits
    <3> QED BY <1>5, <2>1, <3>4, Undisturbed DEF MoveOK
  <2>2. CASE t.pc = "add"
    <3>1. Adding(t, p, groups, ruled)
      BY <1>3, <1>4, <1>5, <1>6, <1>8, <2>2, Undisturbed DEF Adding, Waits
    <3> QED BY <1>5, <2>2, <3>1, Undisturbed DEF MoveOK
  <2>3. CASE t.pc = "return"
    <3>1. Returning(t, q, groups, faults) /\ t.device \in Devices /\ t.name \in Labels
      BY <1>5, <2>3, Undisturbed
    <3>2. t.from \in Groups /\ groups[t.from] = Left(t) /\ PartedIn(groups)
      BY <1>8, <2>3, <3>1 DEF Returning
    <3>3. HomesOf(groups, t.device) = {}
      BY <1>2, <1>4, <1>8, <2>3, <3>1, <3>2, ReturnAccepted
    <3>4. p["add"] = q["add"]
      BY <1>3, <1>8, <2>3 DEF Saves, Puts
    <3>5. Returning(t, p, groups, faults)
      BY <1>3, <1>4, <1>6, <1>8, <2>3, <3>1, <3>3, <3>4 DEF Returning, Waits, Straggling
    <3> QED BY <1>5, <2>3, <3>5, Undisturbed DEF MoveOK
  <2>4. t.pc # "load"
    BY <1>8 DEF Puts
  <2> QED BY <1>5, <2>1, <2>2, <2>3, <2>4, Undisturbed
<1> QED BY <1>4, <1>7, <1>8

\* Once a request is gone.
LEMMA Gone ==
  ASSUME NEW j \in Callers, NEW w \in Saves, OwnTypes, Becomes(j, w, NoRequest)
  PROVE  /\ request'[j][w] = NoRequest /\ \A v \in Saves \ {w} : request'[j][v] = request[j][v]
         /\ \A ws : Alike(request[j], ws) => Alike(request'[j], ws) /\ Alike(request'[j], ws \ {w})
<1>1. request'[j] = [request[j] EXCEPT ![w] = NoRequest] /\ request[j] \in [Saves -> Request]
  BY DEF Becomes, OwnTypes, RequestTypes
<1> QED BY <1>1 DEF Alike

\* A straggler that is gone.
LEMMA StragglerGone ==
  ASSUME NEW t, NEW u, Same(u, t), NEW q, NEW p, NEW gs, NEW rs, NEW f, u.pc = t.pc, u.done = t.done,
         u.todo = t.todo, Alone(t), f <= 1, MoveOK(t, q, gs, rs, f), f # 0,
         p["add"] = NoRequest, p["return"] = q["return"], \A ws : Alike(q, ws) => Alike(p, ws),
         t.pc = "return" \/ (t.pc = "load" /\ "remove" \in t.done /\ t.to # None)
  PROVE  MoveOK(u, p, gs, rs, f)
<1>1. /\ Left(u) = Left(t) /\ Back(u) = Back(t)
      /\ u.from = t.from /\ u.to = t.to /\ u.device = t.device /\ u.name = t.name
  BY SameParts DEF Same
<1>2. Straggling(u, p, gs)
  BY DEF Straggling, NoRequest
<1>3. CASE t.pc = "return"
  <2>1. Returning(u, p, gs, f)
    BY <1>1, <1>2, <1>3, Undisturbed DEF Returning
  <2> QED BY <1>1, <1>3, <2>1, Undisturbed DEF MoveOK
<1>4. CASE t.pc = "load" /\ "remove" \in t.done /\ t.to # None
  <2>1. Over(u, p, gs, rs, f)
    BY <1>1, <1>2, <1>4, Undisturbed DEF Over
  <2> QED BY <1>1, <1>4, <2>1, Undisturbed DEF MoveOK
<1> QED BY <1>3, <1>4

LEMMA SameSelf == ASSUME NEW t PROVE Same(t, t)
BY DEF Same

LEMMA RefusedMove ==
  ASSUME OwnTypes, NEW j \in Callers, NEW w \in Puts, PutRefused(j, w),
         MoveOK(job[j], request[j], groups, ruled, faults)
  PROVE  MoveOK(job'[j], request'[j], groups', ruled', faults')
<1> DEFINE t == job[j]
           u == job'[j]
           q == request[j]
           p == request'[j]
           asked == Asked(j, w)
<1>1. /\ Arriving(j, w) /\ ~Passes(j, w) /\ Becomes(j, w, NoRequest)
      /\ UNCHANGED <<groups, ruled, faults>>
      /\ u = IF q[w].lost \/ q[w].pc = "sent" THEN t ELSE AfterFailure(t)
  BY DEF PutRefused, Answer, OwnTypes, JobTypes
<1>2. t \in Job /\ faults \in Nat /\ w \in Saves
  BY BoundsAssumption DEF OwnTypes, JobTypes, CountTypes, Saves
<1>3. /\ p[w] = NoRequest /\ \A v \in Saves \ {w} : p[v] = q[v]
      /\ \A ws : Alike(q, ws) => Alike(p, ws) /\ Alike(p, ws \ {w})
  BY <1>1, <1>2, Gone
<1>4. /\ q[w].pc = "sent" \/ (t.pc = w /\ q[w].pc = "none")
      /\ q[w].pc = "none" =>
           /\ ~(Acceptable(asked) /\ ~Twice(t))
           /\ t.pc = "remove" => asked = Only(t.from, Left(t))
           /\ t.pc = "add"    => asked = Only(t.to, WithIt(t))
           /\ t.pc = "return" => asked = Only(t.from, Back(t))
  BY <1>1, MoveAsks DEF Passes, Arriving
<1> HIDE DEF t, u, q, p, asked
<1> SUFFICES ASSUME Alone(u), faults <= 1 PROVE MoveOK(u, p, groups, ruled, faults)
  BY <1>1 DEF MoveOK, u, p
<1>5. MoveOK(t, q, groups, ruled, faults)
  BY DEF t, q
<1>6. CASE q[w].pc = "sent"
  <2>1. u = t /\ Alone(t)
    BY <1>1, <1>6
  <2>2. CASE w = "add" /\ (t.pc = "return" \/ (t.pc = "load" /\ faults # 0 /\ "remove" \in t.done /\ t.to # None))
    <3>1. p["add"] = NoRequest /\ p["return"] = q["return"] /\ \A ws : Alike(q, ws) => Alike(p, ws)
      BY <1>3, <2>2 DEF Saves, Puts
    <3>2. faults # 0
      BY <1>5, <2>1, <2>2, Undisturbed DEF Returning
    <3> QED BY <1>5, <2>1, <2>2, <3>1, <3>2, StragglerGone, SameSelf
  <2>3. CASE t.pc = "load" /\ faults # 0 /\ ~("remove" \in t.done /\ t.to # None)
    BY <1>5, <2>1, <2>3, Undisturbed, NothingDue
  <2> QED BY <1>2, <1>5, <1>6, <2>1, <2>2, <2>3, Whose DEF Waits
<1>7. CASE t.pc = w /\ q[w].pc = "none"
  <2> DEFINE lost == q[w].lost
  <2>0. CASE lost
    <3>1. u = t
      BY <1>1, <2>0
    <3> QED BY <1>5, <1>7, <2>0, <3>1, Undisturbed DEF Removing, Adding, Returning, Waits, Puts
  <2>1. CASE ~lost
    <3>1. u = AfterFailure(t)
      BY <1>1, <1>7, <2>1
    <3>2. /\ Same(u, t) /\ u.done = t.done
          /\ IF t.pc = "add" /\ t.from # None THEN u.pc = "return" /\ u.todo = {} ELSE u.pc = "load"
      BY <1>2, <3>1, FailureSame
    <3>3. Alone(t) /\ Left(u) = Left(t)
          /\ u.from = t.from /\ u.to = t.to /\ u.device = t.device /\ u.name = t.name /\ u.old = t.old /\ u.next = t.next
      BY <3>2, SameParts DEF Same
    <3>4. t.device \in Devices /\ t.name \in Labels /\ t.from # t.to /\ (t.pc \in {"remove", "add"} => PartedIn(groups))
      BY <1>5, <3>3, Undisturbed
    <3>5. CASE t.pc = "remove"
      <4>1. Removing(t, q, groups, ruled) /\ PartedIn(groups)
        BY <1>5, <3>3, <3>5, Undisturbed
      <4>2. t.from \in Groups /\ groups[t.from] = t.old /\ ~Twice(t) /\ t.done = {} /\ Alike(q, {w})
            /\ (t.to # None => groups[t.to] = t.next)
        BY <1>7, <3>5, <4>1 DEF Removing, Twice
      <4>3. Left(t) = Nobody /\ t.from \in ruled
        BY <1>2, <1>4, <1>7, <3>4, <3>5, <4>1, <4>2, RemoveAccepted
      <4>4. Alike(p, {w} \ {w}) /\ {w} \ {w} = {}
        BY <1>3, <4>2
      <4>5. AsAsked(u, groups, ruled) /\ Alike(p, {})
        BY <3>3, <4>2, <4>3, <4>4 DEF AsAsked
      <4>6. Over(u, p, groups, ruled, faults)
        BY <3>2, <4>2, <4>5 DEF Over
      <4> QED BY <3>2, <3>3, <3>4, <3>5, <4>6 DEF MoveOK
    <3>6. CASE t.pc = "add"
      <4>1. /\ t.to \in Groups /\ groups[t.to] = t.next /\ t.next[t.device] = None
            /\ HomesOf(groups, t.device) = {} /\ PartedIn(groups)
        BY <1>5, <1>7, <3>3, <3>6, Undisturbed DEF Adding
      <4>2. Acceptable(asked) /\ ~Twice(t)
        BY <1>2, <1>4, <1>7, <3>4, <3>6, <4>1, AddAccepted DEF Twice
      <4> QED BY <1>4, <1>7, <4>2
    <3>7. CASE t.pc = "return"
      <4>1. Returning(t, q, groups, faults)
        BY <1>5, <3>3, <3>7, Undisturbed
      <4>2. t.from \in Groups /\ groups[t.from] = Left(t) /\ PartedIn(groups) /\ ~Twice(t)
            /\ HomesOf(groups, t.device) \subseteq {t.from, t.to} /\ t.from \notin HomesOf(groups, t.device)
        BY <1>7, <3>7, <4>1 DEF Returning, Twice
      <4>3. HomesOf(groups, t.device) # {}
        BY <1>2, <1>4, <1>7, <3>4, <3>7, <4>2, ReturnAccepted
      <4>4. Alike(q, {"add", "return"}) /\ p["add"] = q["add"]
        BY <1>3, <1>7, <3>7, <4>1 DEF Returning, Saves, Puts
      <4>5. Alike(p, {"add", "return"} \ {w}) /\ {"add", "return"} \ {w} = {"add"}
        BY <1>3, <1>7, <3>7, <4>4
      <4>6. Straggling(u, p, groups)
        BY <3>2, <3>3, <4>1, <4>4, SameParts DEF Returning, Straggling
      <4>7. Over(u, p, groups, ruled, faults)
        BY <3>2, <3>3, <3>7, <4>1, <4>2, <4>3, <4>5, <4>6 DEF Over, Returning
      <4> QED BY <3>2, <3>3, <3>4, <3>7, <4>7 DEF MoveOK
    <3> QED BY <1>5, <1>7, <3>3, <3>5, <3>6, <3>7, Undisturbed DEF Puts
  <2> QED BY <2>0, <2>1
<1> QED BY <1>4, <1>6, <1>7

LEMMA SavedMove ==
  ASSUME OwnTypes, NEW j \in Callers, NEW w \in Saves, Saved(j, w),
         MoveOK(job[j], request[j], groups, ruled, faults)
  PROVE  MoveOK(job'[j], request'[j], groups', ruled', faults')
<1> DEFINE t == job[j]
           q == request[j]
           p == request'[j]
           hs == groups'
<1>1. /\ q[w].pc = "save" /\ hs = Stored(q[w].writes) /\ Becomes(j, w, [q[w] EXCEPT !.pc = "push"])
      /\ job'[j] = t /\ UNCHANGED <<ruled, faults>>
  BY DEF Saved, Moved
<1>2. t \in Job /\ faults \in Nat /\ q[w] \in Request /\ groups \in [Groups -> Members] /\ GroupTypes
  BY BoundsAssumption DEF OwnTypes, JobTypes, CountTypes, RequestTypes, GroupTypes
<1>3. /\ p[w].pc = "push" /\ p[w].lost = q[w].lost /\ \A v \in Saves \ {w} : p[v] = q[v]
  <2>1. p = [q EXCEPT ![w] = [q[w] EXCEPT !.pc = "push"]] /\ q \in [Saves -> Request]
    BY <1>1 DEF Becomes, OwnTypes, RequestTypes
  <2> QED BY <1>2, <2>1 DEF Request
<1>4. \A g \in Groups, m \in Members : q[w].writes = Only(g, m) => hs = [groups EXCEPT ![g] = m]
  BY <1>1, <1>2, OneStored
<1> HIDE DEF t, q, p, hs
<1> SUFFICES ASSUME Alone(t), faults <= 1 PROVE MoveOK(t, p, hs, ruled, faults)
  BY <1>1 DEF MoveOK, t, p, hs
<1>5. MoveOK(t, q, groups, ruled, faults)
  BY DEF t, q
<1>6. \A ws : w \in ws /\ Alike(q, ws) => Alike(p, ws)
  BY <1>3 DEF Alike
<1>7. /\ t.device \in Devices /\ t.name \in Labels /\ t.from # t.to
      /\ (t.pc \in {"remove", "add"} => PartedIn(groups))
  BY <1>5, Undisturbed
<1>8. Left(t) \in Members /\ WithIt(t) \in Members /\ Back(t) \in Members
      /\ WithIt(t)[t.device] # None /\ Back(t)[t.device] # None
  BY <1>2, <1>7, MoveMembers
<1>9. CASE w = t.pc /\ w = "remove"
  <2>1. Removing(t, q, groups, ruled) /\ PartedIn(groups)
    BY <1>5, <1>9, Undisturbed
  <2>2. /\ t.from \in Groups /\ t.old[t.device] # None /\ groups[t.from] = t.old
        /\ q[w].writes = Only(t.from, Left(t)) /\ (t.to # None => groups[t.to] = t.next)
    BY <1>1, <1>9, <2>1 DEF Removing
  <2>3. hs = [groups EXCEPT ![t.from] = Left(t)]
    BY <1>4, <1>8, <2>2
  <2>4. PartedIn(hs) /\ HomesOf(hs, t.device) = {}
    BY <1>2, <1>7, <2>1, <2>2, <2>3, Removed
  <2>5. hs[t.from] = Left(t) /\ (t.to # None => hs[t.to] = t.next)
    BY <1>2, <1>7, <2>2, <2>3, GroupsOf
  <2>6. Removing(t, p, hs, ruled)
    BY <1>1, <1>3, <1>6, <1>9, <2>1, <2>4, <2>5 DEF Removing, Waits
  <2> QED BY <1>5, <1>9, <2>4, <2>6, Undisturbed DEF MoveOK
<1>10. CASE w = t.pc /\ w = "add"
  <2>1. Adding(t, q, groups, ruled) /\ PartedIn(groups)
    BY <1>5, <1>10, Undisturbed
  <2>2. /\ t.to \in Groups /\ groups[t.to] = t.next /\ HomesOf(groups, t.device) = {}
        /\ q[w].writes = Only(t.to, WithIt(t)) /\ (t.from # None => groups[t.from] = Left(t))
    BY <1>1, <1>10, <2>1 DEF Adding
  <2>3. hs = [groups EXCEPT ![t.to] = WithIt(t)]
    BY <1>4, <1>8, <2>2
  <2>4. PartedIn(hs) /\ AtHome(hs, t.device, t.to)
    BY <1>2, <1>7, <2>1, <2>2, <2>3, Added
  <2>5. hs[t.to] = WithIt(t) /\ (t.from # None => hs[t.from] = Left(t))
    BY <1>2, <1>7, <2>2, <2>3, GroupsOf
  <2>6. Adding(t, p, hs, ruled)
    BY <1>1, <1>3, <1>6, <1>10, <2>1, <2>4, <2>5 DEF Adding, Waits
  <2> QED BY <1>5, <1>10, <2>4, <2>6, Undisturbed DEF MoveOK
<1>11. CASE w = t.pc /\ w = "return"
  <2>1. Returning(t, q, groups, faults)
    BY <1>5, <1>11, Undisturbed
  <2>2. /\ t.from \in Groups /\ t.to \in Groups /\ q[w].writes = Only(t.from, Back(t))
        /\ p["add"] = q["add"]
    BY <1>1, <1>3, <1>11, <2>1 DEF Returning, Saves, Puts
  <2>3. hs = [groups EXCEPT ![t.from] = Back(t)]
    BY <1>4, <1>8, <2>2
  <2>h. hs[t.from] = Back(t) /\ \A o \in Groups \ {t.from} : hs[o] = groups[o]
    BY <1>2, <2>2, <2>3
  <2>4. HomesOf(hs, t.device) = HomesOf(groups, t.device) \union {t.from} /\ hs[t.to] = groups[t.to]
    BY <1>7, <1>8, <2>2, <2>h DEF HomesOf
  <2>5. Straggling(t, p, hs)
    BY <2>1, <2>2, <2>4 DEF Returning, Straggling
  <2>6. Returning(t, p, hs, faults)
    BY <1>1, <1>3, <1>6, <1>7, <1>11, <2>1, <2>4, <2>5 DEF Returning, Waits
  <2> QED BY <1>5, <1>11, <2>6, Undisturbed DEF MoveOK
<1>12. CASE w = "add" /\ q[w].lost /\ (t.pc = "return" \/ (t.pc = "load" /\ faults # 0 /\ "remove" \in t.done /\ t.to # None))
  <2>1. Straggling(t, q, groups) /\ HomesOf(groups, t.device) \subseteq {t.from, t.to} /\ Alike(q, {"add", "return"})
    BY <1>5, <1>12, Undisturbed DEF Returning, Over, Alike
  <2>2. /\ "late" \in t.done /\ groups[t.to] = t.next /\ t.next[t.device] = None /\ t.to \in Groups
        /\ q[w].writes = Only(t.to, WithIt(t)) /\ p["return"] = q["return"]
    BY <1>1, <1>2, <1>3, <1>5, <1>12, <2>1, Undisturbed, GroupsOf DEF Straggling, Saves, Puts, Returning
  <2>3. hs = [groups EXCEPT ![t.to] = WithIt(t)]
    BY <1>4, <1>8, <2>2
  <2>h. hs[t.to] = WithIt(t) /\ \A o \in Groups \ {t.to} : hs[o] = groups[o]
    BY <1>2, <2>2, <2>3
  <2>4. HomesOf(hs, t.device) = HomesOf(groups, t.device) \union {t.to}
    BY <1>8, <2>2, <2>h DEF HomesOf
  <2>5. Straggling(t, p, hs)
    BY <1>3, <1>12 DEF Straggling
  <2>6. CASE t.pc = "return"
    <3>1. Returning(t, q, groups, faults)
      BY <1>5, <2>6, Undisturbed
    <3>2. ASSUME q["return"].pc = "none" PROVE hs[t.from] = Left(t) /\ PartedIn(hs)
      <4>1. /\ groups[t.from] = Left(t) /\ PartedIn(groups) /\ t.from \in Groups
            /\ t.from \notin HomesOf(groups, t.device)
        BY <3>1, <3>2 DEF Returning
      <4>2. t.to \notin HomesOf(groups, t.device)
        BY <2>2 DEF HomesOf
      <4>3. HomesOf(groups, t.device) = {}
        BY <2>1, <4>1, <4>2
      <4>4. PartedIn(hs)
        BY <1>2, <1>7, <2>2, <2>3, <4>1, <4>3, Added
      <4> QED BY <1>7, <2>h, <4>1, <4>4
    <3>3. Returning(t, p, hs, faults)
      BY <1>6, <1>7, <1>12, <2>2, <2>4, <2>5, <3>1, <3>2 DEF Returning
    <3> QED BY <1>5, <2>6, <3>3, Undisturbed DEF MoveOK
  <2>7. CASE t.pc = "load" /\ faults # 0 /\ "remove" \in t.done /\ t.to # None
    <3>1. Over(t, p, hs, ruled, faults)
      BY <1>5, <1>6, <1>12, <2>2, <2>4, <2>5, <2>7, Undisturbed DEF Over
    <3> QED BY <1>5, <2>7, <3>1, Undisturbed DEF MoveOK
  <2> QED BY <1>12, <2>6, <2>7
<1>13. CASE t.pc = "load" /\ faults # 0 /\ ~("remove" \in t.done /\ t.to # None)
  BY <1>7, <1>13, NothingDue
<1> QED BY <1>1, <1>2, <1>5, <1>9, <1>10, <1>11, <1>12, <1>13, Whose

LEMMA PushedMove ==
  ASSUME OwnTypes, NEW j \in Callers, NEW w \in Saves, Push(j, w), faults' \in Nat, faults' >= faults,
         MoveOK(job[j], request[j], groups, ruled, faults)
  PROVE  MoveOK(job'[j], request'[j], groups', ruled', faults')
<1> DEFINE t == job[j]
           q == request[j]
           p == request'[j]
           f == faults
           h == faults'
<1>1. q[w].pc = "push" /\ UNCHANGED <<groups, ruled, job>>
  BY DEF Push
<1>2. f \in Nat /\ h \in Nat /\ h >= f /\ t \in Job
  BY BoundsAssumption DEF OwnTypes, CountTypes, JobTypes
<1>3. /\ p[w].pc = "push" /\ p[w].lost = q[w].lost /\ \A v \in Saves \ {w} : p[v] = q[v]
  <2>1. PICK names : Becomes(j, w, [q[w] EXCEPT !.names = names])
    BY DEF Push
  <2>2. p = [q EXCEPT ![w] = [q[w] EXCEPT !.names = names]] /\ q \in [Saves -> Request]
    BY <2>1 DEF Becomes, OwnTypes, RequestTypes
  <2> QED BY <1>1, <2>2 DEF Request
<1> HIDE DEF t, q, p, f, h
<1> SUFFICES ASSUME Alone(t), h <= 1 PROVE MoveOK(t, p, groups, ruled, h)
  BY <1>1 DEF MoveOK, t, p, h
<1>4. MoveOK(t, q, groups, ruled, f) /\ f <= 1
  BY <1>2 DEF t, q, f
<1>5. \A ws : w \in ws /\ Alike(q, ws) => Alike(p, ws)
  BY <1>3 DEF Alike
<1>6. \A v \in Saves : p[v].pc = q[v].pc /\ p[v].lost = q[v].lost /\ (q[v].pc # "push" => p[v] = q[v])
  BY <1>1, <1>3
<1>7. CASE w = t.pc /\ w \in {"remove", "add", "return"}
  <2>1. "add" \in Saves /\ "return" \in Saves /\ "remove" \in Saves
    BY DEF Saves, Puts
  <2>2. t.pc = "remove" => Removing(t, p, groups, ruled)
    BY <1>1, <1>4, <1>5, <1>6, <1>7, <2>1, Undisturbed DEF Removing, Waits
  <2>3. t.pc = "add" => Adding(t, p, groups, ruled)
    BY <1>1, <1>4, <1>5, <1>6, <1>7, <2>1, Undisturbed DEF Adding, Waits
  <2>4. t.pc = "return" => Returning(t, p, groups, h)
    BY <1>1, <1>2, <1>3, <1>4, <1>5, <1>6, <1>7, <2>1, Undisturbed DEF Returning, Waits, Straggling
  <2> QED BY <1>4, <1>7, <2>2, <2>3, <2>4, Undisturbed DEF MoveOK
<1>8. CASE w = "add" /\ t.pc = "return" /\ q[w].lost
  <2>1. p["return"] = q["return"] /\ Straggling(t, p, groups)
    BY <1>3, <1>8 DEF Straggling, Saves, Puts
  <2>2. Returning(t, p, groups, h)
    BY <1>2, <1>4, <1>5, <1>8, <2>1, Undisturbed DEF Returning
  <2> QED BY <1>4, <1>8, <2>2, Undisturbed DEF MoveOK
<1>9. CASE w = "add" /\ t.pc = "load" /\ f # 0 /\ "remove" \in t.done /\ t.to # None /\ q[w].lost
  <2>1. Straggling(t, p, groups)
    BY <1>3, <1>9 DEF Straggling
  <2>2. Over(t, p, groups, ruled, h)
    BY <1>2, <1>4, <1>5, <1>9, <2>1, Undisturbed DEF Over
  <2> QED BY <1>4, <1>9, <2>2, Undisturbed DEF MoveOK
<1>10. CASE t.pc = "load" /\ f # 0 /\ ~("remove" \in t.done /\ t.to # None)
  <2>1. h # 0
    BY <1>2, <1>10
  <2> QED BY <1>4, <1>10, <2>1, Undisturbed, NothingDue
<1> QED BY <1>1, <1>2, <1>4, <1>7, <1>8, <1>9, <1>10, Whose

\* The device back on its way to the group it came from.
LEMMA BackAgain ==
  ASSUME NEW t \in Job, NEW u, Same(u, t), u.pc = "return", u.todo = {}, t.from # None, "remove" \in u.done,
         t.device \in Devices, t.name \in Labels, t.from # t.to, t.to \in Groups,
         NEW gs, NEW rs, NEW p, PartedIn(gs), gs[t.from] = Left(t), Alike(p, {"add"}), Straggling(u, p, gs),
         HomesOf(gs, t.device) = {} \/ AtHome(gs, t.device, t.to)
  PROVE  MoveOK(u, p, gs, rs, 1)
<1>1. /\ Left(u) = Left(t) /\ u.from = t.from /\ u.to = t.to /\ u.device = t.device /\ u.name = t.name
      /\ t.from \in Groups
  BY SameParts, GroupsOf DEF Same
<1>2. p["return"] = NoRequest /\ Alike(p, {"add", "return"})
  BY DEF Alike, Saves, Puts
<1>3. Waits(p["return"]) /\ p["return"].pc = "none"
  BY <1>2 DEF NoRequest, Waits
<1>4. HomesOf(gs, t.device) \subseteq {t.from, t.to} /\ t.from \notin HomesOf(gs, t.device)
  BY DEF AtHome
<1>5. Returning(u, p, gs, 1)
  BY <1>1, <1>2, <1>3, <1>4 DEF Returning
<1> QED BY <1>1, <1>5 DEF MoveOK

LEMMA FailedMove ==
  ASSUME OwnTypes, NEW j \in Callers, NEW w \in Saves, SaveFails(j, w),
         MoveOK(job[j], request[j], groups, ruled, faults)
  PROVE  MoveOK(job'[j], request'[j], groups', ruled', faults')
<1> DEFINE t == job[j]
           u == job'[j]
           q == request[j]
           p == request'[j]
           hs == groups'
           f == faults
<1>1. /\ q[w].pc = "save" /\ faults' = f + 1 /\ UNCHANGED ruled
      /\ hs = groups \/ hs = Stored(q[w].writes)
      /\ Becomes(j, w, NoRequest)
      /\ u = IF q[w].lost THEN t ELSE AfterFailure(t)
  BY DEF SaveFails, Fault, Moved, Answer
<1>2. t \in Job /\ f \in Nat /\ groups \in [Groups -> Members] /\ GroupTypes
  BY BoundsAssumption DEF OwnTypes, JobTypes, CountTypes, GroupTypes
<1>3. p[w] = NoRequest /\ \A ws : Alike(q, ws) => Alike(p, ws) /\ Alike(p, ws \ {w})
  BY <1>1, Gone
<1>4. \A g \in Groups, m \in Members : q[w].writes = Only(g, m) => hs \in {groups, [groups EXCEPT ![g] = m]}
  BY <1>1, <1>2, OneStored
<1> HIDE DEF t, u, q, p, hs, f
<1> SUFFICES ASSUME Alone(u), faults' <= 1 PROVE MoveOK(u, p, hs, ruled, faults')
  BY <1>1 DEF MoveOK, u, p, hs
<1>5. f = 0 /\ faults' = 1 /\ MoveOK(t, q, groups, ruled, f) /\ f <= 1
  BY <1>1, <1>2 DEF t, q, f
<1>6. Alone(t)
  BY <1>1, <1>2, FailureSame, SameParts
<1>7. /\ t.device \in Devices /\ t.name \in Labels /\ t.from # t.to
      /\ (t.pc \in {"remove", "add"} => PartedIn(groups))
  BY <1>5, <1>6, Undisturbed
<1>8. w = t.pc /\ w \in {"remove", "add"} /\ ~q[w].lost
  BY <1>1, <1>2, <1>5, <1>6, Whose, Undisturbed DEF Returning, Waits
<1>9. /\ Same(u, t) /\ u.done = t.done
      /\ IF t.pc = "add" /\ t.from # None THEN u.pc = "return" /\ u.todo = {} ELSE u.pc = "load"
  BY <1>1, <1>2, <1>8, FailureSame
<1>10. CASE ~(t.pc = "add" /\ t.from # None)
  <2>1. t.done = {}
    BY <1>5, <1>6, <1>8, <1>10, Undisturbed DEF Removing, Adding
  <2>2. /\ u.device \in Devices /\ u.name \in Labels /\ u.from # u.to /\ u.pc = "load"
        /\ faults' # 0 /\ ~("remove" \in u.done /\ u.to # None)
    BY <1>5, <1>7, <1>9, <1>10, <2>1 DEF Same
  <2> QED BY <2>2, NothingDue
<1>11. CASE t.pc = "add" /\ t.from # None
  <2>1. Adding(t, q, groups, ruled) /\ PartedIn(groups)
    BY <1>5, <1>6, <1>11, Undisturbed
  <2>2. /\ t.to \in Groups /\ groups[t.to] = t.next /\ HomesOf(groups, t.device) = {}
        /\ groups[t.from] = Left(t) /\ t.done = {"remove"} /\ t.from \in Groups
        /\ q[w].writes = Only(t.to, WithIt(t)) /\ Alike(q, {"add"})
    BY <1>1, <1>2, <1>8, <1>11, <2>1, GroupsOf DEF Adding
  <2>3. WithIt(t) \in Members
    BY <1>2, <1>7, MoveMembers
  <2>4. hs \in {groups, [groups EXCEPT ![t.to] = WithIt(t)]}
    BY <1>4, <2>2, <2>3
  <2>5. PartedIn(hs) /\ (HomesOf(hs, t.device) = {} \/ AtHome(hs, t.device, t.to)) /\ hs[t.from] = Left(t)
    <3>1. CASE hs = groups
      BY <2>1, <2>2, <3>1
    <3>2. CASE hs = [groups EXCEPT ![t.to] = WithIt(t)]
      <4>1. PartedIn(hs) /\ AtHome(hs, t.device, t.to)
        BY <1>2, <1>7, <2>1, <2>2, <3>2, Added
      <4> QED BY <1>2, <1>7, <2>2, <3>2, <4>1
    <3> QED BY <2>4, <3>1, <3>2
  <2>6. Alike(p, {"add"}) /\ Straggling(u, p, hs)
    BY <1>3, <1>8, <1>11, <2>2 DEF Straggling, NoRequest
  <2> QED BY <1>2, <1>5, <1>7, <1>9, <1>11, <2>2, <2>5, <2>6, BackAgain
<1> QED BY <1>10, <1>11

LEMMA AnsweredMove ==
  ASSUME OwnTypes, NEW j \in Callers, NEW w \in Saves, Answered(j, w),
         MoveOK(job[j], request[j], groups, ruled, faults)
  PROVE  MoveOK(job'[j], request'[j], groups', ruled', faults')
<1> DEFINE t == job[j]
           u == job'[j]
           q == request[j]
           p == request'[j]
<1>1. /\ q[w].pc = "push" /\ Becomes(j, w, NoRequest) /\ UNCHANGED <<groups, ruled, faults>>
      /\ u = IF q[w].lost THEN t ELSE AfterSuccess(t)
  BY DEF Answered, Answer, OwnTypes, JobTypes
<1>2. t \in Job /\ faults \in Nat /\ ruled \subseteq Groups
  BY BoundsAssumption DEF OwnTypes, JobTypes, CountTypes, GroupTypes
<1>3. /\ p[w] = NoRequest /\ \A v \in Saves \ {w} : p[v] = q[v]
      /\ \A ws : Alike(q, ws) => Alike(p, ws) /\ Alike(p, ws \ {w})
  BY <1>1, Gone
<1> HIDE DEF t, u, q, p
<1> SUFFICES ASSUME Alone(u), faults <= 1 PROVE MoveOK(u, p, groups, ruled, faults)
  BY <1>1 DEF MoveOK, u, p
<1>4. MoveOK(t, q, groups, ruled, faults)
  BY DEF t, q
<1>5. Alone(t)
  BY <1>1, <1>2, SuccessSame, SameParts
<1>6. /\ t.device \in Devices /\ t.name \in Labels /\ t.from # t.to
      /\ (t.pc \in {"remove", "add"} => PartedIn(groups))
  BY <1>4, <1>5, Undisturbed
<1>7. CASE w = t.pc /\ w \in {"remove", "add", "return"} /\ Waits(q[w])
  <2>1. /\ Same(u, t)
        /\ IF t.pc = "remove" /\ t.to # None THEN u.pc = "add" /\ u.todo = {} /\ u.done = {"remove"}
                                             ELSE u.pc = "load" /\ u.done = t.done \union {t.pc}
    BY <1>1, <1>2, <1>7, SuccessSame DEF Waits
  <2>2. /\ Left(u) = Left(t) /\ WithIt(u) = WithIt(t)
        /\ u.from = t.from /\ u.to = t.to /\ u.device = t.device /\ u.name = t.name
        /\ u.old = t.old /\ u.next = t.next
    BY <2>1, SameParts DEF Same
  <2>3. {w} \ {w} = {}
    OBVIOUS
  <2>4. CASE t.pc = "remove"
    <3>1. Removing(t, q, groups, ruled) /\ PartedIn(groups)
      BY <1>4, <1>5, <2>4, Undisturbed
    <3>2. /\ t.from \in Groups /\ groups[t.from] = Left(t) /\ (Left(t) = Nobody => t.from \notin ruled)
          /\ HomesOf(groups, t.device) = {} /\ (t.to # None => groups[t.to] = t.next)
          /\ Alike(q, {w}) /\ t.done = {}
      BY <1>1, <1>7, <2>4, <3>1 DEF Removing
    <3>3. Alike(p, {})
      BY <1>3, <2>3, <3>2
    <3>4. CASE t.to # None
      <4>1. t.to \in Groups /\ t.next[t.device] = None
        BY <1>2, <3>2, <3>4, GroupsOf DEF HomesOf
      <4>2. Alike(p, {"add"}) /\ Waits(p["add"]) /\ p["add"].pc = "none"
        BY <3>3 DEF Alike, Saves, Puts, NoRequest, Waits
      <4>3. t.from # None
        BY <1>2, <3>2, GroupsOf
      <4>4. Adding(u, p, groups, ruled)
        BY <2>1, <2>2, <2>4, <3>2, <3>4, <4>1, <4>2, <4>3 DEF Adding
      <4> QED BY <1>6, <2>1, <2>2, <2>4, <3>1, <3>4, <4>4 DEF MoveOK
    <3>5. CASE t.to = None
      <4>1. AsAsked(u, groups, ruled)
        BY <2>2, <3>2, <3>5 DEF AsAsked
      <4>2. Over(u, p, groups, ruled, faults)
        BY <2>2, <3>3, <3>5, <4>1 DEF Over
      <4> QED BY <1>6, <2>1, <2>2, <2>4, <3>5, <4>2 DEF MoveOK
    <3> QED BY <3>4, <3>5
  <2>5. CASE t.pc = "add"
    <3>1. Adding(t, q, groups, ruled)
      BY <1>4, <1>5, <2>5, Undisturbed
    <3>2. /\ t.to \in Groups /\ groups[t.to] = WithIt(t) /\ AtHome(groups, t.device, t.to) /\ Alike(q, {w})
          /\ t.from # None => groups[t.from] = Left(t) /\ (Left(t) = Nobody => t.from \notin ruled)
          /\ t.from = None => t.done = {}
      BY <1>1, <1>7, <2>5, <3>1 DEF Adding
    <3>3. Alike(p, {}) /\ Alike(p, {"add"}) /\ Straggling(u, p, groups)
      BY <1>3, <1>7, <2>3, <2>5, <3>2 DEF Straggling, NoRequest
    <3>4. AsAsked(u, groups, ruled)
      <4>1. t.from = None => t.from \notin ruled
        BY <1>2, GroupsOf
      <4> QED BY <2>2, <3>2, <4>1 DEF AsAsked
    <3>5. Over(u, p, groups, ruled, faults)
      BY <1>6, <2>1, <2>2, <2>5, <3>2, <3>3, <3>4 DEF Over, AtHome
    <3> QED BY <1>6, <2>1, <2>2, <2>5, <3>5 DEF MoveOK
  <2>6. CASE t.pc = "return"
    <3>1. Returning(t, q, groups, faults)
      BY <1>4, <1>5, <2>6, Undisturbed
    <3>2. Alike(p, {"add", "return"} \ {w}) /\ {"add", "return"} \ {w} = {"add"} /\ p["add"] = q["add"]
      BY <1>3, <1>7, <2>6, <3>1 DEF Returning, Saves, Puts
    <3>3. Straggling(u, p, groups)
      BY <2>1, <2>2, <2>6, <3>1, <3>2 DEF Returning, Straggling
    <3>4. Over(u, p, groups, ruled, faults)
      BY <1>1, <1>7, <2>1, <2>2, <2>6, <3>1, <3>2, <3>3 DEF Over, Returning
    <3> QED BY <1>6, <2>1, <2>2, <2>6, <3>4 DEF MoveOK
  <2> QED BY <1>7, <2>4, <2>5, <2>6
<1>8. CASE /\ w = "add" /\ (t.pc = "return" \/ (t.pc = "load" /\ faults # 0 /\ "remove" \in t.done /\ t.to # None))
           /\ q[w].lost
  <2>1. u = t
    BY <1>1, <1>8
  <2>2. p["add"] = NoRequest /\ p["return"] = q["return"] /\ \A ws : Alike(q, ws) => Alike(p, ws)
    BY <1>3, <1>8 DEF Saves, Puts
  <2>3. faults # 0
    BY <1>4, <1>5, <1>8, Undisturbed DEF Returning
  <2> QED BY <1>4, <1>5, <1>8, <2>1, <2>2, <2>3, StragglerGone, SameSelf
<1>9. CASE t.pc = "load" /\ faults # 0 /\ ~("remove" \in t.done /\ t.to # None)
  <2>2. CASE u = t
    BY <1>6, <1>9, <2>2, NothingDue
  <2>3. CASE u = AfterSuccess(t)
    <3>1. /\ Same(u, t) /\ u.pc = "load" /\ u.done = t.done \union {"load"}
      BY <1>2, <1>9, <2>3, SuccessSame
    <3>2. /\ u.device \in Devices /\ u.name \in Labels /\ u.from # u.to
          /\ ~("remove" \in u.done /\ u.to # None)
      BY <1>6, <1>9, <3>1 DEF Same
    <3> QED BY <1>9, <3>1, <3>2, NothingDue
  <2> QED BY <1>1, <2>2, <2>3
<1> QED BY <1>1, <1>2, <1>4, <1>5, <1>7, <1>8, <1>9, Whose

LEMMA GivenUpMove ==
  ASSUME OwnTypes, NEW j \in Callers, NEW w \in Saves, GivesUp(j, w),
         MoveOK(job[j], request[j], groups, ruled, faults)
  PROVE  MoveOK(job'[j], request'[j], groups', ruled', faults')
<1> DEFINE t == job[j]
           u == job'[j]
           q == request[j]
           p == request'[j]
           f == faults
           late == LateOf(j, w)
<1>1. /\ t.pc = w /\ faults' = f + 1 /\ u = GivenUp(t, late) /\ UNCHANGED <<groups, ruled>>
  BY GivesUpFacts DEF OwnTypes, JobTypes, Fault
<1>2. /\ t \in Job /\ f \in Nat /\ late \in SUBSET {"late"}
      /\ late = IF p[w].pc \in {"sent", "save"} THEN {"late"} ELSE {}
  BY BoundsAssumption DEF OwnTypes, JobTypes, CountTypes, LateOf
<1>3. /\ \A v \in Saves \ {w} : p[v] = q[v]
      /\ \/ p[w] = q[w] /\ q[w].pc = "none"
         \/ /\ p[w].lost
            /\ p[w].pc = "sent" => w \in Puts /\ p[w].writes = Asked(j, w) /\ q[w].pc = "none" /\ ~Twice(t)
            /\ p[w].pc # "sent" => /\ p[w].pc = q[w].pc /\ p[w].pc \in {"save", "push"}
                                   /\ p[w].writes = q[w].writes
  <2>1. CASE request' = request /\ request[j][w].pc = "none"
    BY <2>1
  <2>2. CASE \E r \in Request : /\ Becomes(j, w, r) /\ r.lost
                                /\ \/ /\ r.pc = "sent" /\ w \in Puts /\ r.names = Nobody
                                      /\ r.writes = Asked(j, w) /\ request[j][w].pc = "none"
                                      /\ ~Twice(job[j])
                                   \/ /\ r.pc = request[j][w].pc /\ r.pc \in {"save", "push"}
                                      /\ r.writes = request[j][w].writes
    <3>1. PICK r \in Request : /\ Becomes(j, w, r) /\ r.lost
                               /\ \/ /\ r.pc = "sent" /\ w \in Puts /\ r.names = Nobody
                                     /\ r.writes = Asked(j, w) /\ request[j][w].pc = "none"
                                     /\ ~Twice(job[j])
                                  \/ /\ r.pc = request[j][w].pc /\ r.pc \in {"save", "push"}
                                     /\ r.writes = request[j][w].writes
      BY <2>2
    <3>2. p[w] = r /\ \A v \in Saves \ {w} : p[v] = q[v]
      BY <3>1, BecomesFacts DEF OwnTypes
    <3> QED BY <3>1, <3>2
  <2> QED BY <2>1, <2>2, GivesUpFacts
<1>4. (w \in Puts /\ q[w].pc # "sent" /\ t.pc = "add") => Asked(j, w) = Only(t.to, WithIt(t))
  BY MoveAsks
<1> HIDE DEF t, u, q, p, f, late
<1> SUFFICES ASSUME Alone(u), faults' <= 1 PROVE MoveOK(u, p, groups, ruled, faults')
  BY <1>1 DEF MoveOK, u, p
<1>5. f = 0 /\ faults' = 1 /\ MoveOK(t, q, groups, ruled, f) /\ f <= 1
  BY <1>1, <1>2 DEF t, q, f
<1>6. /\ Same(u, t) /\ u.done = t.done \union late
      /\ IF t.pc = "add" /\ t.from # None THEN u.pc = "return" /\ u.todo = {} ELSE u.pc = "load"
  BY <1>1, <1>2, GivenUpSame
<1>7. Alone(t)
  BY <1>6, SameParts
<1>8. /\ t.device \in Devices /\ t.name \in Labels /\ t.from # t.to
      /\ (t.pc \in {"remove", "add"} => PartedIn(groups))
  BY <1>5, <1>7, Undisturbed
<1>9. t.pc \in {"remove", "add"}
  <2>1. t.pc # "load"
    BY <1>1 DEF Saves, Puts
  <2> QED BY <1>5, <1>7, <2>1, Undisturbed DEF Returning
<1>10. CASE ~(t.pc = "add" /\ t.from # None)
  <2>1. t.done = {}
    BY <1>5, <1>7, <1>9, <1>10, Undisturbed DEF Removing, Adding
  <2>2. /\ u.device \in Devices /\ u.name \in Labels /\ u.from # u.to /\ u.pc = "load"
        /\ faults' # 0 /\ ~("remove" \in u.done /\ u.to # None)
    BY <1>2, <1>5, <1>6, <1>8, <1>10, <2>1 DEF Same
  <2> QED BY <2>2, NothingDue
<1>11. CASE t.pc = "add" /\ t.from # None
  <2>1. Adding(t, q, groups, ruled) /\ PartedIn(groups)
    BY <1>5, <1>7, <1>11, Undisturbed
  <2>2. /\ t.to \in Groups /\ t.next[t.device] = None /\ (q[w].pc # "push" => groups[t.to] = t.next)
        /\ groups[t.from] = Left(t) /\ t.done = {"remove"} /\ t.from \in Groups
        /\ (q[w].pc = "save" => q[w].writes = Only(t.to, WithIt(t))) /\ Alike(q, {"add"})
        /\ (HomesOf(groups, t.device) = {} \/ AtHome(groups, t.device, t.to))
    BY <1>1, <1>2, <1>11, <2>1, GroupsOf DEF Adding
  <2>3. Alike(p, {"add"})
    BY <1>1, <1>3, <1>11, <2>2 DEF Alike
  <2>4. p["add"].pc # "none" => p["add"].lost
    BY <1>1, <1>3, <1>11
  <2>5. ASSUME p["add"].pc \in {"sent", "save"}
        PROVE  /\ "late" \in u.done /\ groups[t.to] = t.next
               /\ p["add"].writes = Only(t.to, WithIt(t))
    BY <1>1, <1>2, <1>3, <1>4, <1>6, <1>11, <2>2, <2>5
  <2>6. Straggling(u, p, groups)
    BY <1>6, <2>2, <2>4, <2>5, SameParts DEF Straggling, Same
  <2>7. "remove" \in u.done
    BY <1>6, <2>2
  <2> QED BY <1>2, <1>5, <1>6, <1>8, <1>11, <2>1, <2>2, <2>3, <2>6, <2>7, BackAgain
<1> QED BY <1>10, <1>11

\* Loading the page, whether a step of it fails or not.
LEMMA OverStays ==
  ASSUME NEW t, NEW u, Same(u, t), u.pc = "load", t.pc = "load", u.done = t.done, NEW q, NEW gs, NEW rs,
         NEW f \in Nat, NEW h \in Nat, f <= h, MoveOK(t, q, gs, rs, f)
  PROVE  MoveOK(u, q, gs, rs, h)
<1> SUFFICES ASSUME Alone(u), h <= 1 PROVE MoveOK(u, q, gs, rs, h)
  BY DEF MoveOK
<1>1. /\ Alone(t) /\ f <= 1 /\ Left(u) = Left(t) /\ WithIt(u) = WithIt(t)
      /\ u.from = t.from /\ u.to = t.to /\ u.device = t.device /\ u.name = t.name
      /\ u.old = t.old /\ u.next = t.next
  BY SameParts DEF Same
<1>2. AsAsked(t, gs, rs) => AsAsked(u, gs, rs)
  BY <1>1 DEF AsAsked
<1>3. Straggling(t, q, gs) => Straggling(u, q, gs)
  BY <1>1 DEF Straggling
<1>4. Over(u, q, gs, rs, h)
  BY <1>1, <1>2, <1>3, Undisturbed DEF Over
<1> QED BY <1>1, <1>4, Undisturbed DEF MoveOK

LEMMA LoadingMove ==
  ASSUME NEW t \in Job, NEW todo \in SUBSET Loads, NEW u, u = AtPlace(t, "load", todo),
         t.pc = "load" \/ todo = t.todo \ {"devices"}, NEW q, NEW gs, NEW rs,
         NEW f \in Nat, NEW h \in Nat, f <= h, MoveOK(t, q, gs, rs, f)
  PROVE  MoveOK(u, q, gs, rs, h)
<1> SUFFICES ASSUME Alone(u), h <= 1 PROVE MoveOK(u, q, gs, rs, h)
  BY DEF MoveOK
<1>1. u # IdleJob /\ "load" \in Places
  BY IdleNotAlone DEF Places
<1>2. Same(u, t) /\ u.pc = "load" /\ u.done = t.done
  BY <1>1, AtPlaceSame2
<1>3. Alone(t) /\ f <= 1
  BY <1>2, SameParts
<1>4. t.pc = "load"
  <2>1. t.pc # "load" => todo = {}
    BY <1>3, Undisturbed
  <2> QED BY <1>1, <2>1 DEF AtPlace
<1> QED BY <1>2, <1>4, OverStays

LEMMA OtherStarts ==
  ASSUME OwnTypes, NEW j \in Callers, Save(j) \/ Open(j) \/ Enroll(j)
  PROVE  ~Alone(job'[j])
<1>1. CASE Save(j)
  <2>1. PICK g \in Groups, m \in Members : job' = [job EXCEPT ![j] =
          [[IdleJob EXCEPT !.pc = "save", !.to = g, !.next = m, !.alone = Fresh /\ Parted] EXCEPT !.kind = "Save"]]
    BY <1>1 DEF Save, Start, Edits
  <2>2. job'[j].kind = "Save"
    BY <2>1 DEF OwnTypes, JobTypes, IdleJob
  <2> QED BY <2>2 DEF Alone
<1>2. CASE Open(j)
  <2>1. job' = [job EXCEPT ![j] = [[IdleJob EXCEPT !.pc = "load", !.todo = Loads] EXCEPT !.kind = "Open"]]
    BY <1>2 DEF Open, Start
  <2>2. job'[j].kind = "Open"
    BY <2>1 DEF OwnTypes, JobTypes, IdleJob
  <2> QED BY <2>2 DEF Alone
<1>3. CASE Enroll(j)
  <2>1. PICK d \in Devices, to \in Groups, n \in Names \union {None} : job' = [job EXCEPT ![j] =
          [[IdleJob EXCEPT !.pc = "enroll", !.device = d, !.to = to, !.name = n, !.snap = groups]
           EXCEPT !.kind = "Enroll"]]
    BY <1>3 DEF Enroll, Start
  <2>2. job'[j].kind = "Enroll"
    BY <2>1 DEF OwnTypes, JobTypes, IdleJob
  <2> QED BY <2>2 DEF Alone
<1> QED BY <1>1, <1>2, <1>3

\* What other jobs leave alone, whatever fails there.
LEMMA MoreFaults ==
  ASSUME NEW t, NEW q, NEW gs, NEW rs, NEW f \in Nat, NEW h \in Nat, f <= h, MoveOK(t, q, gs, rs, f)
  PROVE  MoveOK(t, q, gs, rs, h)
<1> SUFFICES ASSUME Alone(t), h <= 1 PROVE MoveOK(t, q, gs, rs, h)
  BY DEF MoveOK
<1>1. CASE t.pc = "load"
  BY <1>1, OverStays, SameSelf
<1>2. CASE t.pc # "load"
  <2>1. f <= 1
    OBVIOUS
  <2>2. Returning(t, q, gs, f) => Returning(t, q, gs, h)
    BY DEF Returning
  <2> QED BY <1>2, <2>1, <2>2 DEF MoveOK
<1> QED BY <1>1, <1>2

LEMMA MoveStep ==
  ASSUME ListTypes, OwnTypes, MoveInv, [Next]_vars
  PROVE  MoveInv'
<1>0. UNCHANGED ruled /\ faults \in Nat /\ faults' \in Nat /\ faults' >= faults
  BY JobSteps
<1>1. \A i \in Callers : job[i] \in Job /\ MoveOK(job[i], request[i], groups, ruled, faults)
  BY DEF OwnTypes, JobTypes, MoveInv
<1>2. ASSUME NEW i \in Callers, job'[i] = job[i], request'[i] = request[i], UNCHANGED groups
      PROVE  MoveOK(job'[i], request'[i], groups', ruled', faults')
  BY <1>0, <1>1, <1>2, MoreFaults
<1>3. CASE UNCHANGED <<job, groups, request>>
  BY <1>2, <1>3 DEF MoveInv
<1>4. ASSUME NEW j \in Callers, Acts(j), ~ReadPage(j), Aside(j)
      PROVE  MoveInv'
  <2>1. ASSUME NEW i \in Callers \ {j} PROVE MoveOK(job'[i], request'[i], groups', ruled', faults')
    <3>1. Beside(job[i], job'[i]) /\ request'[i] = request[i]
      BY <1>4 DEF Aside
    <3>2. CASE job'[i] = [job[i] EXCEPT !.alone = FALSE]
      <4>1. ~Alone(job'[i])
        BY <1>1, <3>2 DEF Alone, Job
      <4> QED BY <4>1, NotAlone
    <3> QED BY <1>2, <3>1, <3>2 DEF Beside
  <2>2. MoveOK(job'[j], request'[j], groups', ruled', faults')
    <3>0. MoveOK(job[j], request[j], groups, ruled, faults) /\ job[j] \in Job
      BY <1>1
    <3>1. CASE Move(j)
      BY <3>1, MoveBegins
    <3>2. CASE Save(j) \/ Open(j) \/ Enroll(j)
      BY <3>2, OtherStarts, NotAlone
    <3>3. CASE \E w \in Puts : PutChecked(j, w) \/ PutRefused(j, w)
      BY <3>0, <3>3, CheckedMove, RefusedMove
    <3>4. CASE \E w \in Saves : Saved(j, w) \/ SaveFails(j, w) \/ Push(j, w) \/ Answered(j, w) \/ GivesUp(j, w)
      BY <1>0, <3>0, <3>4, SavedMove, FailedMove, PushedMove, AnsweredMove, GivenUpMove
    <3>5. CASE job'[j] = job[j] /\ EnrollChecked(j)
      <4>1. job[j].pc = "enroll"
        BY <3>5, EnrollCheckedFacts
      <4> QED BY <1>0, <3>0, <3>5, <4>1 DEF MoveOK
    <3>6. CASE job'[j] = IdleJob
      BY <3>6, IdleNotAlone, NotAlone
    <3>7. ASSUME NEW todo \in SUBSET Loads, job'[j] = AtPlace(job[j], "load", todo),
                 job[j].pc = "load" \/ todo = job[j].todo \ {"devices"}, UNCHANGED <<groups, request>>
          PROVE  MoveOK(job'[j], request'[j], groups', ruled', faults')
      <4>1. MoveOK(job'[j], request[j], groups, ruled, faults')
        BY <1>0, <3>0, <3>7, LoadingMove
      <4> QED BY <1>0, <3>7, <4>1
    <3>8. CASE /\ \E todo \in SUBSET Loads : job'[j] = AtPlace(job[j], "load", todo)
               /\ job[j].pc = "load" \/ job'[j] = AtPlace(job[j], "load", job[j].todo \ {"devices"})
               /\ UNCHANGED <<groups, request>>
      <4>1. job[j].todo \ {"devices"} \in SUBSET Loads
        BY <3>0 DEF Job
      <4> QED BY <3>7, <3>8, <4>1
    <3>9. CASE job[j].pc = "load" /\ job'[j] = [job[j] EXCEPT !.snap = groups] /\ UNCHANGED <<groups, request>>
      <4>1. Same(job'[j], job[j]) /\ job'[j].pc = "load" /\ job'[j].done = job[j].done
        BY <3>0, <3>9 DEF Same, Job
      <4>2. MoveOK(job'[j], request[j], groups, ruled, faults')
        BY <1>0, <3>0, <3>9, <4>1, OverStays
      <4> QED BY <1>0, <3>9, <4>2
    <3> QED BY <1>4, ActsOn, <3>1, <3>2, <3>3, <3>4, <3>5, <3>6, <3>8, <3>9
  <2> QED BY <2>1, <2>2 DEF MoveInv
<1> QED BY <1>3, <1>4, JobSteps

LEMMA MoveInvAlways == Spec => []MoveInv
<1>1. Init => ListOK /\ OwnTypes /\ MoveInv
  <2>1. Init => MoveInv
    BY IdleNotAlone, NotAlone DEF Init, MoveInv
  <2> QED BY <2>1, ListOKInit, OwnTypesInit
<1>2. ListOK /\ OwnTypes /\ MoveInv /\ [Next]_vars => ListOK' /\ OwnTypes' /\ MoveInv'
  BY ListOKStep, OwnTypesStep, MoveStep DEF ListOK
<1> QED BY <1>1, <1>2, PTL DEF Spec

\* A move begun from an up-to-date page, with each device in one group, with nobody
\* else at work and nothing failing, moves the device and nothing else; the server
\* refuses it only when the device is the last of a group with rules, and then
\* neither of the two groups has changed.
THEOREM UndisturbedMovesMove == Spec => []MoveDoesWhatItSays
<1>1. MoveInv => MoveDoesWhatItSays
  <2> SUFFICES ASSUME MoveInv, NEW j \in Callers, Moving(j), faults = 0, job[j].pc = "load"
               PROVE  AsAsked(job[j], groups, ruled)
    BY DEF MoveDoesWhatItSays, AsAsked, Left, WithIt
  <2>1. Alone(job[j]) /\ MoveOK(job[j], request[j], groups, ruled, faults)
    BY DEF MoveInv, Moving, Alone
  <2> QED BY <2>1 DEF MoveOK, Over
<1> QED BY <1>1, MoveInvAlways, PTL

\* "rather than leaving it stranded": after the first save of a move was answered
\* with success, one failure (an error, a lost answer, or a save that the server ends
\* after the browser gave it up) leaves the device in the group it came from or the
\* one it goes to.  It can end in both only if the server had yet to store the save
\* that was given up.
THEOREM OneFailureStrandsNobody == Spec => []OneFaultNeverStrands
<1>1. MoveInv => OneFaultNeverStrands
  <2> SUFFICES ASSUME MoveInv, NEW j \in Callers, Moving(j), faults <= 1, job[j].pc = "load",
                      "remove" \in job[j].done, job[j].to # None
               PROVE  LET homes == HomesOf(groups, job[j].device)
                      IN  /\ homes # {} /\ homes \subseteq {job[j].from, job[j].to}
                          /\ homes = {job[j].from, job[j].to} => "late" \in job[j].done
    BY DEF OneFaultNeverStrands
  <2>1. Alone(job[j]) /\ MoveOK(job[j], request[j], groups, ruled, faults)
    BY DEF MoveInv, Moving, Alone
  <2> QED BY <2>1 DEF MoveOK, Over
<1> QED BY <1>1, MoveInvAlways, PTL
=============================================================================
