---------------------- MODULE SourceContextBatchProofs ----------------------
(***************************************************************************)
(* What holds of SourceContextBatch for any rows, receipts and number of   *)
(* workers: commits exclude each other and operators, so what a commit     *)
(* compared with its receipt is still so when it writes (OnlyShownWrites); *)
(* the tables stay sound (TypeOK), a record is somebody's once             *)
(* (RecordLinkedOnce), and nobody a commit makes was known before          *)
(* (NewcomersAreNew).                                                      *)
(***************************************************************************)
EXTENDS SourceContextBatch, FiniteSetTheorems, SequenceTheorems, TLAPS

Fields == {"scopes", "expected", "todo", "open", "seen", "view"}

\* The queries a job has behind it are the first n, one field of view each.
InOrder(lane, view) ==
  /\ IsFiniteSet(DOMAIN view)
  /\ Cardinality(DOMAIN view) \in 0 .. Len(Queries(lane))
  /\ DOMAIN view = {Queries(lane)[k] : k \in 1 .. Cardinality(DOMAIN view)}

\* The jobs there are, and the steps a job has behind it.
JobInv ==
  /\ DOMAIN job \subseteq Workers
  /\ locked \subseteq DOMAIN job
  /\ \A w \in DOMAIN job :
       /\ DOMAIN job[w] = Fields
       /\ job[w].todo # {} \/ job[w].open # {} => DOMAIN job[w].view = {}
       /\ InOrder(job[w].seen.lane, job[w].view)

\* A job that was given a receipt has the locks, alone.
LockInv ==
  /\ \A w \in DOMAIN job : job[w].expected # {} <=> w \in locked
  /\ \A v, w \in locked : v = w

\* What the holder of the locks has read is what the rows say.
FreshInv ==
  \A w \in locked :
    /\ job[w].expected \subseteq shown
    /\ LET rows == job[w].seen.rows IN
       \A q \in DOMAIN job[w].view :
         job[w].view[q] = Fetched(db, Current(db, rows), rows, q)

Inv == JobInv /\ LockInv /\ FreshInv

-----------------------------------------------------------------------------
(* The queries.                                                            *)

Verdicts == {"active", "aliases", "person", "link", "claim", "linked"}
Sums == {"people", "claims", "evidence", "links", "published"}

LEMMA QueryList ==
  ASSUME NEW lane
  PROVE  LET q == Queries(lane) n == Len(q) IN
         /\ n \in Nat /\ DOMAIN q = 1 .. n /\ n > 0
         /\ \A i, k \in 1 .. n : q[i] = q[k] => i = k
         /\ \A i \in 1 .. n : q[i] = "published" => i = n
         /\ \A i \in 1 .. n : q[i] = "person" => \E k \in 1 .. i - 1 : q[k] = "active"
         /\ \A i \in 1 .. n : q[i] = "listed" => \E k \in 1 .. i - 1 : q[k] = "claim"
         /\ Verdicts \cup Sums \subseteq {q[i] : i \in 1 .. n}
         /\ lane = "ALIO" => "listed" \in {q[i] : i \in 1 .. n}
<1>1. CASE lane = "ALIO"
  <2> DEFINE q == <<"active", "aliases", "person", "link", "claim", "linked", "listed",
                    "people", "claims", "evidence", "links", "published">>
  <2>1. Queries(lane) = q
    BY <1>1 DEF Queries
  <2>2. Len(q) = 12 /\ DOMAIN q = 1 .. 12
    OBVIOUS
  <2>3. /\ q[1] = "active" /\ q[2] = "aliases" /\ q[3] = "person" /\ q[4] = "link"
        /\ q[5] = "claim" /\ q[6] = "linked" /\ q[7] = "listed" /\ q[8] = "people"
        /\ q[9] = "claims" /\ q[10] = "evidence" /\ q[11] = "links" /\ q[12] = "published"
    OBVIOUS
  <2> HIDE DEF q
  <2>4. \A i \in 1 .. 12 : i = 1 \/ i = 2 \/ i = 3 \/ i = 4 \/ i = 5 \/ i = 6 \/ i = 7
                           \/ i = 8 \/ i = 9 \/ i = 10 \/ i = 11 \/ i = 12
    OBVIOUS
  <2>5. \A i, k \in 1 .. 12 : q[i] = q[k] => i = k
    BY <2>3, <2>4
  <2>6. /\ \A i \in 1 .. 12 : q[i] = "published" => i = 12
        /\ \A i \in 1 .. 12 : q[i] = "person" => \E k \in 1 .. i - 1 : q[k] = "active"
        /\ \A i \in 1 .. 12 : q[i] = "listed" => \E k \in 1 .. i - 1 : q[k] = "claim"
    BY <2>3, <2>4
  <2>7. Verdicts \cup Sums \cup {"listed"} \subseteq {q[i] : i \in 1 .. 12}
    BY <2>3 DEF Verdicts, Sums
  <2> QED
    BY <2>1, <2>2, <2>5, <2>6, <2>7
<1>2. CASE lane # "ALIO"
  <2> DEFINE q == <<"active", "aliases", "person", "link", "claim", "linked",
                    "people", "claims", "evidence", "links", "published">>
  <2>1. Queries(lane) = q
    BY <1>2 DEF Queries
  <2>2. Len(q) = 11 /\ DOMAIN q = 1 .. 11
    OBVIOUS
  <2>3. /\ q[1] = "active" /\ q[2] = "aliases" /\ q[3] = "person" /\ q[4] = "link"
        /\ q[5] = "claim" /\ q[6] = "linked" /\ q[7] = "people"
        /\ q[8] = "claims" /\ q[9] = "evidence" /\ q[10] = "links" /\ q[11] = "published"
    OBVIOUS
  <2> HIDE DEF q
  <2>4. \A i \in 1 .. 11 : i = 1 \/ i = 2 \/ i = 3 \/ i = 4 \/ i = 5 \/ i = 6 \/ i = 7
                           \/ i = 8 \/ i = 9 \/ i = 10 \/ i = 11
    OBVIOUS
  <2>5. \A i, k \in 1 .. 11 : q[i] = q[k] => i = k
    BY <2>3, <2>4
  <2>6. /\ \A i \in 1 .. 11 : q[i] = "published" => i = 11
        /\ \A i \in 1 .. 11 : q[i] = "person" => \E k \in 1 .. i - 1 : q[k] = "active"
        /\ \A i \in 1 .. 11 : q[i] = "listed" => \E k \in 1 .. i - 1 : q[k] = "claim"
    BY <2>3, <2>4
  <2>7. Verdicts \cup Sums \subseteq {q[i] : i \in 1 .. 11}
    BY <2>3 DEF Verdicts, Sums
  <2> QED
    BY <1>2, <2>1, <2>2, <2>5, <2>6, <2>7
<1> QED
  BY <1>1, <1>2

(* The next query is a new one, and what it relies on has been read.       *)
LEMMA NextQuery ==
  ASSUME NEW lane, NEW view, InOrder(lane, view),
         NEW i, i = Cardinality(DOMAIN view) + 1, i \in DOMAIN Queries(lane), NEW value
  PROVE  LET q == Queries(lane)[i] next == Put(view, q, value) IN
         /\ InOrder(lane, next)
         /\ q \notin DOMAIN view /\ DOMAIN next = DOMAIN view \cup {q}
         /\ next[q] = value /\ \A r \in DOMAIN view : next[r] = view[r]
         /\ q = "person" => "active" \in DOMAIN view
         /\ q = "listed" => "claim" \in DOMAIN view
<1> DEFINE qs == Queries(lane)
           n == Len(qs)
           q == qs[i]
           next == Put(view, q, value)
<1>1. /\ n \in Nat /\ DOMAIN qs = 1 .. n
      /\ \A j, k \in 1 .. n : qs[j] = qs[k] => j = k
      /\ \A j \in 1 .. n : qs[j] = "person" => \E k \in 1 .. j - 1 : qs[k] = "active"
      /\ \A j \in 1 .. n : qs[j] = "listed" => \E k \in 1 .. j - 1 : qs[k] = "claim"
  BY QueryList
<1>2. /\ IsFiniteSet(DOMAIN view) /\ Cardinality(DOMAIN view) \in 0 .. n
      /\ DOMAIN view = {qs[k] : k \in 1 .. Cardinality(DOMAIN view)}
  BY DEF InOrder
<1> HIDE DEF qs, n
<1> DEFINE m == Cardinality(DOMAIN view)
<1>3. m \in Nat /\ i = m + 1 /\ i \in 1 .. n /\ DOMAIN view = {qs[k] : k \in 1 .. m}
  BY <1>1, <1>2 DEF qs
<1> HIDE DEF m
<1>4. q \notin DOMAIN view
  BY <1>1, <1>3
<1>5. /\ DOMAIN next = DOMAIN view \cup {q} /\ next[q] = value
      /\ \A r \in DOMAIN view : next[r] = view[r]
  BY <1>4 DEF Put
<1>6. IsFiniteSet(DOMAIN view \cup {q}) /\ Cardinality(DOMAIN view \cup {q}) = m + 1
  BY <1>2, <1>4, FS_AddElement DEF m
<1>7. DOMAIN view \cup {q} = {qs[k] : k \in 1 .. m + 1}
  BY <1>3
<1>8. InOrder(lane, next)
  <2> HIDE DEF next, q
  <2>1. IsFiniteSet(DOMAIN next) /\ Cardinality(DOMAIN next) = m + 1
        /\ DOMAIN next = {qs[k] : k \in 1 .. m + 1}
    BY <1>5, <1>6, <1>7
  <2>2. m + 1 \in 0 .. n
    BY <1>1, <1>3
  <2> QED
    BY <2>1, <2>2 DEF InOrder, qs, n
<1>9. q = "person" => "active" \in DOMAIN view
  BY <1>1, <1>3
<1>10. q = "listed" => "claim" \in DOMAIN view
  BY <1>1, <1>3
<1> QED
  BY <1>4, <1>5, <1>8, <1>9, <1>10 DEF qs

(* Who has counted what is published has asked for everything.             *)
LEMMA AllAsked ==
  ASSUME NEW lane, NEW view, InOrder(lane, view), "published" \in DOMAIN view
  PROVE  /\ Verdicts \cup Sums \subseteq DOMAIN view
         /\ lane = "ALIO" => "listed" \in DOMAIN view
<1> DEFINE qs == Queries(lane)
           n == Len(qs)
           m == Cardinality(DOMAIN view)
<1>1. /\ n \in Nat
      /\ \A j \in 1 .. n : qs[j] = "published" => j = n
      /\ Verdicts \cup Sums \subseteq {qs[i] : i \in 1 .. n}
      /\ lane = "ALIO" => "listed" \in {qs[i] : i \in 1 .. n}
  BY QueryList
<1>2. m \in 0 .. n /\ DOMAIN view = {qs[k] : k \in 1 .. m}
  BY DEF InOrder
<1> HIDE DEF qs, n, m
<1>3. PICK k \in 1 .. m : qs[k] = "published"
  BY <1>2
<1>4. m = n
  BY <1>1, <1>2, <1>3
<1> QED
  BY <1>1, <1>2, <1>4

(* What stands at one moment, field by field.                              *)
LEMMA CurrentFields ==
  ASSUME NEW d, NEW rows
  PROVE  LET c == Current(d, rows) IN
         /\ c.active = [p \in Active(d) |-> d.person[p]]
         /\ c.aliases = UNION {d.person[p].aliases : p \in DOMAIN d.person}
         /\ c.person = d.person /\ c.link = d.link /\ c.claim = d.claim
         /\ c.linked = {l \in d.link : l.live /\ l.row \in rows}
         /\ c.listed = {row \in rows : Listed(d, row)}
<1> DEFINE f == [active  |-> [p \in Active(d) |-> d.person[p]],
                 aliases |-> UNION {d.person[p].aliases : p \in DOMAIN d.person},
                 person  |-> d.person, link |-> d.link, claim |-> d.claim,
                 linked  |-> {l \in d.link : l.live /\ l.row \in rows},
                 listed  |-> {row \in rows : Listed(d, row)}]
<1>1. Current(d, rows) = PutAll(Totals(d), f)
  BY DEF Current
<1>2. DOMAIN f = {"active", "aliases", "person", "link", "claim", "linked", "listed"}
  OBVIOUS
<1>3. /\ f.active = [p \in Active(d) |-> d.person[p]]
      /\ f.aliases = UNION {d.person[p].aliases : p \in DOMAIN d.person}
      /\ f.person = d.person /\ f.link = d.link /\ f.claim = d.claim
      /\ f.linked = {l \in d.link : l.live /\ l.row \in rows}
      /\ f.listed = {row \in rows : Listed(d, row)}
  OBVIOUS
<1> HIDE DEF f
<1>4. \A x \in DOMAIN f : Current(d, rows)[x] = f[x]
  BY <1>1 DEF PutAll
<1> QED
  BY <1>2, <1>3, <1>4

LEMMA CurrentSums ==
  ASSUME NEW d, NEW rows, NEW t \in Sums
  PROVE  Current(d, rows)[t] = Totals(d)[t]
<1> DEFINE f == [active  |-> [p \in Active(d) |-> d.person[p]],
                 aliases |-> UNION {d.person[p].aliases : p \in DOMAIN d.person},
                 person  |-> d.person, link |-> d.link, claim |-> d.claim,
                 linked  |-> {l \in d.link : l.live /\ l.row \in rows},
                 listed  |-> {row \in rows : Listed(d, row)}]
           g == Totals(d)
<1>1. Current(d, rows) = PutAll(g, f)
  BY DEF Current
<1>2. t \notin DOMAIN f /\ t \in DOMAIN g
  BY DEF Totals, Sums
<1> HIDE DEF f, g
<1>3. Current(d, rows)[t] = g[t]
  BY <1>1, <1>2 DEF PutAll
<1> QED
  BY <1>3 DEF g

-----------------------------------------------------------------------------
(* The verdicts, case by case.                                             *)

\* Case k of n is the first to be true.
FirstAt(cases, n, k) == k \in 1 .. n /\ cases[k][1] /\ \A j \in 1 .. n : j < k => ~ cases[j][1]

LEMMA FirstTrue ==
  ASSUME NEW n \in Nat, NEW cases, DOMAIN cases = 1 .. n, NEW k, FirstAt(cases, n, k)
  PROVE  First(cases) = cases[k][2]
<1> DEFINE Is(i) == i \in DOMAIN cases /\ cases[i][1] /\ \A j \in 1 .. i - 1 : ~ cases[j][1]
<1>1. Is(k)
  BY DEF FirstAt
<1>2. ASSUME NEW i, Is(i) PROVE i = k
  BY <1>2 DEF FirstAt
<1>3. (CHOOSE i \in DOMAIN cases : cases[i][1] /\ \A j \in 1 .. i - 1 : ~ cases[j][1]) = k
  BY <1>1, <1>2
<1> QED
  BY <1>3 DEF First

\* Lists of m, four and four.
Lists(S, m, p, q, r) ==
  /\ m \in Nat /\ p \in Seq(S) /\ q \in Seq(S) /\ r \in Seq(S)
  /\ Len(p) = m /\ Len(q) = 4 /\ Len(r) = 4

LEMMA Joined ==
  ASSUME NEW S, NEW m, NEW p, NEW q, NEW r, Lists(S, m, p, q, r)
  PROVE  \E s : /\ s = p \o q \o r
                /\ DOMAIN s = 1 .. m + 8
                /\ \A i \in 1 .. m : s[i] = p[i]
                /\ \A i \in 1 .. 4 : s[m + i] = q[i] /\ s[m + 4 + i] = r[i]
<1> USE DEF Lists
<1> DEFINE t == p \o q
           s == t \o r
<1>1. /\ t \in Seq(S) /\ Len(t) = m + 4
      /\ \A i \in 1 .. m + 4 : t[i] = IF i <= m THEN p[i] ELSE q[i - m]
  <2>1. /\ t \in Seq(S) /\ Len(t) = Len(p) + Len(q)
        /\ \A i \in 1 .. Len(p) + Len(q) : t[i] = IF i <= Len(p) THEN p[i] ELSE q[i - Len(p)]
    BY ConcatProperties, Zenon
  <2> QED
    BY <2>1
<1> HIDE DEF t
<1>2. /\ s \in Seq(S) /\ Len(s) = m + 8
      /\ \A i \in 1 .. m + 8 : s[i] = IF i <= m + 4 THEN t[i] ELSE r[i - (m + 4)]
  <2>1. m + 4 + 4 = m + 8
    OBVIOUS
  <2>2. /\ s \in Seq(S) /\ Len(s) = Len(t) + Len(r)
        /\ \A i \in 1 .. Len(t) + Len(r) : s[i] = IF i <= Len(t) THEN t[i] ELSE r[i - Len(t)]
    BY <1>1, ConcatProperties, Zenon
  <2> QED
    BY <1>1, <2>1, <2>2
<1> HIDE DEF s
<1>3. DOMAIN s = 1 .. m + 8
  BY <1>2
<1>4. ASSUME NEW i \in 1 .. m PROVE s[i] = p[i]
  BY <1>1, <1>2
<1>5. ASSUME NEW i \in 1 .. 4 PROVE s[m + i] = q[i] /\ s[m + 4 + i] = r[i]
  <2>1. /\ m + i \in 1 .. m + 4 /\ ~ (m + i <= m) /\ (m + i) - m = i
        /\ m + 4 + i \in 1 .. m + 8 /\ ~ (m + 4 + i <= m + 4) /\ (m + 4 + i) - (m + 4) = i
        /\ m + i \in 1 .. m + 8 /\ m + i <= m + 4
    OBVIOUS
  <2> QED
    BY <1>1, <1>2, <2>1
<1>6. s = p \o q \o r
  BY DEF s, t
<1> QED
  BY <1>3, <1>4, <1>5, <1>6

LEMMA ListOfTwo ==
  ASSUME NEW S, NEW p, p = <<p[1], p[2]>>, p[1] \in S, p[2] \in S
  PROVE  p \in Seq(S) /\ Len(p) = 2
<1>1. ASSUME NEW a \in S, NEW b \in S PROVE <<a, b>> \in Seq(S) /\ Len(<<a, b>>) = 2
  OBVIOUS
<1> QED
  BY <1>1, Zenon

LEMMA ListOfThree ==
  ASSUME NEW S, NEW p, p = <<p[1], p[2], p[3]>>, p[1] \in S, p[2] \in S, p[3] \in S
  PROVE  p \in Seq(S) /\ Len(p) = 3
<1>1. ASSUME NEW a \in S, NEW b \in S, NEW c \in S PROVE <<a, b, c>> \in Seq(S) /\ Len(<<a, b, c>>) = 3
  OBVIOUS
<1> QED
  BY <1>1, Zenon

LEMMA ListOfFour ==
  ASSUME NEW S, NEW p, p = <<p[1], p[2], p[3], p[4]>>, p[1] \in S, p[2] \in S, p[3] \in S, p[4] \in S
  PROVE  p \in Seq(S) /\ Len(p) = 4
<1>1. ASSUME NEW a \in S, NEW b \in S, NEW c \in S, NEW d \in S
      PROVE  <<a, b, c, d>> \in Seq(S) /\ Len(<<a, b, c, d>>) = 4
  OBVIOUS
<1> QED
  BY <1>1, Zenon

(* The first true case of three lists, the second and third of four.       *)
LEMMA FirstOfThree ==
  ASSUME NEW S, NEW m, NEW p, NEW q, NEW r, Lists(S, m, p, q, r)
  PROVE  /\ \A k : FirstAt(p, m, k) => First(p \o q \o r) = p[k][2]
         /\ (\A j \in 1 .. m : ~ p[j][1]) =>
              /\ \A k : FirstAt(q, 4, k) => First(p \o q \o r) = q[k][2]
              /\ (\A j \in 1 .. 4 : ~ q[j][1]) =>
                   \A k : FirstAt(r, 4, k) => First(p \o q \o r) = r[k][2]
<1> DEFINE n == m + 8
<1>1. PICK s : /\ s = p \o q \o r
               /\ DOMAIN s = 1 .. m + 8
               /\ \A i \in 1 .. m : s[i] = p[i]
               /\ \A i \in 1 .. 4 : s[m + i] = q[i] /\ s[m + 4 + i] = r[i]
  BY Joined
<1>2. n \in Nat /\ m \in Nat
  BY DEF Lists
<1> USE <1>2
<1>0. DOMAIN s = 1 .. n
  BY <1>1
<1>3. ASSUME NEW k, FirstAt(p, m, k) PROVE First(s) = p[k][2]
  <2>0. k \in 1 .. m /\ p[k][1] /\ \A j \in 1 .. m : j < k => ~ p[j][1]
    BY <1>3 DEF FirstAt
  <2>3. ASSUME NEW j \in 1 .. n, j < k PROVE ~ s[j][1]
    <3>1. j \in 1 .. m
      BY <2>0, <2>3
    <3> QED
      BY <1>1, <2>0, <2>3, <3>1
  <2>4. k \in 1 .. n /\ s[k] = p[k]
    <3>1. k \in 1 .. m + 8
      BY <2>0
    <3>2. s[k] = p[k]
      BY <1>1, <2>0
    <3> QED
      BY <3>1, <3>2
  <2>1. FirstAt(s, n, k) /\ s[k] = p[k]
    <3> HIDE DEF n
    <3> QED BY <2>0, <2>3, <2>4 DEF FirstAt
  <2>2. First(s) = s[k][2]
    <3> HIDE DEF n
    <3> QED BY <1>0, <1>2, <2>1, FirstTrue
  <2> QED
    BY <2>1, <2>2
<1>4. ASSUME \A j \in 1 .. m : ~ p[j][1], NEW k, FirstAt(q, 4, k)
      PROVE  First(s) = q[k][2]
  <2> DEFINE i == m + k
  <2>1. i \in 1 .. n /\ s[i] = q[k]
    <3>1. k \in 1 .. 4
      BY <1>4 DEF FirstAt
    <3>2. m + k \in 1 .. m + 8
      BY <3>1
    <3>3. s[m + k] = q[k]
      BY <1>1, <3>1
    <3> QED
      BY <3>2, <3>3
  <2>2. ASSUME NEW j \in 1 .. n, j < i PROVE ~ s[j][1]
    <3>1. CASE j \in 1 .. m
      BY <1>1, <1>4, <3>1
    <3>2. CASE j \notin 1 .. m
      <4>1. k \in 1 .. 4 /\ \A x \in 1 .. 4 : x < k => ~ q[x][1]
        BY <1>4 DEF FirstAt
      <4>2. PICK x \in 1 .. 4 : x < k /\ j = m + x
        <5>1. j - m \in 1 .. 4 /\ j - m < k /\ j = m + (j - m)
          BY <2>2, <3>2, <4>1
        <5> QED
          BY <5>1
      <4> QED
        BY <1>1, <4>1, <4>2
    <3> QED
      BY <3>1, <3>2
  <2>3. s[i][1]
    BY <1>4, <2>1 DEF FirstAt
  <2> HIDE DEF i, n
  <2>4. FirstAt(s, n, i)
    BY <2>1, <2>2, <2>3 DEF FirstAt
  <2>5. First(s) = s[i][2]
    BY <1>0, <1>2, <2>4, FirstTrue
  <2> QED
    BY <2>1, <2>5
<1>5. ASSUME \A j \in 1 .. m : ~ p[j][1], \A j \in 1 .. 4 : ~ q[j][1], NEW k, FirstAt(r, 4, k)
      PROVE  First(s) = r[k][2]
  <2> DEFINE i == m + 4 + k
  <2>1. i \in 1 .. n /\ s[i] = r[k]
    <3>1. k \in 1 .. 4
      BY <1>5 DEF FirstAt
    <3>2. m + 4 + k \in 1 .. m + 8
      BY <3>1
    <3>3. s[m + 4 + k] = r[k]
      BY <1>1, <3>1
    <3> QED
      BY <3>2, <3>3
  <2>2. ASSUME NEW j \in 1 .. n, j < i PROVE ~ s[j][1]
    <3>1. CASE j \in 1 .. m
      BY <1>1, <1>5, <3>1
    <3>2. CASE j \in m + 1 .. m + 4
      <4>1. j = m + (j - m) /\ j - m \in 1 .. 4
        BY <3>2
      <4> QED
        BY <1>1, <1>5, <4>1
    <3>3. CASE j \notin 1 .. m + 4
      <4>1. k \in 1 .. 4 /\ \A x \in 1 .. 4 : x < k => ~ r[x][1]
        BY <1>5 DEF FirstAt
      <4>2. PICK x \in 1 .. 4 : x < k /\ j = m + 4 + x
        <5>1. j - (m + 4) \in 1 .. 4 /\ j - (m + 4) < k /\ j = m + 4 + (j - (m + 4))
          BY <2>2, <3>3, <4>1
        <5> QED
          BY <5>1
      <4> QED
        BY <1>1, <4>1, <4>2
    <3> QED
      BY <3>1, <3>2, <3>3
  <2>3. s[i][1]
    BY <1>5, <2>1 DEF FirstAt
  <2> HIDE DEF i, n
  <2>4. FirstAt(s, n, i)
    BY <2>1, <2>2, <2>3 DEF FirstAt
  <2>5. First(s) = s[i][2]
    BY <1>0, <1>2, <2>4, FirstTrue
  <2> QED
    BY <2>1, <2>5
<1> QED
  BY <1>1, <1>3, <1>4, <1>5

(* The verdict of an ALIO row, case by case.                               *)
LEMMA AlioChain ==
  ASSUME NEW d, NEW seen, NEW row
  PROVE  AlioVerdict(d, seen, row) =
           IF row \in seen.drifted THEN "HISTORICAL_VERSION_DRIFT"
           ELSE IF row \notin d.listed THEN "ORGANIZATION_BINDING_REQUIRED"
           ELSE IF PacketState(d, row) = "EXACT" THEN "ALREADY_MATERIALIZED"
           ELSE IF PacketState(d, row) = "MANAGED" THEN "ALREADY_MANAGED"
           ELSE IF PacketState(d, row) # "ABSENT" THEN "PARTIAL_OR_CONFLICTING_MATERIALIZATION"
           ELSE IF Cardinality(On(d, row)) > 1 THEN "MULTIPLE_ACTIVE_LINKS"
           ELSE IF On(d, row) # {} THEN "ALREADY_MANAGED_LINK"
           ELSE IF \E o \in seen.rows \ {row} : NameOf[o] = NameOf[row] THEN "CURRENT_NAME_REPEATED"
           ELSE IF NameOf[row] \in Taken(d) THEN "CURRENT_PERSON_OR_ALIAS_COLLISION"
           ELSE "CREATE"
<1> DEFINE p == << <<row \in seen.drifted, "HISTORICAL_VERSION_DRIFT">>,
                   <<row \notin d.listed, "ORGANIZATION_BINDING_REQUIRED">> >>
           q == Settled(d, row)
           r == << <<On(d, row) # {}, "ALREADY_MANAGED_LINK">>,
                   <<\E o \in seen.rows \ {row} : NameOf[o] = NameOf[row], "CURRENT_NAME_REPEATED">>,
                   <<NameOf[row] \in Taken(d), "CURRENT_PERSON_OR_ALIAS_COLLISION">>,
                   <<TRUE, "CREATE">> >>
           S == {p[1], p[2], q[1], q[2], q[3], q[4], r[1], r[2], r[3], r[4]}
           repeated == \E o \in seen.rows \ {row} : NameOf[o] = NameOf[row]
           several == Cardinality(On(d, row)) > 1
<1>1. p = <<p[1], p[2]>> /\ q = <<q[1], q[2], q[3], q[4]>> /\ r = <<r[1], r[2], r[3], r[4]>>
  BY DEF Settled
<1>2. AlioVerdict(d, seen, row) = First(p \o q \o r)
  BY DEF AlioVerdict
<1>3. /\ (p[1][1] <=> row \in seen.drifted) /\ p[1][2] = "HISTORICAL_VERSION_DRIFT"
      /\ (p[2][1] <=> row \notin d.listed) /\ p[2][2] = "ORGANIZATION_BINDING_REQUIRED"
  OBVIOUS
<1>4. /\ (q[1][1] <=> PacketState(d, row) = "EXACT") /\ q[1][2] = "ALREADY_MATERIALIZED"
      /\ (q[2][1] <=> PacketState(d, row) = "MANAGED") /\ q[2][2] = "ALREADY_MANAGED"
      /\ (q[3][1] <=> PacketState(d, row) # "ABSENT") /\ q[3][2] = "PARTIAL_OR_CONFLICTING_MATERIALIZATION"
      /\ (q[4][1] <=> several) /\ q[4][2] = "MULTIPLE_ACTIVE_LINKS"
  BY DEF Settled
<1>5. /\ (r[1][1] <=> On(d, row) # {}) /\ r[1][2] = "ALREADY_MANAGED_LINK"
      /\ (r[2][1] <=> repeated) /\ r[2][2] = "CURRENT_NAME_REPEATED"
      /\ (r[3][1] <=> NameOf[row] \in Taken(d)) /\ r[3][2] = "CURRENT_PERSON_OR_ALIAS_COLLISION"
      /\ r[4][1] /\ r[4][2] = "CREATE"
  OBVIOUS
<1> HIDE DEF p, q, r
<1>0. {p[1], p[2], q[1], q[2], q[3], q[4], r[1], r[2], r[3], r[4]} \subseteq S
  OBVIOUS
<1> HIDE DEF S
<1>6. p \in Seq(S) /\ q \in Seq(S) /\ r \in Seq(S) /\ Len(p) = 2 /\ Len(q) = 4 /\ Len(r) = 4
  <2>1. /\ p[1] \in S /\ p[2] \in S
        /\ q[1] \in S /\ q[2] \in S /\ q[3] \in S /\ q[4] \in S
        /\ r[1] \in S /\ r[2] \in S /\ r[3] \in S /\ r[4] \in S
    BY <1>0
  <2> QED
    BY <1>1, <2>1, ListOfTwo, ListOfFour, Zenon
<1> DEFINE f == First(p \o q \o r)
<1>7. /\ \A k : FirstAt(p, 2, k) => f = p[k][2]
      /\ (\A j \in 1 .. 2 : ~ p[j][1]) =>
           /\ \A k : FirstAt(q, 4, k) => f = q[k][2]
           /\ (\A j \in 1 .. 4 : ~ q[j][1]) =>
                \A k : FirstAt(r, 4, k) => f = r[k][2]
  <2>1. Lists(S, 2, p, q, r)
    BY <1>6 DEF Lists
  <2> HIDE DEF f
  <2>2. /\ \A k : FirstAt(p, 2, k) => First(p \o q \o r) = p[k][2]
        /\ (\A j \in 1 .. 2 : ~ p[j][1]) =>
             /\ \A k : FirstAt(q, 4, k) => First(p \o q \o r) = q[k][2]
             /\ (\A j \in 1 .. 4 : ~ q[j][1]) =>
                  \A k : FirstAt(r, 4, k) => First(p \o q \o r) = r[k][2]
    BY <2>1, FirstOfThree
  <2>3. f = First(p \o q \o r)
    BY DEF f
  <2> QED
    BY <2>2, <2>3
<1> HIDE DEF f
<1>8. /\ p[1][1] => f = p[1][2]
      /\ ~ p[1][1] /\ p[2][1] => f = p[2][2]
      /\ ~ p[1][1] /\ ~ p[2][1] =>
           /\ q[1][1] => f = q[1][2]
           /\ ~ q[1][1] /\ q[2][1] => f = q[2][2]
           /\ ~ q[1][1] /\ ~ q[2][1] /\ q[3][1] => f = q[3][2]
           /\ ~ q[1][1] /\ ~ q[2][1] /\ ~ q[3][1] /\ q[4][1] => f = q[4][2]
           /\ ~ q[1][1] /\ ~ q[2][1] /\ ~ q[3][1] /\ ~ q[4][1] =>
                /\ r[1][1] => f = r[1][2]
                /\ ~ r[1][1] /\ r[2][1] => f = r[2][2]
                /\ ~ r[1][1] /\ ~ r[2][1] /\ r[3][1] => f = r[3][2]
                /\ ~ r[1][1] /\ ~ r[2][1] /\ ~ r[3][1] /\ r[4][1] => f = r[4][2]
  BY <1>7 DEF FirstAt
<1>9. AlioVerdict(d, seen, row) = f
  BY <1>2 DEF f
<1> HIDE DEF several, repeated
<1> QED
  BY <1>3, <1>4, <1>5, <1>8, <1>9 DEF several, repeated
(* The verdict of a NEC row, case by case.                                 *)
LEMMA NecChain ==
  ASSUME NEW d, NEW seen, NEW row
  PROVE  NecVerdict(d, seen, row) =
           IF row \notin Anchored THEN "IDENTITY_ANCHOR_MISSING"
           ELSE IF row \in seen.doubted THEN "CHECKPOINT_CONFLICT"
           ELSE IF row \in seen.drifted THEN "HISTORICAL_VERSION_DRIFT"
           ELSE IF PacketState(d, row) = "EXACT" THEN "ALREADY_MATERIALIZED"
           ELSE IF PacketState(d, row) = "MANAGED" THEN "ALREADY_MANAGED"
           ELSE IF PacketState(d, row) # "ABSENT" THEN "PARTIAL_OR_CONFLICTING_MATERIALIZATION"
           ELSE IF Cardinality(On(d, row)) > 1 THEN "MULTIPLE_ACTIVE_LINKS"
           ELSE IF On(d, row) # {} THEN "ALREADY_LINKED_OTHER_CONTEXT"
           ELSE IF \E o \in seen.rows \ {row} : KeyOf[o] = KeyOf[row] THEN "HUBOID_REPEATED_ACROSS_CURRENT_SCOPES"
           ELSE IF NameOf[row] \in Taken(d) THEN "CURRENT_PERSON_OR_ALIAS_COLLISION"
           ELSE "CREATE"
<1> DEFINE p == << <<row \notin Anchored, "IDENTITY_ANCHOR_MISSING">>,
                   <<row \in seen.doubted, "CHECKPOINT_CONFLICT">>,
                   <<row \in seen.drifted, "HISTORICAL_VERSION_DRIFT">> >>
           q == Settled(d, row)
           r == << <<On(d, row) # {}, "ALREADY_LINKED_OTHER_CONTEXT">>,
                   <<\E o \in seen.rows \ {row} : KeyOf[o] = KeyOf[row], "HUBOID_REPEATED_ACROSS_CURRENT_SCOPES">>,
                   <<NameOf[row] \in Taken(d), "CURRENT_PERSON_OR_ALIAS_COLLISION">>,
                   <<TRUE, "CREATE">> >>
           S == {p[1], p[2], p[3], q[1], q[2], q[3], q[4], r[1], r[2], r[3], r[4]}
           repeated == \E o \in seen.rows \ {row} : KeyOf[o] = KeyOf[row]
           several == Cardinality(On(d, row)) > 1
<1>1. p = <<p[1], p[2], p[3]>> /\ q = <<q[1], q[2], q[3], q[4]>> /\ r = <<r[1], r[2], r[3], r[4]>>
  BY DEF Settled
<1>2. NecVerdict(d, seen, row) = First(p \o q \o r)
  BY DEF NecVerdict
<1>3. /\ (p[1][1] <=> row \notin Anchored) /\ p[1][2] = "IDENTITY_ANCHOR_MISSING"
      /\ (p[2][1] <=> row \in seen.doubted) /\ p[2][2] = "CHECKPOINT_CONFLICT"
      /\ (p[3][1] <=> row \in seen.drifted) /\ p[3][2] = "HISTORICAL_VERSION_DRIFT"
  OBVIOUS
<1>4. /\ (q[1][1] <=> PacketState(d, row) = "EXACT") /\ q[1][2] = "ALREADY_MATERIALIZED"
      /\ (q[2][1] <=> PacketState(d, row) = "MANAGED") /\ q[2][2] = "ALREADY_MANAGED"
      /\ (q[3][1] <=> PacketState(d, row) # "ABSENT") /\ q[3][2] = "PARTIAL_OR_CONFLICTING_MATERIALIZATION"
      /\ (q[4][1] <=> several) /\ q[4][2] = "MULTIPLE_ACTIVE_LINKS"
  BY DEF Settled
<1>5. /\ (r[1][1] <=> On(d, row) # {}) /\ r[1][2] = "ALREADY_LINKED_OTHER_CONTEXT"
      /\ (r[2][1] <=> repeated) /\ r[2][2] = "HUBOID_REPEATED_ACROSS_CURRENT_SCOPES"
      /\ (r[3][1] <=> NameOf[row] \in Taken(d)) /\ r[3][2] = "CURRENT_PERSON_OR_ALIAS_COLLISION"
      /\ r[4][1] /\ r[4][2] = "CREATE"
  OBVIOUS
<1> HIDE DEF p, q, r
<1>0. {p[1], p[2], p[3], q[1], q[2], q[3], q[4], r[1], r[2], r[3], r[4]} \subseteq S
  OBVIOUS
<1> HIDE DEF S
<1>6. p \in Seq(S) /\ q \in Seq(S) /\ r \in Seq(S) /\ Len(p) = 3 /\ Len(q) = 4 /\ Len(r) = 4
  <2>1. /\ p[1] \in S /\ p[2] \in S /\ p[3] \in S
        /\ q[1] \in S /\ q[2] \in S /\ q[3] \in S /\ q[4] \in S
        /\ r[1] \in S /\ r[2] \in S /\ r[3] \in S /\ r[4] \in S
    BY <1>0
  <2> QED
    BY <1>1, <2>1, ListOfThree, ListOfFour, Zenon
<1> DEFINE f == First(p \o q \o r)
<1>7. /\ \A k : FirstAt(p, 3, k) => f = p[k][2]
      /\ (\A j \in 1 .. 3 : ~ p[j][1]) =>
           /\ \A k : FirstAt(q, 4, k) => f = q[k][2]
           /\ (\A j \in 1 .. 4 : ~ q[j][1]) =>
                \A k : FirstAt(r, 4, k) => f = r[k][2]
  <2>1. Lists(S, 3, p, q, r)
    BY <1>6 DEF Lists
  <2> HIDE DEF f
  <2>2. /\ \A k : FirstAt(p, 3, k) => First(p \o q \o r) = p[k][2]
        /\ (\A j \in 1 .. 3 : ~ p[j][1]) =>
             /\ \A k : FirstAt(q, 4, k) => First(p \o q \o r) = q[k][2]
             /\ (\A j \in 1 .. 4 : ~ q[j][1]) =>
                  \A k : FirstAt(r, 4, k) => First(p \o q \o r) = r[k][2]
    BY <2>1, FirstOfThree
  <2>3. f = First(p \o q \o r)
    BY DEF f
  <2> QED
    BY <2>2, <2>3
<1> HIDE DEF f
<1>8. /\ p[1][1] => f = p[1][2]
      /\ ~ p[1][1] /\ p[2][1] => f = p[2][2]
      /\ ~ p[1][1] /\ ~ p[2][1] /\ p[3][1] => f = p[3][2]
      /\ ~ p[1][1] /\ ~ p[2][1] /\ ~ p[3][1] =>
           /\ q[1][1] => f = q[1][2]
           /\ ~ q[1][1] /\ q[2][1] => f = q[2][2]
           /\ ~ q[1][1] /\ ~ q[2][1] /\ q[3][1] => f = q[3][2]
           /\ ~ q[1][1] /\ ~ q[2][1] /\ ~ q[3][1] /\ q[4][1] => f = q[4][2]
           /\ ~ q[1][1] /\ ~ q[2][1] /\ ~ q[3][1] /\ ~ q[4][1] =>
                /\ r[1][1] => f = r[1][2]
                /\ ~ r[1][1] /\ r[2][1] => f = r[2][2]
                /\ ~ r[1][1] /\ ~ r[2][1] /\ r[3][1] => f = r[3][2]
                /\ ~ r[1][1] /\ ~ r[2][1] /\ ~ r[3][1] /\ r[4][1] => f = r[4][2]
  BY <1>7 DEF FirstAt
<1>9. NecVerdict(d, seen, row) = f
  BY <1>2 DEF f
<1> HIDE DEF several, repeated
<1> QED
  BY <1>3, <1>4, <1>5, <1>8, <1>9 DEF several, repeated

-----------------------------------------------------------------------------
(* What a job reads while nobody else writes.                              *)

(* Nothing is lost by keeping what was read before.                        *)
LEMMA FetchedIsCurrent ==
  ASSUME NEW d, NEW rows
  PROVE  LET c == Current(d, rows)
             F(q) == Fetched(d, c, rows, q) IN
         /\ \A q : q \notin {"person", "listed"} => F(q) = c[q]
         /\ DOMAIN F("person") = DOMAIN d.person
         /\ \A p \in DOMAIN d.person : F("person")[p] = d.person[p]
         /\ F("listed") = c.listed
<1> DEFINE c == Current(d, rows)
           F(q) == Fetched(d, c, rows, q)
<1>1. c.active = [p \in Active(d) |-> d.person[p]] /\ c.claim = d.claim
      /\ c.listed = {row \in rows : Listed(d, row)}
  BY CurrentFields
<1>2. ASSUME NEW q, q \notin {"person", "listed"} PROVE F(q) = c[q]
  BY <1>2 DEF Fetched
<1> HIDE DEF c
<1>3. F("person") = PutAll(d.person, c.active)
  BY DEF Fetched
<1>4. Active(d) \subseteq DOMAIN d.person
  BY DEF Active
<1>5. /\ DOMAIN F("person") = DOMAIN d.person
      /\ \A p \in DOMAIN d.person : F("person")[p] = d.person[p]
  <2> HIDE DEF F
  <2> QED
    BY <1>1, <1>3, <1>4 DEF PutAll
<1>6. F("listed") = c.listed
  <2> DEFINE e == [claim |-> PutAll(d.claim, c.claim)]
  <2>1. e.claim = PutAll(d.claim, d.claim)
    BY <1>1
  <2>2. DOMAIN e.claim = DOMAIN d.claim /\ \A k \in DOMAIN d.claim : e.claim[k] = d.claim[k]
    <3> HIDE DEF e
    <3> QED
      BY <2>1 DEF PutAll
  <2>3. F("listed") = {row \in rows : Cardinality(Listing(d, row) \cap Listing(e, row)) = 1}
    BY DEF Fetched
  <2> HIDE DEF e, F
  <2>4. ASSUME NEW row PROVE Listing(d, row) \cap Listing(e, row) = Listing(d, row)
    BY <2>2 DEF Listing, Live, ClaimsAt
  <2> QED
    BY <1>1, <2>3, <2>4 DEF Listed
<1> QED
  BY <1>2, <1>5, <1>6 DEF c

(* A view whose fields are all of one moment.                              *)
AtOnce(d, rows, lane, view) ==
  /\ Verdicts \cup Sums \subseteq DOMAIN view
  /\ lane = "ALIO" => "listed" \in DOMAIN view
  /\ \A q \in DOMAIN view : view[q] = Fetched(d, Current(d, rows), rows, q)

LEMMA StateOfView ==
  ASSUME NEW d, NEW rows, NEW lane, NEW view, AtOnce(d, rows, lane, view), NEW row
  PROVE  /\ PacketState(view, row) = PacketState(Current(d, rows), row)
         /\ On(view, row) = On(Current(d, rows), row)
         /\ Taken(view) = Taken(Current(d, rows))
         /\ lane = "ALIO" => view.listed = Current(d, rows).listed
<1> DEFINE c == Current(d, rows)
<1>1. /\ \A q \in Verdicts \ {"person"} : view[q] = c[q]
      /\ lane = "ALIO" => view["listed"] = c.listed
      /\ DOMAIN view.person = DOMAIN d.person
      /\ \A p \in DOMAIN d.person : view.person[p] = d.person[p]
  BY FetchedIsCurrent DEF AtOnce, Verdicts
<1>2. /\ view.active = c.active /\ view.aliases = c.aliases /\ view.link = c.link
      /\ view.claim = c.claim /\ view.linked = c.linked
  BY <1>1 DEF Verdicts
<1>3. c.person = d.person
  BY CurrentFields
<1> HIDE DEF c
<1>4. PacketLinks(view, row) = PacketLinks(c, row)
  BY <1>2 DEF PacketLinks
<1>5. InForce(view, row) <=> InForce(c, row)
  BY <1>2, <1>4 DEF InForce
<1>6. Present(view, row) = Present(c, row)
  BY <1>1, <1>2, <1>3, <1>4 DEF Present
<1>7. PersonId(row) \in DOMAIN d.person => (Untouched(view, row) <=> Untouched(c, row))
  BY <1>1, <1>2, <1>3, <1>5 DEF Untouched
<1>8. PersonId(row) \notin DOMAIN d.person => FALSE \in Present(c, row)
  <2> DEFINE a == PersonId(row) \in DOMAIN c.person
             b == PacketId(row) \in DOMAIN c.claim
             e == PacketLinks(c, row) # {}
  <2>1. a \in BOOLEAN /\ Present(c, row) = {a, b, e} /\ a \in {a, b, e}
    BY DEF Present
  <2>2. a <=> PersonId(row) \in DOMAIN d.person
    BY <1>3
  <2> HIDE DEF a, b, e
  <2>3. ~ a => a = FALSE
    BY <2>1, Zenon
  <2>4. ~ a => FALSE \in Present(c, row)
    BY <2>1, <2>3, Zenon
  <2> QED
    BY <2>2, <2>4
<1>9. PacketState(view, row) = PacketState(c, row)
  BY <1>5, <1>6, <1>7, <1>8 DEF PacketState
<1>10. On(view, row) = On(c, row) /\ Taken(view) = Taken(c)
  BY <1>2 DEF On, Taken
<1> QED
  BY <1>1, <1>9, <1>10 DEF c

LEMMA VerdictOfView ==
  ASSUME NEW d, NEW rows, NEW view, NEW seen, AtOnce(d, rows, seen.lane, view), NEW row
  PROVE  Verdict(view, seen, row) = Verdict(Current(d, rows), seen, row)
<1> DEFINE c == Current(d, rows)
<1>1. /\ PacketState(view, row) = PacketState(c, row)
      /\ On(view, row) = On(c, row) /\ Taken(view) = Taken(c)
      /\ seen.lane = "ALIO" => view.listed = c.listed
  BY StateOfView
<1> HIDE DEF c
<1>2. CASE seen.lane = "ALIO"
  <2>1. AlioVerdict(view, seen, row) = AlioVerdict(c, seen, row)
    BY <1>1, <1>2, AlioChain
  <2> QED
    BY <1>2, <2>1 DEF Verdict, c
<1>3. CASE seen.lane # "ALIO"
  <2>1. NecVerdict(view, seen, row) = NecVerdict(c, seen, row)
    BY <1>1, NecChain
  <2> QED
    BY <1>3, <2>1 DEF Verdict, c
<1> QED
  BY <1>2, <1>3

(* Who has asked everything under the locks knows what the rows say.       *)
LEMMA CountedIsCurrent ==
  ASSUME Inv, NEW w \in locked, Counted(w)
  PROVE  LET rows == job[w].seen.rows IN
         /\ Creates(job[w].view, job[w].seen) = Creates(Current(db, rows), job[w].seen)
         /\ \A t \in Sums : job[w].view[t] = Totals(db)[t]
<1> DEFINE view == job[w].view
           seen == job[w].seen
           rows == seen.rows
<1>1. w \in DOMAIN job /\ InOrder(seen.lane, view) /\ "published" \in DOMAIN view
  BY DEF Inv, JobInv, Counted
<1>2. \A q \in DOMAIN view : view[q] = Fetched(db, Current(db, rows), rows, q)
  BY DEF Inv, FreshInv
<1>3. AtOnce(db, rows, seen.lane, view)
  BY <1>1, <1>2, AllAsked DEF AtOnce
<1>4. ASSUME NEW row PROVE Verdict(view, seen, row) = Verdict(Current(db, rows), seen, row)
  BY <1>3, VerdictOfView
<1>5. Creates(view, seen) = Creates(Current(db, rows), seen)
  BY <1>4 DEF Creates
<1>6. ASSUME NEW t \in Sums PROVE view[t] = Totals(db)[t]
  <2>1. t \in DOMAIN view /\ t \notin {"person", "listed"}
    BY <1>3 DEF AtOnce, Sums
  <2>2. view[t] = Current(db, rows)[t]
    BY <1>2, <2>1, FetchedIsCurrent
  <2> QED
    BY <2>2, CurrentSums
<1> QED
  BY <1>5, <1>6

-----------------------------------------------------------------------------
(* Commits.                                                                *)

LEMMA InitInv == Init => Inv
  BY DEF Init, Inv, JobInv, LockInv, FreshInv

(* A new job has nothing behind it.                                        *)
LEMMA NothingAsked ==
  ASSUME NEW lane
  PROVE  InOrder(lane, <<>>) /\ DOMAIN <<>> = {}
<1>1. DOMAIN <<>> = {}
  OBVIOUS
<1>2. IsFiniteSet({}) /\ Cardinality({}) = 0
  BY FS_EmptySet
<1>3. Len(Queries(lane)) \in Nat
  BY QueryList
<1> QED
  BY <1>1, <1>2, <1>3 DEF InOrder

LEMMA Started ==
  ASSUME Inv, NEW w \in Workers, NEW lane, NEW scopes, NEW expected,
         Start(w, lane, scopes, expected),
         \/ locked' = locked /\ expected = {}
         \/ locked = {} /\ locked' = {w} /\ expected # {} /\ expected \subseteq shown
  PROVE  Inv'
<1> DEFINE j == Job(lane, scopes, expected)
<1>1. /\ DOMAIN j = Fields /\ j.expected = expected
      /\ j.view = <<>> /\ j.seen.lane = lane
  BY DEF Job, Fields
<1>2. /\ DOMAIN job' = DOMAIN job \cup {w} /\ job'[w] = j
      /\ \A v \in DOMAIN job : job'[v] = job[v]
  BY DEF Start, Put
<1>3. w \notin DOMAIN job /\ UNCHANGED <<db, shown>>
  BY DEF Start
<1> HIDE DEF j
<1>4. DOMAIN j.view = {} /\ InOrder(j.seen.lane, j.view)
  BY <1>1, NothingAsked
<1>5. JobInv'
  BY <1>1, <1>2, <1>3, <1>4 DEF Inv, JobInv
<1>6. LockInv'
  BY <1>1, <1>2, <1>3 DEF Inv, JobInv, LockInv
<1>7. FreshInv'
  BY <1>1, <1>2, <1>3, <1>4 DEF Inv, JobInv, LockInv, FreshInv
<1> QED BY <1>5, <1>6, <1>7 DEF Inv

(* A job that ends leaves nobody with the locks but who had them.          *)
LEMMA Left ==
  ASSUME Inv, NEW w \in DOMAIN job, Leave(w),
         shown \subseteq shown', db' = db \/ w \in locked
  PROVE  Inv'
<1>1. /\ DOMAIN job' = DOMAIN job \ {w} /\ locked' = locked \ {w}
      /\ \A v \in DOMAIN job \ {w} : job'[v] = job[v]
  BY DEF Leave, Restrict
<1>2. JobInv'
  BY <1>1 DEF Inv, JobInv
<1>3. LockInv'
  BY <1>1 DEF Inv, JobInv, LockInv
<1>4. FreshInv'
  BY <1>1 DEF Inv, JobInv, LockInv, FreshInv
<1> QED BY <1>2, <1>3, <1>4 DEF Inv

(* A step that reads changes one job, and nothing of what the job is for.  *)
Reads(w, e) ==
  /\ w \in DOMAIN job
  /\ DOMAIN job' = DOMAIN job /\ job'[w] = e /\ DOMAIN e = Fields
  /\ \A v \in DOMAIN job \ {w} : job'[v] = job[v]
  /\ e.scopes = job[w].scopes /\ e.expected = job[w].expected
  /\ UNCHANGED <<site, db, roster, stored, locked, shown>>

LEMMA CheckpointReads ==
  ASSUME Inv, NEW w, NEW s, ReadCheckpoint(w, s), ~ Halt(w)
  PROVE  /\ s \in job[w].todo /\ job[w].open = {}
         /\ roster[s] # None /\ (s = AlioScope => roster[s].trusted)
         /\ \E e : /\ Reads(w, e) /\ e.todo = job[w].todo \ {s} /\ e.open = {s}
                   /\ e.seen = SeenWith(job[w].seen, roster[s]) /\ e.view = job[w].view
<1> DEFINE e == [job[w] EXCEPT !.todo = @ \ {s}, !.open = {s},
                               !.seen = SeenWith(@, roster[s])]
<1>1. ~ (roster[s] = None \/ (s = AlioScope /\ ~ roster[s].trusted))
  BY DEF ReadCheckpoint
<1>2. /\ w \in DOMAIN job /\ s \in job[w].todo /\ job[w].open = {}
      /\ job' = [job EXCEPT ![w] = e]
      /\ UNCHANGED <<site, db, roster, stored, locked, shown>>
  BY <1>1 DEF ReadCheckpoint
<1>3. DOMAIN job[w] = Fields
  BY <1>2 DEF Inv, JobInv
<1>4. /\ DOMAIN e = Fields /\ e.scopes = job[w].scopes /\ e.expected = job[w].expected
      /\ e.todo = job[w].todo \ {s} /\ e.open = {s}
      /\ e.seen = SeenWith(job[w].seen, roster[s]) /\ e.view = job[w].view
  BY <1>3 DEF Fields
<1> HIDE DEF e
<1>5. Reads(w, e)
  BY <1>2, <1>4 DEF Reads
<1> QED
  BY <1>1, <1>2, <1>4, <1>5

(* The rows of the scope in hand that have another version by now.         *)
Drifting(w) ==
  {row \in job[w].seen.rows : ScopeOf[row] \in job[w].open /\ Drifted(row, stored)}

LEMMA StoredReads ==
  ASSUME Inv, NEW w, ReadStored(w)
  PROVE  /\ job[w].open # {}
         /\ \E e : /\ Reads(w, e) /\ e.todo = job[w].todo /\ e.open = {}
                   /\ e.seen = [job[w].seen EXCEPT !.drifted = @ \cup Drifting(w)]
                   /\ e.view = job[w].view
<1> DEFINE e == [job[w] EXCEPT !.open = {},
                               !.seen = [job[w].seen EXCEPT !.drifted = @ \cup Drifting(w)]]
<1>1. /\ w \in DOMAIN job /\ job[w].open # {}
      /\ UNCHANGED <<site, db, roster, stored, locked, shown>>
  BY DEF ReadStored
<1>2. DOMAIN job[w] = Fields
  BY <1>1 DEF Inv, JobInv
<1>3. job' = [job EXCEPT ![w] = e]
  BY <1>2 DEF ReadStored, Drifting, Fields
<1>4. /\ DOMAIN e = Fields /\ e.scopes = job[w].scopes /\ e.expected = job[w].expected
      /\ e.todo = job[w].todo /\ e.open = {} /\ e.view = job[w].view
      /\ e.seen = [job[w].seen EXCEPT !.drifted = @ \cup Drifting(w)]
  BY <1>2 DEF Fields
<1> HIDE DEF e
<1>5. Reads(w, e)
  BY <1>1, <1>3, <1>4 DEF Reads
<1> QED
  BY <1>1, <1>4, <1>5

LEMMA QueryReads ==
  ASSUME Inv, NEW w, Read(w)
  PROVE  /\ job[w].todo = {} /\ job[w].open = {}
         /\ \E e : /\ Reads(w, e) /\ e.todo = {} /\ e.open = {} /\ e.seen = job[w].seen
                   /\ InOrder(e.seen.lane, e.view)
                   /\ \E q : /\ DOMAIN e.view = DOMAIN job[w].view \cup {q}
                             /\ e.view[q] = Fetched(db, job[w].view, job[w].seen.rows, q)
                             /\ \A r \in DOMAIN job[w].view : e.view[r] = job[w].view[r]
                             /\ q = "person" => "active" \in DOMAIN job[w].view
                             /\ q = "listed" => "claim" \in DOMAIN job[w].view
<1> DEFINE view == job[w].view
           lane == job[w].seen.lane
           i == Cardinality(DOMAIN view) + 1
           q == Queries(lane)[i]
           value == Fetched(db, view, job[w].seen.rows, q)
           next == Put(view, q, value)
           e == [job[w] EXCEPT !.view = next]
<1>1. /\ w \in DOMAIN job /\ job[w].todo = {} /\ job[w].open = {}
      /\ i \in DOMAIN Queries(lane)
      /\ job' = [job EXCEPT ![w] = e]
      /\ UNCHANGED <<site, db, roster, stored, locked, shown>>
  BY DEF Read
<1>2. DOMAIN job[w] = Fields /\ InOrder(lane, view)
  BY <1>1 DEF Inv, JobInv
<1>3. /\ InOrder(lane, next) /\ DOMAIN next = DOMAIN view \cup {q}
      /\ next[q] = value /\ \A r \in DOMAIN view : next[r] = view[r]
      /\ q = "person" => "active" \in DOMAIN view
      /\ q = "listed" => "claim" \in DOMAIN view
  <2> HIDE DEF value, view
  <2> QED
    BY <1>1, <1>2, NextQuery
<1> HIDE DEF next
<1>4. /\ DOMAIN e = Fields /\ e.scopes = job[w].scopes /\ e.expected = job[w].expected
      /\ e.todo = {} /\ e.open = {} /\ e.seen = job[w].seen /\ e.view = next
  BY <1>1, <1>2 DEF Fields
<1> HIDE DEF e
<1>5. Reads(w, e)
  BY <1>1, <1>4 DEF Reads
<1> HIDE DEF q, value
<1>6. DOMAIN e.view = DOMAIN view \cup {q} /\ e.view[q] = value
  BY <1>3, <1>4
<1> QED
  BY <1>1, <1>3, <1>4, <1>5, <1>6 DEF value

(* What keeps the order of its queries and reads what the rows say.        *)
LEMMA ReadsKeepInv ==
  ASSUME Inv, NEW w, NEW e, Reads(w, e),
         e.todo # {} \/ e.open # {} => DOMAIN e.view = {},
         InOrder(e.seen.lane, e.view),
         w \in locked => \A q \in DOMAIN e.view :
           e.view[q] = Fetched(db, Current(db, e.seen.rows), e.seen.rows, q)
  PROVE  Inv'
<1>1. JobInv'
  BY DEF Inv, JobInv, Reads
<1>2. LockInv'
  BY DEF Inv, JobInv, LockInv, Reads
<1>3. FreshInv'
  <2> SUFFICES ASSUME NEW v \in locked
               PROVE  /\ job'[v].expected \subseteq shown
                      /\ \A q \in DOMAIN job'[v].view :
                           job'[v].view[q] = Fetched(db, Current(db, job'[v].seen.rows), job'[v].seen.rows, q)
    BY DEF FreshInv, Reads
  <2>1. CASE v = w
    BY <2>1 DEF Inv, FreshInv, Reads
  <2>2. CASE v # w
    <3>1. job'[v] = job[v]
      BY <2>2 DEF Inv, JobInv, Reads
    <3> QED
      BY <3>1 DEF Inv, FreshInv
  <2> QED
    BY <2>1, <2>2
<1> QED
  BY <1>1, <1>2, <1>3 DEF Inv

LEMMA NextInv == ASSUME Inv, [Next]_vars PROVE Inv'
<1>1. CASE UNCHANGED vars
  BY <1>1 DEF vars, Inv, JobInv, LockInv, FreshInv
<1>2. ASSUME NEW s \in Scopes, Collect(s) PROVE Inv'
  BY <1>2 DEF Collect, Inv, JobInv, LockInv, FreshInv
<1>3. ASSUME NEW row \in AlioRows, Import(row) PROVE Inv'
  BY <1>3 DEF Import, Inv, JobInv, LockInv, FreshInv
<1>4. CASE Command
  BY <1>4 DEF Command, Inv, JobInv, LockInv, FreshInv
<1>5. ASSUME NEW w \in Workers, DryRun(w) PROVE Inv'
  BY <1>5, Started DEF DryRun
<1>6. ASSUME NEW w \in Workers, Commit(w) PROVE Inv'
  BY <1>6, Started DEF Commit, LocksFree
<1>7. ASSUME NEW w \in Workers, Halt(w) PROVE Inv'
  BY <1>7, Left DEF Halt
<1>8. ASSUME NEW w \in Workers, NEW s \in Scopes, ReadCheckpoint(w, s) PROVE Inv'
  <2>1. CASE Halt(w)
    BY <2>1, <1>7
  <2>2. CASE ~ Halt(w)
    <3>1. s \in job[w].todo
      BY <1>8, <2>2, CheckpointReads
    <3>2. PICK e : /\ Reads(w, e) /\ e.seen = SeenWith(job[w].seen, roster[s])
                   /\ e.view = job[w].view
      BY <1>8, <2>2, CheckpointReads
    <3>3. DOMAIN e.view = {} /\ InOrder(job[w].seen.lane, e.view)
      BY <3>1, <3>2 DEF Inv, JobInv, Reads
    <3>4. InOrder(e.seen.lane, e.view)
      <4>1. \A lane : InOrder(lane, e.view)
        <5>1. Cardinality({}) = 0 /\ \A lane : Len(Queries(lane)) \in Nat
          BY FS_EmptySet, QueryList
        <5> QED
          BY <3>3, <5>1 DEF InOrder
      <4> QED
        BY <4>1
    <3> QED
      BY <3>2, <3>3, <3>4, ReadsKeepInv
  <2> QED BY <2>1, <2>2
<1>9. ASSUME NEW w \in Workers, ReadStored(w) PROVE Inv'
  <2>1. job[w].open # {}
    BY <1>9, StoredReads
  <2>2. PICK e : /\ Reads(w, e) /\ e.seen = [job[w].seen EXCEPT !.drifted = @ \cup Drifting(w)]
                 /\ e.view = job[w].view
    BY <1>9, StoredReads
  <2>3. DOMAIN e.view = {} /\ InOrder(job[w].seen.lane, e.view)
    BY <2>1, <2>2 DEF Inv, JobInv, Reads
  <2>4. e.seen.lane = job[w].seen.lane
    BY <2>2
  <2> QED
    BY <2>2, <2>3, <2>4, ReadsKeepInv
<1>10. ASSUME NEW w \in Workers, Read(w) PROVE Inv'
  <2>1. PICK e :
          /\ Reads(w, e) /\ e.todo = {} /\ e.open = {} /\ e.seen = job[w].seen
          /\ InOrder(e.seen.lane, e.view)
          /\ \E q : /\ DOMAIN e.view = DOMAIN job[w].view \cup {q}
                    /\ e.view[q] = Fetched(db, job[w].view, job[w].seen.rows, q)
                    /\ \A r \in DOMAIN job[w].view : e.view[r] = job[w].view[r]
                    /\ q = "person" => "active" \in DOMAIN job[w].view
                    /\ q = "listed" => "claim" \in DOMAIN job[w].view
    BY <1>10, QueryReads
  <2>2. PICK q : /\ DOMAIN e.view = DOMAIN job[w].view \cup {q}
                 /\ e.view[q] = Fetched(db, job[w].view, job[w].seen.rows, q)
                 /\ \A r \in DOMAIN job[w].view : e.view[r] = job[w].view[r]
                 /\ q = "person" => "active" \in DOMAIN job[w].view
                 /\ q = "listed" => "claim" \in DOMAIN job[w].view
    BY <2>1
  <2> DEFINE rows == job[w].seen.rows
             view == job[w].view
             c == Current(db, rows)
  <2>3. ASSUME w \in locked, NEW r \in DOMAIN e.view PROVE e.view[r] = Fetched(db, c, rows, r)
    <3>1. \A x \in DOMAIN view : view[x] = Fetched(db, c, rows, x)
      BY <2>3 DEF Inv, FreshInv
    <3>2. "active" \in DOMAIN view => view.active = c.active
      BY <3>1, FetchedIsCurrent
    <3>3. "claim" \in DOMAIN view => view.claim = c.claim
      BY <3>1, FetchedIsCurrent
    <3>4. Fetched(db, view, rows, q) = Fetched(db, c, rows, q)
      <4> HIDE DEF view, c
      <4>1. q = "person" => view.active = c.active
        BY <2>2, <3>2 DEF view
      <4>2. q = "listed" => view.claim = c.claim
        BY <2>2, <3>3 DEF view
      <4> QED
        BY <4>1, <4>2 DEF Fetched
    <3> QED
      BY <2>2, <3>1, <3>4
  <2> QED
    BY <2>1, <2>3, ReadsKeepInv
<1>11. ASSUME NEW w \in Workers, Show(w) PROVE Inv'
  BY <1>11, Left DEF Show, Counted
<1>12. ASSUME NEW w \in Workers, Decline(w) PROVE Inv'
  BY <1>12, <1>7 DEF Decline
<1>13. ASSUME NEW w \in Workers, Persist(w) PROVE Inv'
  BY <1>13, Left DEF Persist, Counted, Inv, LockInv
<1> QED BY <1>1, <1>2, <1>3, <1>4, <1>5, <1>6, <1>7, <1>8, <1>9, <1>10, <1>11, <1>12, <1>13 DEF Next

-----------------------------------------------------------------------------

\* What the rows to create are, as the rows stand.
Due(w) == Creates(Current(db, job[w].seen.rows), job[w].seen)

(* A commit that writes is the only holder of the locks, and its receipt   *)
(* tells what the rows say now.                                            *)
LEMMA PersistWrites ==
  ASSUME Inv, NEW w \in Workers, Persist(w)
  PROVE  /\ w \in locked /\ locked' = {} /\ db' = Persisted(db, Due(w))
         /\ \E r \in job[w].expected \cap shown :
            /\ r.selected = Creates(Current(db, job[w].seen.rows), job[w].seen)
            /\ r.totals = Totals(db)
            /\ db' = Persisted(db, r.selected)
<1> DEFINE r == Receipt(job[w])
<1>1. /\ w \in DOMAIN job /\ Counted(w) /\ job[w].expected # {}
      /\ r \in job[w].expected
      /\ db' = Persisted(db, Creates(job[w].view, job[w].seen))
      /\ locked' = locked \ {w}
  BY DEF Persist, Counted, Matches, Leave
<1>2. w \in locked /\ locked' = {}
  BY <1>1 DEF Inv, LockInv
<1>3. r \in shown
  BY <1>1, <1>2 DEF Inv, FreshInv
<1>4. /\ Creates(job[w].view, job[w].seen) = Due(w)
      /\ \A t \in Sums : job[w].view[t] = Totals(db)[t]
  BY <1>1, <1>2, CountedIsCurrent DEF Due
<1>5. r.totals = [t \in Sums |-> job[w].view[t]] /\ r.selected = Creates(job[w].view, job[w].seen)
  BY DEF Receipt, Sums
<1>6. Totals(db) = [t \in Sums |-> Totals(db)[t]]
  BY DEF Totals, Sums
<1>7. r.totals = Totals(db)
  BY <1>4, <1>5, <1>6
<1> HIDE DEF r
<1> QED BY <1>1, <1>2, <1>3, <1>4, <1>5, <1>7 DEF Due

LEMMA OnlyCommitsWrite ==
  ASSUME Inv, [Next]_vars, locked # {}, db' # db
  PROVE  \E w \in Workers : Persist(w)
<1>1. ~ UNCHANGED vars
  BY DEF vars
<1>2. ~ Command
  BY DEF Command
<1>3. \A s \in Scopes : ~ Collect(s)
  BY DEF Collect
<1>4. \A row \in AlioRows : ~ Import(row)
  BY DEF Import
<1>5. ASSUME NEW w \in Workers PROVE ~ (DryRun(w) \/ Commit(w))
  BY DEF DryRun, Commit, Start
<1>6. ASSUME NEW w \in Workers PROVE ~ (Halt(w) \/ Decline(w) \/ Show(w))
  BY DEF Halt, Decline, Show
<1>7. ASSUME NEW w \in Workers, NEW s \in Scopes PROVE ~ ReadCheckpoint(w, s)
  BY <1>6 DEF ReadCheckpoint
<1>8. ASSUME NEW w \in Workers PROVE ~ (ReadStored(w) \/ Read(w))
  BY DEF ReadStored, Read
<1> QED BY <1>1, <1>2, <1>3, <1>4, <1>5, <1>6, <1>7, <1>8 DEF Next

(* The two lanes exclude each other: at most one commit holds the locks,   *)
(* no commit runs without them, and each answer it has got still holds.    *)
THEOREM CommitsAreFresh == Spec => []Inv
  BY InitInv, NextInv, PTL DEF Spec

(* Whatever workers, operators and collectors do at once, while a commit   *)
(* holds the locks the rows change by its own write alone, and that is the *)
(* selection of a receipt somebody was shown, on the totals it gave.       *)
THEOREM ShownIsAllThatIsWritten == Spec => OnlyShownWrites
<1>1. Inv /\ [Next]_vars =>
        [locked # {} /\ db' # db =>
           \E w \in locked : \E r \in job[w].expected \cap shown :
             /\ r.selected = Creates(Current(db, job[w].seen.rows), job[w].seen)
             /\ r.totals = Totals(db)
             /\ db' = Persisted(db, r.selected)
             /\ locked' = {}]_vars
  BY OnlyCommitsWrite, PersistWrites
<1> QED BY <1>1, CommitsAreFresh, PTL DEF Spec, OnlyShownWrites

-----------------------------------------------------------------------------
(* Where rows come from.                                                   *)

OfScope(s) == {row \in Rows : ScopeOf[row] = s}

\* What a scope lists are rows of its own, and all of them were collected.
RosterInv ==
  /\ DOMAIN roster = Scopes /\ DOMAIN site.listings = Scopes
  /\ stored \subseteq Rows
  /\ \A s \in Scopes :
       /\ roster[s] # None => roster[s].rows \subseteq OfScope(s) \cap stored
       /\ \A rows \in site.listings[s] : rows \subseteq OfScope(s)

LEMMA InitRosters == Init => RosterInv
<1> SUFFICES ASSUME Init PROVE RosterInv
  OBVIOUS
<1> USE DEF Init
<1>1. /\ DOMAIN site.roster = Scopes /\ DOMAIN site.listings = Scopes
      /\ \A c \in Scopes : \A rows \in site.listings[c] \cup {site.roster[c]} :
           rows \subseteq OfScope(c)
  BY SitesAssumption DEF OfScope
<1>2. \A c \in Scopes : site.roster[c] \subseteq OfScope(c) /\ site.roster[c] \subseteq stored
  BY <1>1 DEF Range
<1>3. stored \subseteq Rows
  BY <1>1, <1>2 DEF Range, OfScope
<1>4. \A s \in Scopes : roster[s].rows = site.roster[s]
  OBVIOUS
<1> QED
  BY <1>1, <1>2, <1>3, <1>4 DEF RosterInv

(* The number of things that may still happen, and nothing else of a site, *)
(* changes.                                                                *)
LEMMA OnlyCollectionsList ==
  ASSUME [Next]_vars
  PROVE  \/ UNCHANGED <<roster, stored>> /\ site'.listings = site.listings
         \/ \E s \in Scopes : Collect(s)
<1> DEFINE Same == UNCHANGED <<roster, stored>> /\ site'.listings = site.listings
<1>1. CASE UNCHANGED vars
  BY <1>1 DEF vars
<1>2. ASSUME NEW row \in AlioRows, Import(row) PROVE Same
  BY <1>2 DEF Import
<1>3. CASE Command
  BY <1>3 DEF Command
<1>4. ASSUME NEW v \in Workers, DryRun(v) \/ Commit(v) PROVE Same
  <2>1. ASSUME NEW lane, NEW scopes, NEW expected, Start(v, lane, scopes, expected) PROVE Same
    BY <2>1 DEF Start
  <2> HIDE DEF Same
  <2> QED
    BY <1>4, <2>1 DEF DryRun, Commit
<1>5. ASSUME NEW v \in Workers, Halt(v) PROVE Same
  BY <1>5 DEF Halt, Leave
<1>6. ASSUME NEW v \in Workers, NEW s \in Scopes, ReadCheckpoint(v, s) PROVE Same
  BY <1>6, <1>5 DEF ReadCheckpoint
<1>7. ASSUME NEW v \in Workers, ReadStored(v) \/ Read(v) \/ Show(v) \/ Decline(v) \/ Persist(v) PROVE Same
  BY <1>7, <1>5 DEF ReadStored, Read, Show, Decline, Persist, Leave
<1> QED
  BY <1>1, <1>2, <1>3, <1>4, <1>5, <1>6, <1>7 DEF Next

LEMMA NextRosters == ASSUME RosterInv, [Next]_vars PROVE RosterInv'
<1>1. CASE UNCHANGED <<roster, stored>> /\ site'.listings = site.listings
  BY <1>1 DEF RosterInv
<1>2. ASSUME NEW s \in Scopes, Collect(s) PROVE RosterInv'
  <2>1. PICK rows \in site.listings[s] :
          /\ stored' = stored \cup rows
          /\ \E seen \in {None} \cup [rows : {rows}, trusted : BOOLEAN] :
               roster' = [roster EXCEPT ![s] = seen]
    BY <1>2 DEF Collect
  <2>2. PICK seen \in {None} \cup [rows : {rows}, trusted : BOOLEAN] :
          roster' = [roster EXCEPT ![s] = seen]
    BY <2>1
  <2>3. site' = [site EXCEPT !.runs = @ - 1]
    BY <1>2 DEF Collect
  <2>4. site'.listings = site.listings
    BY <2>3
  <2>5. rows \subseteq OfScope(s) /\ rows \subseteq Rows
    BY DEF RosterInv, OfScope
  <2>6. seen # None => seen.rows = rows
    OBVIOUS
  <2>7. DOMAIN roster' = Scopes /\ roster'[s] = seen /\ \A c \in Scopes \ {s} : roster'[c] = roster[c]
    BY <2>2 DEF RosterInv
  <2> QED
    BY <2>1, <2>4, <2>5, <2>6, <2>7 DEF RosterInv
<1> QED
  BY <1>1, <1>2, OnlyCollectionsList

LEMMA RostersAreOwn == Spec => []RosterInv
  BY InitRosters, NextRosters, PTL DEF Spec

-----------------------------------------------------------------------------
(* What a write leaves in order.                                           *)

Tables == {"claim", "person", "link", "review"}
ClaimFields == {"kind", "subject", "row", "origin", "status", "live"}
PersonFields == {"name", "aliases", "status", "active"}
LinkFields == {"id", "person", "row", "how", "live"}

ClaimsFormed(claim, person, rows) ==
  /\ IsFiniteSet(DOMAIN claim)
  /\ \A c \in DOMAIN claim : /\ DOMAIN claim[c] = ClaimFields
                             /\ claim[c].subject \in DOMAIN person \cup {Org}
                             /\ claim[c].row \in rows
PersonsFormed(person) ==
  /\ IsFiniteSet(DOMAIN person)
  /\ \A p \in DOMAIN person : DOMAIN person[p] = PersonFields
LinksFormed(link, person, rows) ==
  /\ IsFiniteSet(link)
  /\ \A l \in link : DOMAIN l = LinkFields /\ l.person \in DOMAIN person /\ l.row \in rows

LEMMA ImagesAreFinite ==
  ASSUME NEW S, IsFiniteSet(S), NEW f, f = [x \in S |-> f[x]]
  PROVE  IsFiniteSet({f[x] : x \in S})
<1>1. f \in Surjection(S, {f[x] : x \in S})
  BY DEF Surjection
<1> QED
  BY <1>1, FS_Surjection, Zenon

\* The rows have their columns and refer to rows there are.
Formed(d, rows) ==
  /\ DOMAIN d = Tables
  /\ ClaimsFormed(d.claim, d.person, rows)
  /\ PersonsFormed(d.person)
  /\ LinksFormed(d.link, d.person, rows)

\* No row of d is gone in e, and what is new is not the batch's.
Kept(d, e) ==
  /\ DOMAIN d.claim \subseteq DOMAIN e.claim /\ DOMAIN d.person \subseteq DOMAIN e.person
  /\ \A l \in d.link : \E m \in e.link : m.id = l.id
  /\ \A c \in DOMAIN e.claim \ DOMAIN d.claim : c[1] # Batch
  /\ \A p \in DOMAIN e.person \ DOMAIN d.person : p[1] # Batch

LEMMA SoundIsFormed ==
  ASSUME NEW d, NEW rows, Sound(d, rows)
  PROVE  Formed(d, rows)
  BY DEF Sound, Formed, ClaimsFormed, PersonsFormed, LinksFormed, Tables, ClaimFields,
         PersonFields, LinkFields

\* All three parts of a packet are there.
Whole(d, row) ==
  PersonId(row) \in DOMAIN d.person /\ PacketId(row) \in DOMAIN d.claim /\ PacketLinks(d, row) # {}

LEMMA WholeIsPresent ==
  ASSUME NEW d, NEW row
  PROVE  Present(d, row) = {TRUE} <=> Whole(d, row)
<1> DEFINE a == PersonId(row) \in DOMAIN d.person
           b == PacketId(row) \in DOMAIN d.claim
           c == PacketLinks(d, row) # {}
<1>1. a \in BOOLEAN /\ b \in BOOLEAN /\ c \in BOOLEAN
  OBVIOUS
<1>2. Present(d, row) = {a, b, c}
  BY DEF Present
<1>3. Whole(d, row) <=> a /\ b /\ c
  BY DEF Whole
<1> HIDE DEF a, b, c
<1>4. {a, b, c} = {TRUE} <=> a /\ b /\ c
  BY <1>1, Zenon
<1> QED
  BY <1>2, <1>3, <1>4, Zenon

LEMMA WholeAgain ==
  ASSUME NEW d, NEW e, NEW row, Present(d, row) = {TRUE},
         DOMAIN d.claim \subseteq DOMAIN e.claim, DOMAIN d.person \subseteq DOMAIN e.person,
         \A l \in d.link : \E m \in e.link : m.id = l.id
  PROVE  Present(e, row) = {TRUE}
<1>1. Whole(d, row)
  BY WholeIsPresent
<1>2. PacketLinks(e, row) # {}
  BY <1>1 DEF PacketLinks, Whole
<1>3. Whole(e, row)
  BY <1>1, <1>2 DEF Whole
<1> QED
  BY <1>3, WholeIsPresent

LEMMA KeptIsSound ==
  ASSUME NEW d, NEW e, NEW rows, Sound(d, rows), Formed(e, rows), Kept(d, e)
  PROVE  Sound(e, rows)
<1>1. /\ DOMAIN e = {"claim", "person", "link", "review"}
      /\ IsFiniteSet(DOMAIN e.claim) /\ IsFiniteSet(DOMAIN e.person) /\ IsFiniteSet(e.link)
      /\ \A c \in DOMAIN e.claim :
           /\ DOMAIN e.claim[c] = {"kind", "subject", "row", "origin", "status", "live"}
           /\ e.claim[c].subject \in DOMAIN e.person \cup {Org} /\ e.claim[c].row \in rows
      /\ \A p \in DOMAIN e.person :
           DOMAIN e.person[p] = {"name", "aliases", "status", "active"}
      /\ \A l \in e.link :
           /\ DOMAIN l = {"id", "person", "row", "how", "live"}
           /\ l.person \in DOMAIN e.person /\ l.row \in rows
  BY DEF Formed, ClaimsFormed, PersonsFormed, LinksFormed, Tables, ClaimFields, PersonFields, LinkFields
<1>2. ASSUME NEW p \in Batches(e)
      PROVE  \E row \in rows : PersonId(row) = p /\ Present(e, row) = {TRUE}
  <2>1. p \in Batches(d)
    BY DEF Kept, Batches
  <2>2. PICK row \in rows : PersonId(row) = p /\ Present(d, row) = {TRUE}
    BY <2>1 DEF Sound
  <2>3. Present(e, row) = {TRUE}
    BY <2>2, WholeAgain DEF Kept
  <2> QED
    BY <2>2, <2>3
<1>3. ASSUME NEW k \in Packets(e) PROVE \E row \in rows : k = PacketId(row)
  <2>1. k \in Packets(d)
    BY DEF Kept, Packets
  <2> QED
    BY <2>1 DEF Sound
<1> QED
  BY <1>1, <1>2, <1>3 DEF Sound

LEMMA KeptTwice ==
  ASSUME NEW d, NEW a, NEW e, Kept(d, a), Kept(a, e)
  PROVE  Kept(d, e)
<1>1. ASSUME NEW l \in d.link PROVE \E m \in e.link : m.id = l.id
  <2>1. PICK m \in a.link : m.id = l.id
    BY DEF Kept
  <2>2. PICK q \in e.link : q.id = m.id
    BY DEF Kept
  <2> QED
    BY <2>1, <2>2
<1> QED
  BY <1>1 DEF Kept

\* What becomes of a database that a write leaves in order.
After(d, e, rows) == Formed(e, rows) /\ Kept(d, e)

LEMMA MarkedAfter ==
  ASSUME NEW rows, NEW a, Formed(a, rows), NEW cs, NEW status
  PROVE  After(a, Marked(a, cs, status), rows)
<1> DEFINE e == Marked(a, cs, status)
<1>1. /\ DOMAIN e = Tables /\ e.person = a.person /\ e.link = a.link
      /\ DOMAIN e.claim = DOMAIN a.claim
      /\ \A c \in DOMAIN a.claim :
           e.claim[c] = IF c \in cs THEN [a.claim[c] EXCEPT !.status = status] ELSE a.claim[c]
  BY DEF Marked, Formed, Tables
<1> HIDE DEF e
<1>2. \A c \in DOMAIN a.claim : /\ DOMAIN e.claim[c] = DOMAIN a.claim[c]
                                /\ DOMAIN a.claim[c] = ClaimFields => e.claim[c].subject = a.claim[c].subject
                                /\ DOMAIN a.claim[c] = ClaimFields => e.claim[c].row = a.claim[c].row
  BY <1>1 DEF ClaimFields
<1>3. ClaimsFormed(e.claim, e.person, rows)
  BY <1>1, <1>2 DEF Formed, ClaimsFormed
<1> QED
  BY <1>1, <1>3 DEF After, Formed, Kept, PersonsFormed, LinksFormed, e

LEMMA SupersededAfter ==
  ASSUME NEW rows, NEW a, Formed(a, rows), NEW cs
  PROVE  After(a, Superseded(a, cs), rows)
<1> DEFINE e == Superseded(a, cs)
<1>1. /\ DOMAIN e = Tables /\ e.person = a.person /\ e.link = a.link
      /\ DOMAIN e.claim = DOMAIN a.claim
      /\ \A c \in DOMAIN a.claim :
           e.claim[c] = IF c \in cs THEN [a.claim[c] EXCEPT !.live = FALSE] ELSE a.claim[c]
  BY DEF Superseded, Formed, Tables
<1> HIDE DEF e
<1>2. \A c \in DOMAIN a.claim : /\ DOMAIN e.claim[c] = DOMAIN a.claim[c]
                                /\ DOMAIN a.claim[c] = ClaimFields => e.claim[c].subject = a.claim[c].subject
                                /\ DOMAIN a.claim[c] = ClaimFields => e.claim[c].row = a.claim[c].row
  BY <1>1 DEF ClaimFields
<1>3. ClaimsFormed(e.claim, e.person, rows)
  BY <1>1, <1>2 DEF Formed, ClaimsFormed
<1> QED
  BY <1>1, <1>3 DEF After, Formed, Kept, PersonsFormed, LinksFormed, e

LEMMA UnlinkedAfter ==
  ASSUME NEW rows, NEW a, Formed(a, rows), NEW ls, ls \subseteq a.link
  PROVE  After(a, Unlinked(a, ls), rows)
<1> DEFINE e == Unlinked(a, ls)
           ended == {[l EXCEPT !.live = FALSE] : l \in ls}
<1>1. /\ DOMAIN e = Tables /\ e.person = a.person /\ e.claim = a.claim
      /\ e.link = (a.link \ ls) \cup ended
  BY DEF Unlinked, Formed, Tables
<1>2. \A m \in ended : \E l \in ls : m = [l EXCEPT !.live = FALSE]
  OBVIOUS
<1>3. \A l \in ls : [l EXCEPT !.live = FALSE] \in ended
  OBVIOUS
<1>4. IsFiniteSet(ls)
  BY FS_Subset DEF Formed, LinksFormed
<1>5. IsFiniteSet(ended)
  <2> DEFINE f == [l \in ls |-> [l EXCEPT !.live = FALSE]]
  <2>1. f = [l \in ls |-> f[l]] /\ ended = {f[l] : l \in ls}
    OBVIOUS
  <2> HIDE DEF f, ended
  <2> QED
    BY <1>4, <2>1, ImagesAreFinite
<1> HIDE DEF e, ended
<1>6. IsFiniteSet(e.link)
  <2>1. IsFiniteSet(a.link \ ls)
    BY FS_Difference DEF Formed, LinksFormed
  <2> QED
    BY <1>1, <1>5, <2>1, FS_Union
<1>7. ASSUME NEW l \in ls
      PROVE  LET m == [l EXCEPT !.live = FALSE] IN
             DOMAIN m = LinkFields /\ m.person = l.person /\ m.row = l.row /\ m.id = l.id
  <2>1. DOMAIN l = LinkFields
    BY DEF Formed, LinksFormed
  <2> QED
    BY <2>1 DEF LinkFields
<1>8. LinksFormed(e.link, e.person, rows)
  <2> SUFFICES ASSUME NEW m \in e.link
               PROVE  DOMAIN m = LinkFields /\ m.person \in DOMAIN a.person /\ m.row \in rows
    BY <1>1, <1>6 DEF LinksFormed
  <2>1. CASE m \in a.link
    BY <2>1 DEF Formed, LinksFormed
  <2>2. CASE m \notin a.link
    <3>1. PICK l \in ls : m = [l EXCEPT !.live = FALSE]
      BY <1>1, <1>2, <2>2
    <3> QED
      BY <1>7, <3>1 DEF Formed, LinksFormed
  <2> QED
    BY <2>1, <2>2
<1>9. ASSUME NEW l \in a.link PROVE \E m \in e.link : m.id = l.id
  <2>1. CASE l \in ls
    BY <1>1, <1>3, <1>7, <2>1
  <2>2. CASE l \notin ls
    BY <1>1, <2>2
  <2> QED
    BY <2>1, <2>2
<1>10. Formed(e, rows)
  BY <1>1, <1>8 DEF Formed
<1>11. Kept(a, e)
  BY <1>1, <1>9 DEF Kept
<1> QED
  BY <1>10, <1>11 DEF After, e

LEMMA ReviewedAfter ==
  ASSUME NEW rows, NEW a, Formed(a, rows), NEW xs, NEW state
  PROVE  After(a, Reviewed(a, xs, state), rows)
<1> DEFINE e == Reviewed(a, xs, state)
<1>1. DOMAIN e = Tables /\ e.person = a.person /\ e.claim = a.claim /\ e.link = a.link
  BY DEF Reviewed, Formed, Tables
<1> HIDE DEF e
<1> QED
  BY <1>1 DEF After, Formed, Kept, e

LEMMA AfterTwice ==
  ASSUME NEW rows, NEW d, NEW a, NEW e, After(d, a, rows), After(a, e, rows)
  PROVE  After(d, e, rows)
  BY KeptTwice DEF After

(* A command with one target is the effect on it.                          *)
LEMMA OneTarget ==
  ASSUME NEW d, NEW r, NEW cmd, Len(cmd.targets) = 1
  PROVE  Planned(d, r, cmd) = Effect(d, d, cmd.targets[1], r, cmd)
<1> DEFINE E(a, i) == Effect(d, a, cmd.targets[i], r, cmd)
           Upto(s) == s = [i \in 0 .. 1 |-> IF i = 0 THEN d ELSE E(s[i - 1], i)]
           s1 == [i \in 0 .. 1 |-> IF i = 0 THEN d ELSE E(d, 1)]
<1>1. Planned(d, r, cmd) = (CHOOSE s : Upto(s))[1]
  BY DEF Planned
<1> HIDE DEF E
<1>2. Upto(s1)
  OBVIOUS
<1>3. Upto(CHOOSE s : Upto(s))
  <2> HIDE DEF Upto
  <2> QED BY <1>2
<1> DEFINE s == CHOOSE q : Upto(q)
<1>4. s = [i \in 0 .. 1 |-> IF i = 0 THEN d ELSE E(s[i - 1], i)]
  BY <1>3
<1> HIDE DEF s
<1>5. s[0] = d /\ s[1] = E(s[0], 1)
  BY <1>4
<1>6. Planned(d, r, cmd) = E(d, 1)
  BY <1>1, <1>5 DEF s
<1> QED
  BY <1>6 DEF E

LEMMA PublishAfter ==
  ASSUME NEW rows, NEW d, Formed(d, rows), NEW c
  PROVE  After(d, Publish(d, d, c), rows)
<1> DEFINE a == Marked(d, Replaced(d, c), "WITHHELD")
           b == Superseded(a, Replaced(d, c))
<1>1. After(d, a, rows)
  BY MarkedAfter
<1>2. After(a, b, rows)
  BY <1>1, SupersededAfter DEF After
<1>3. Publish(d, d, c) = Marked(b, {c}, "PUBLISHED")
  BY DEF Publish
<1> HIDE DEF b
<1>4. After(b, Publish(d, d, c), rows)
  BY <1>2, <1>3, MarkedAfter DEF After
<1> HIDE DEF a
<1> QED
  BY <1>1, <1>2, <1>4, AfterTwice

\* e is d with claims of ids cs put in, links ls, and perhaps persons.
Adds(d, e, cs, ls, rows) ==
  /\ DOMAIN e = Tables
  /\ IsFiniteSet(cs) /\ IsFiniteSet(ls)
  /\ DOMAIN e.claim = DOMAIN d.claim \cup cs
  /\ \A c \in cs : /\ DOMAIN e.claim[c] = ClaimFields
                   /\ e.claim[c].subject \in DOMAIN e.person \cup {Org}
                   /\ e.claim[c].row \in rows
  /\ \A c \in DOMAIN d.claim \ cs : e.claim[c] = d.claim[c]
  /\ e.link = d.link \cup ls
  /\ \A l \in ls : DOMAIN l = LinkFields /\ l.person \in DOMAIN e.person /\ l.row \in rows
  /\ DOMAIN d.person \subseteq DOMAIN e.person /\ PersonsFormed(e.person)

LEMMA AddedIsFormed ==
  ASSUME NEW rows, NEW d, Formed(d, rows), NEW e, NEW cs, NEW ls, Adds(d, e, cs, ls, rows)
  PROVE  Formed(e, rows)
<1>1. ClaimsFormed(e.claim, e.person, rows)
  <2>0. IsFiniteSet(DOMAIN d.claim) /\ IsFiniteSet(cs) /\ DOMAIN e.claim = DOMAIN d.claim \cup cs
    BY DEF Formed, ClaimsFormed, Adds
  <2>1. IsFiniteSet(DOMAIN d.claim \cup cs)
    BY <2>0, FS_Union, Zenon
  <2>2. IsFiniteSet(DOMAIN e.claim)
    BY <2>0, <2>1
  <2> QED
    BY <2>2 DEF Adds, Formed, ClaimsFormed
<1>2. LinksFormed(e.link, e.person, rows)
  <2>0. IsFiniteSet(d.link) /\ IsFiniteSet(ls) /\ e.link = d.link \cup ls
    BY DEF Formed, LinksFormed, Adds
  <2>1. IsFiniteSet(d.link \cup ls)
    BY <2>0, FS_Union, Zenon
  <2>2. IsFiniteSet(e.link)
    BY <2>0, <2>1
  <2> QED
    BY <2>2 DEF Adds, Formed, LinksFormed
<1> QED
  BY <1>1, <1>2 DEF Formed, Adds

(* Rows that are not the batch's.                                          *)
LEMMA AddedAfter ==
  ASSUME NEW rows, NEW d, Formed(d, rows), NEW e, NEW cs, NEW ls, Adds(d, e, cs, ls, rows),
         \A c \in cs : c[1] # Batch,
         \A p \in DOMAIN e.person \ DOMAIN d.person : p[1] # Batch
  PROVE  After(d, e, rows)
<1>1. Kept(d, e)
  BY DEF Adds, Kept
<1> QED
  BY <1>1, AddedIsFormed DEF After

(* One draft and, where there is one, its link.                            *)
LEMMA OneAdded ==
  ASSUME NEW rows, NEW d, Formed(d, rows), NEW e, DOMAIN e = Tables,
         NEW c, NEW k, DOMAIN k = ClaimFields, k.row \in rows,
         k.subject \in DOMAIN e.person \cup {Org}, e.claim = Put(d.claim, c, k),
         DOMAIN d.person \subseteq DOMAIN e.person, PersonsFormed(e.person),
         NEW ls, \A l \in ls : DOMAIN l = LinkFields /\ l.person \in DOMAIN e.person /\ l.row \in rows,
         IsFiniteSet(ls), e.link = d.link \cup ls
  PROVE  Adds(d, e, {c}, ls, rows)
<1>0. /\ DOMAIN e.claim = DOMAIN d.claim \cup {c} /\ e.claim[c] = k
      /\ \A y \in DOMAIN d.claim : y # c => e.claim[y] = d.claim[y]
  BY DEF Put
<1>1. IsFiniteSet({c})
  BY FS_Singleton
<1> QED
  BY <1>0, <1>1 DEF Adds

LEMMA CorrectAfter ==
  ASSUME NEW rows, NEW d, Formed(d, rows), NEW c \in DOMAIN d.claim, NEW r, r # Batch
  PROVE  After(d, Correct(d, d, c, r), rows)
<1> DEFINE e == Correct(d, d, c, r)
           k == Draft("CORRECTION", d.claim[c].subject, d.claim[c].row, c)
<1>1. DOMAIN e = Tables /\ e.person = d.person /\ e.link = d.link /\ e.claim = Put(d.claim, <<r, c>>, k)
  BY DEF Correct, Formed, Tables
<1>2. DOMAIN k = ClaimFields /\ k.row = d.claim[c].row /\ k.subject = d.claim[c].subject
  BY DEF Draft, ClaimFields
<1> HIDE DEF e, k
<1>3. k.row \in rows /\ k.subject \in DOMAIN e.person \cup {Org} /\ PersonsFormed(e.person)
  BY <1>1, <1>2 DEF Formed, ClaimsFormed
<1>4. IsFiniteSet({}) /\ e.link = d.link \cup {}
  BY <1>1, FS_EmptySet
<1>5. <<r, c>>[1] # Batch
  OBVIOUS
<1>6. Adds(d, e, {<<r, c>>}, {}, rows)
  BY <1>1, <1>2, <1>3, <1>4, OneAdded
<1>7. After(d, e, rows)
  BY <1>1, <1>5, <1>6, AddedAfter
<1> QED
  BY <1>7 DEF e

LEMMA AttributedRows ==
  ASSUME NEW d, DOMAIN d = Tables, NEW row, NEW p, NEW r, NEW how, NEW k
  PROVE  LET e == Attributed(d, row, p, r, how, k) IN
         /\ DOMAIN e = Tables /\ e.person = d.person
         /\ e.link = d.link \cup {Link(<<r, row>>, p, row, how)}
         /\ e.claim = Put(d.claim, <<r, row>>, k)
<1> DEFINE a == Reviewed(d, {row}, "RESOLVED")
<1>1. DOMAIN a = Tables /\ a.person = d.person /\ a.link = d.link /\ a.claim = d.claim
  BY DEF Reviewed, Tables
<1>2. Attributed(d, row, p, r, how, k) =
        [a EXCEPT !.link = @ \cup {Link(<<r, row>>, p, row, how)}, !.claim = Put(@, <<r, row>>, k)]
  BY DEF Attributed
<1> HIDE DEF a
<1> QED
  BY <1>1, <1>2 DEF Tables

LEMMA RegisterAfter ==
  ASSUME NEW rows, NEW d, Formed(d, rows), NEW row \in rows, NEW r, r # Batch
  PROVE  After(d, Register(d, row, r), rows)
<1> DEFINE id == <<r, row>>
           k == Draft("ROLE", id, row, None)
           a == Attributed(d, row, id, r, "REVIEWED", k)
           q == [name |-> NameOf[row], aliases |-> {}, status |-> "RESOLVED", active |-> TRUE]
           l == Link(id, id, row, "REVIEWED")
           e == Register(d, row, r)
<1>1. /\ DOMAIN a = Tables /\ a.person = d.person
      /\ a.link = d.link \cup {l} /\ a.claim = Put(d.claim, id, k)
  BY AttributedRows DEF Formed
<1>2. e = [a EXCEPT !.person = Put(@, id, q)]
  BY DEF Register
<1>3. DOMAIN k = ClaimFields /\ k.row = row /\ k.subject = id
  BY DEF Draft, ClaimFields
<1>4. DOMAIN l = LinkFields /\ l.person = id /\ l.row = row
  BY DEF Link, LinkFields
<1>5. DOMAIN q = PersonFields
  BY DEF PersonFields
<1>6. id[1] # Batch
  OBVIOUS
<1> HIDE DEF a, q, l, k, e, id
<1>7. /\ DOMAIN e = Tables /\ e.person = Put(d.person, id, q)
      /\ e.link = d.link \cup {l} /\ e.claim = Put(d.claim, id, k)
  BY <1>1, <1>2 DEF Tables
<1>8. /\ DOMAIN e.person = DOMAIN d.person \cup {id} /\ e.person[id] = q
      /\ \A p \in DOMAIN d.person : p # id => e.person[p] = d.person[p]
  <2>1. e.person = Put(d.person, id, q)
    BY <1>7
  <2> QED
    BY <2>1 DEF Put
<1>9. PersonsFormed(e.person)
  <2>1. IsFiniteSet(DOMAIN e.person)
    BY <1>8, FS_AddElement DEF Formed, PersonsFormed
  <2> QED
    BY <1>5, <1>8, <2>1 DEF Formed, PersonsFormed
<1>10. IsFiniteSet({l})
  BY FS_Singleton
<1>11. Adds(d, e, {id}, {l}, rows)
  BY <1>3, <1>4, <1>7, <1>8, <1>9, <1>10, OneAdded
<1>12. After(d, e, rows)
  BY <1>6, <1>8, <1>11, AddedAfter
<1> QED
  BY <1>12 DEF e

LEMMA LinkAfter ==
  ASSUME NEW rows, NEW d, Formed(d, rows), NEW row \in rows, NEW p \in DOMAIN d.person, NEW r, r # Batch
  PROVE  After(d, LinkPerson(d, d, row, p, r), rows)
<1> DEFINE id == <<r, row>>
           k == IF row \in AlioRows THEN Draft("ROLE", p, row, None)
                ELSE Draft("LINKED", p, row, CHOOSE c \in Listing(d, row) : TRUE)
           l == Link(id, p, row, "REVIEWED")
           e == LinkPerson(d, d, row, p, r)
<1>1. /\ DOMAIN e = Tables /\ e.person = d.person
      /\ e.link = d.link \cup {l} /\ e.claim = Put(d.claim, id, k)
  <2> HIDE DEF k
  <2>1. e = Attributed(d, row, p, r, "REVIEWED", k)
    BY DEF LinkPerson, k
  <2> HIDE DEF e
  <2> QED
    BY <2>1, AttributedRows DEF Formed
<1>2. DOMAIN k = ClaimFields /\ k.row = row /\ k.subject = p
  BY DEF Draft, ClaimFields
<1>3. DOMAIN l = LinkFields /\ l.person = p /\ l.row = row
  BY DEF Link, LinkFields
<1>4. id[1] # Batch
  OBVIOUS
<1>5. IsFiniteSet({l}) /\ PersonsFormed(d.person)
  BY FS_Singleton DEF Formed
<1> HIDE DEF l, k, e, id
<1>6. Adds(d, e, {id}, {l}, rows)
  BY <1>1, <1>2, <1>3, <1>5, OneAdded
<1>7. After(d, e, rows)
  BY <1>1, <1>4, <1>6, AddedAfter
<1> QED
  BY <1>7 DEF e

(* A person who is changed stays a person.                                 *)
LEMMA PersonAfter ==
  ASSUME NEW rows, NEW d, Formed(d, rows), NEW e, DOMAIN e = Tables,
         e.claim = d.claim, e.link = d.link, DOMAIN e.person = DOMAIN d.person,
         \A p \in DOMAIN d.person : DOMAIN e.person[p] = DOMAIN d.person[p]
  PROVE  After(d, e, rows)
  BY DEF After, Formed, Kept, ClaimsFormed, PersonsFormed, LinksFormed

LEMMA ResolveAfter ==
  ASSUME NEW rows, NEW d, Formed(d, rows), NEW p \in DOMAIN d.person
  PROVE  After(d, [d EXCEPT !.person[p].status = "RESOLVED"], rows)
<1> DEFINE e == [d EXCEPT !.person[p].status = "RESOLVED"]
<1>1. /\ DOMAIN e = Tables /\ e.claim = d.claim /\ e.link = d.link
      /\ e.person = [d.person EXCEPT ![p] = [d.person[p] EXCEPT !.status = "RESOLVED"]]
  BY DEF Formed, Tables
<1> HIDE DEF e
<1>2. DOMAIN e.person = DOMAIN d.person /\ \A q \in DOMAIN d.person : DOMAIN e.person[q] = DOMAIN d.person[q]
  BY <1>1
<1> QED
  BY <1>1, <1>2, PersonAfter DEF e

LEMMA RenameAfter ==
  ASSUME NEW rows, NEW d, Formed(d, rows), NEW p \in DOMAIN d.person, NEW name
  PROVE  After(d, Rename(d, d, p, name), rows)
<1> DEFINE e == Rename(d, d, p, name)
           q == [d.person[p] EXCEPT !.name = name]
           q2 == [q EXCEPT !.aliases = @ \cup {d.person[p].name}]
<1>1. /\ DOMAIN e = Tables /\ e.claim = d.claim /\ e.link = d.link
      /\ DOMAIN e.person = DOMAIN d.person
      /\ \A o \in DOMAIN d.person : o # p => e.person[o] = d.person[o]
      /\ e.person[p] = q2
  BY DEF Rename, Formed, Tables
<1>2. DOMAIN q2 = DOMAIN d.person[p]
  OBVIOUS
<1> HIDE DEF e, q2
<1>3. \A o \in DOMAIN d.person : DOMAIN e.person[o] = DOMAIN d.person[o]
  BY <1>1, <1>2
<1> QED
  BY <1>1, <1>3, PersonAfter DEF e

LEMMA DeactivateAfter ==
  ASSUME NEW rows, NEW d, Formed(d, rows), NEW p \in DOMAIN d.person
  PROVE  After(d, Deactivate(d, d, p), rows)
<1> DEFINE ls == LinksOf(d, p)
           a == Marked(d, ClaimsOf(d, p), "WITHHELD")
           b == Unlinked(a, ls)
           c == Reviewed(b, {l.row : l \in ls}, "REJECTED")
           e == Deactivate(d, d, p)
<1>0. e = [c EXCEPT !.person[p].active = FALSE]
  BY DEF Deactivate
<1> HIDE DEF e
<1>1. After(d, a, rows)
  BY MarkedAfter
<1>2. a.link = d.link /\ a.person = d.person
  BY DEF Marked, Formed, Tables
<1>3. ls \subseteq a.link
  BY <1>2 DEF LinksOf
<1> HIDE DEF a, ls
<1>4. After(a, b, rows)
  BY <1>1, <1>3, UnlinkedAfter DEF After
<1>5. b.person = d.person
  BY <1>1, <1>2 DEF Unlinked, After, Formed, Tables
<1> HIDE DEF b
<1>6. After(b, c, rows)
  BY <1>4, ReviewedAfter DEF After
<1>7. c.person = d.person
  BY <1>4, <1>5 DEF Reviewed, After, Formed, Tables
<1> HIDE DEF c
<1>8. Formed(c, rows) /\ DOMAIN c = Tables
  BY <1>6 DEF After, Formed
<1>9. /\ DOMAIN e = Tables /\ e.claim = c.claim /\ e.link = c.link
      /\ e.person = [c.person EXCEPT ![p] = [c.person[p] EXCEPT !.active = FALSE]]
  BY <1>0, <1>8 DEF Tables
<1>10. DOMAIN e.person = DOMAIN c.person /\ \A q \in DOMAIN c.person : DOMAIN e.person[q] = DOMAIN c.person[q]
  BY <1>9
<1>11. After(c, e, rows)
  BY <1>8, <1>9, <1>10, PersonAfter
<1>12. After(d, b, rows)
  BY <1>1, <1>4, AfterTwice
<1>13. After(d, c, rows)
  BY <1>6, <1>12, AfterTwice
<1>14. After(d, e, rows)
  BY <1>11, <1>13, AfterTwice
<1> QED
  BY <1>14 DEF e

LEMMA MergeAfter ==
  ASSUME NEW rows, NEW d, Formed(d, rows), NEW p \in DOMAIN d.person,
         NEW t \in DOMAIN d.person \ {p}, NEW r, r # Batch
  PROVE  After(d, Merge(d, d, p, t, r), rows)
<1> DEFINE ks == ClaimsOf(d, p)
           ls == LinksOf(d, p)
           a == Superseded(d, ks)
           b == Unlinked(a, ls)
           g == Copies(d, p, t, r)
           cs == {<<r, c>> : c \in ks}
           ms == {m \in ls : ~ Linked(d, t, m.row)}
           new == {Link(<<r, l.id>>, t, l.row, "REVIEWED") : l \in ms}
           e == Merge(d, d, p, t, r)
<1>1. After(d, a, rows)
  BY SupersededAfter
<1>2. a.link = d.link /\ a.person = d.person
  BY DEF Superseded, Formed, Tables
<1>3. ls \subseteq d.link /\ ms \subseteq d.link
  BY DEF LinksOf
<1>4. ks \subseteq DOMAIN d.claim
  BY DEF ClaimsOf, Live
<1> HIDE DEF a
<1>5. After(a, b, rows)
  BY <1>1, <1>2, <1>3, UnlinkedAfter DEF After
<1>6. b.person = d.person
  BY <1>1, <1>2 DEF Unlinked, After, Formed, Tables
<1>7. e = [b EXCEPT !.claim = PutAll(@, g), !.link = @ \cup new,
                    !.person[t].aliases = @ \cup d.person[p].aliases,
                    !.person[p].aliases = {}, !.person[p].active = FALSE]
  BY DEF Merge, a
<1>8. DOMAIN b = Tables
  BY <1>5 DEF After, Formed
<1> HIDE DEF b, e, g, new
<1>9. /\ DOMAIN e = Tables
      /\ e.claim = PutAll(b.claim, g) /\ e.link = b.link \cup new
      /\ DOMAIN e.person = DOMAIN d.person
      /\ \A o \in DOMAIN d.person : o \notin {p, t} => e.person[o] = d.person[o]
      /\ DOMAIN e.person[t] = DOMAIN d.person[t]
      /\ DOMAIN e.person[p] = DOMAIN d.person[p]
  BY <1>6, <1>7, <1>8 DEF Tables
<1>10. PersonsFormed(e.person)
  BY <1>9 DEF Formed, PersonsFormed
<1>11. DOMAIN g = cs /\ \A k \in cs : g[k] = [d.claim[k[2]] EXCEPT !.subject = t]
  BY DEF g, Copies
<1>12. ASSUME NEW k \in cs
       PROVE  /\ DOMAIN g[k] = ClaimFields /\ g[k].subject = t /\ g[k].row \in rows
              /\ k[1] # Batch
  <2>1. PICK c \in ks : k = <<r, c>>
    OBVIOUS
  <2>2. k[1] = r /\ k[2] = c
    BY <2>1
  <2>3. DOMAIN d.claim[c] = ClaimFields /\ d.claim[c].row \in rows
    BY <1>4 DEF Formed, ClaimsFormed
  <2>4. g[k] = [d.claim[c] EXCEPT !.subject = t]
    BY <1>11, <2>2
  <2>5. DOMAIN g[k] = ClaimFields /\ g[k].subject = t /\ g[k].row = d.claim[c].row
    BY <2>3, <2>4 DEF ClaimFields
  <2> QED
    BY <2>2, <2>3, <2>5
<1>13. /\ DOMAIN e.claim = DOMAIN b.claim \cup cs
       /\ \A k \in cs : e.claim[k] = g[k]
       /\ \A k \in DOMAIN b.claim \ cs : e.claim[k] = b.claim[k]
  <2> HIDE DEF cs
  <2> QED
    BY <1>9, <1>11 DEF PutAll
<1>14. IsFiniteSet(cs)
  <2>1. IsFiniteSet(ks)
    BY <1>4, FS_Subset DEF Formed, ClaimsFormed
  <2> DEFINE f == [c \in ks |-> <<r, c>>]
  <2>2. f = [c \in ks |-> f[c]] /\ cs = {f[c] : c \in ks}
    OBVIOUS
  <2> HIDE DEF f, cs, ks
  <2> QED
    BY <2>1, <2>2, ImagesAreFinite
<1>15. IsFiniteSet(new)
  <2>1. IsFiniteSet(ms)
    BY <1>3, FS_Subset DEF Formed, LinksFormed
  <2> DEFINE f == [l \in ms |-> Link(<<r, l.id>>, t, l.row, "REVIEWED")]
  <2>2. f = [l \in ms |-> f[l]] /\ new = {f[l] : l \in ms}
    BY DEF new
  <2> HIDE DEF f, ms
  <2> QED
    BY <2>1, <2>2, ImagesAreFinite
<1>16. ASSUME NEW m \in new
       PROVE  DOMAIN m = LinkFields /\ m.person = t /\ m.row \in rows
  <2>1. PICK l \in ms : m = Link(<<r, l.id>>, t, l.row, "REVIEWED")
    BY DEF new
  <2>2. l.row \in rows
    BY <1>3 DEF Formed, LinksFormed
  <2> QED
    BY <2>1, <2>2 DEF Link, LinkFields
<1> HIDE DEF cs, ms
<1>17. Adds(b, e, cs, new, rows)
  BY <1>6, <1>9, <1>10, <1>12, <1>13, <1>14, <1>15, <1>16 DEF Adds
<1>18. After(b, e, rows)
  <2>1. Formed(b, rows)
    BY <1>5 DEF After
  <2>2. \A c \in cs : c[1] # Batch
    BY <1>12
  <2>3. DOMAIN e.person \ DOMAIN b.person = {}
    BY <1>6, <1>9
  <2> QED
    BY <1>17, <2>1, <2>2, <2>3, AddedAfter
<1>19. After(d, b, rows)
  BY <1>1, <1>5, AfterTwice
<1>20. After(d, e, rows)
  BY <1>18, <1>19, AfterTwice
<1> QED
  BY <1>20 DEF e

-----------------------------------------------------------------------------
(* Operators, imports and batches.                                         *)

LEMMA EffectAfter ==
  ASSUME NEW rows, NEW d, Formed(d, rows), NEW r, r # Batch,
         NEW cmd, cmd.action \in Actions, NEW x \in Selectable(d, cmd.action), Accepts(d, cmd, x),
         cmd.action \in {"REGISTER_PERSON", "LINK_PERSON"} => x \in rows
  PROVE  After(d, Effect(d, d, x, r, cmd), rows)
<1>1. CASE cmd.action \in Reviewing
  BY <1>1, ReviewedAfter DEF Effect, Reviewing
<1>2. CASE cmd.action = "REGISTER_PERSON"
  BY <1>2, RegisterAfter DEF Effect, Reviewing
<1>3. CASE cmd.action = "LINK_PERSON"
  <2>1. cmd.person \in DOMAIN d.person
    BY <1>3 DEF Accepts, Reviewing, MayLink, Resolved, Active
  <2> QED
    BY <1>3, <2>1, LinkAfter DEF Effect, Reviewing
<1>4. CASE cmd.action = "SUBMIT_REVIEW"
  BY <1>4, MarkedAfter DEF Effect, Reviewing
<1>5. CASE cmd.action = "PUBLISH"
  BY <1>5, PublishAfter DEF Effect, Reviewing
<1>6. CASE cmd.action = "WITHDRAW"
  <2>1. Effect(d, d, x, r, cmd) = Marked(d, {x} \cup Restating(d, x), "WITHHELD")
    BY <1>6 DEF Effect, Reviewing, Withdraw
  <2> QED
    BY <2>1, MarkedAfter
<1>7. CASE cmd.action = "CORRECT_CLAIM"
  <2>1. x \in DOMAIN d.claim
    BY <1>7 DEF Selectable, Reviewing
  <2>2. Effect(d, d, x, r, cmd) = Correct(d, d, x, r)
    BY <1>7 DEF Effect, Reviewing
  <2> QED
    BY <2>1, <2>2, CorrectAfter
<1>8. CASE cmd.action \in {"RESOLVE_PERSON", "RENAME_PERSON", "DEACTIVATE_PERSON", "MERGE_PERSON"}
  <2>1. x \in DOMAIN d.person
    BY <1>8 DEF Selectable, Reviewing
  <2>2. CASE cmd.action = "RESOLVE_PERSON"
    BY <2>1, <2>2, ResolveAfter DEF Effect, Reviewing
  <2>3. CASE cmd.action = "RENAME_PERSON"
    BY <2>1, <2>3, RenameAfter DEF Effect, Reviewing
  <2>4. CASE cmd.action = "DEACTIVATE_PERSON"
    BY <2>1, <2>4, DeactivateAfter DEF Effect, Reviewing
  <2>5. CASE cmd.action = "MERGE_PERSON"
    <3>1. cmd.person \in DOMAIN d.person \ {x}
      BY <2>5 DEF Accepts, Reviewing, MayMerge, Resolved, Active
    <3>2. Effect(d, d, x, r, cmd) = Merge(d, d, x, cmd.person, r)
      BY <2>5 DEF Effect, Reviewing
    <3> QED
      BY <2>1, <3>1, <3>2, MergeAfter
  <2> QED
    BY <1>8, <2>2, <2>3, <2>4, <2>5
<1> QED
  BY <1>1, <1>2, <1>3, <1>4, <1>5, <1>6, <1>7, <1>8 DEF Actions, Batched, Reviewing

\* What operators may still do.
SiteInv == site.commands \in Nat /\ site.actions \subseteq Actions

\* What jobs have read was collected.
SeenInv == \A w \in DOMAIN job : job[w].seen.rows \subseteq stored

SoundInv == SiteInv /\ SeenInv /\ Sound(db, stored)

LEMMA InitSound == Init => SoundInv
<1> SUFFICES ASSUME Init PROVE SoundInv
  OBVIOUS
<1>1. SiteInv
  BY SitesAssumption DEF Init, SiteInv
<1>2. SeenInv
  BY DEF Init, SeenInv
<1>3. Sound(db, stored)
  BY SitesAssumption DEF Init
<1> QED
  BY <1>1, <1>2, <1>3 DEF SoundInv

(* More rows than a database refers to do no harm.                         *)
LEMMA SoundGrows ==
  ASSUME NEW d, NEW rows, NEW more, Sound(d, rows), rows \subseteq more
  PROVE  Sound(d, more)
  BY DEF Sound

LEMMA OneLong ==
  ASSUME NEW S, NEW q \in [1 .. 1 -> S]
  PROVE  Len(q) = 1 /\ q[1] \in S /\ q[1] \in Range(q)
<1>1. q \in Seq(S)
  BY SeqDef
<1>2. DOMAIN q = 1 .. 1
  OBVIOUS
<1>3. Len(q) \in Nat /\ DOMAIN q = 1 .. Len(q)
  BY <1>1
<1>4. Len(q) = 1
  BY <1>2, <1>3
<1>5. q[1] \in S /\ 1 \in DOMAIN q
  OBVIOUS
<1> QED
  BY <1>4, <1>5 DEF Range

\* A command of one target that was accepted, and what it wrote.
Ordered(cmd, x) ==
  /\ cmd.action \in Actions /\ x \in Selectable(db, cmd.action) /\ Accepts(db, cmd, x)
  /\ cmd.action \in {"REGISTER_PERSON", "LINK_PERSON"} => x \in stored /\ ~ Drifted(x, stored)
  /\ db' = Effect(db, db, x, site.commands, cmd)

LEMMA CommandOfOne ==
  ASSUME SoundInv, RosterInv, Command
  PROVE  site.commands # Batch /\ \E cmd, x : Ordered(cmd, x)
<1> USE DEF Command
<1>1. PICK act \in site.actions : \E cmd \in Commands(db, act, 1) :
         /\ Permitted(db, cmd)
         /\ \A row \in Relied(cmd) : StandsInRoster(row)
         /\ db' = Planned(db, site.commands, cmd)
  OBVIOUS
<1>2. PICK cmd \in Commands(db, act, 1) :
         /\ Permitted(db, cmd)
         /\ \A row \in Relied(cmd) : StandsInRoster(row)
         /\ db' = Planned(db, site.commands, cmd)
  BY <1>1
<1> DEFINE x == cmd.targets[1]
<1>3. cmd.action = act /\ cmd.targets \in Selections(act, Selectable(db, act), 1)
  BY DEF Commands
<1>4. PICK k \in 1 .. 1 : cmd.targets \in [1 .. k -> Selectable(db, act)]
  <2>1. PICK k \in 1 .. (IF act \in Batched THEN 1 ELSE 1) :
          cmd.targets \in {q \in [1 .. k -> Selectable(db, act)] : IsInjective(q)}
    BY <1>3, Zenon DEF Selections
  <2>2. k \in 1 .. 1
    BY <2>1
  <2> QED
    BY <2>1, <2>2
<1>5. cmd.targets \in [1 .. 1 -> Selectable(db, act)]
  <2>1. k = 1
    BY <1>4
  <2> QED
    BY <1>4, <2>1
<1>6. Len(cmd.targets) = 1 /\ x \in Selectable(db, act) /\ x \in Range(cmd.targets)
  <2> DEFINE q == cmd.targets
             S == Selectable(db, act)
  <2>1. q \in [1 .. 1 -> S]
    BY <1>5
  <2> HIDE DEF q, S
  <2>2. Len(q) = 1 /\ q[1] \in S /\ q[1] \in Range(q)
    BY <2>1, OneLong
  <2> QED
    BY <2>2 DEF q, S
<1>7. Accepts(db, cmd, x)
  BY <1>2, <1>6 DEF Permitted
<1>8. act \in {"REGISTER_PERSON", "LINK_PERSON"} => x \in stored /\ ~ Drifted(x, stored)
  <2> SUFFICES ASSUME act \in {"REGISTER_PERSON", "LINK_PERSON"}
               PROVE  x \in stored /\ ~ Drifted(x, stored)
    OBVIOUS
  <2>1. StandsInRoster(x)
    BY <1>2, <1>3 DEF Relied
  <2>2. ScopeOf[x] \in Scopes
    <3>1. x \in Rows
      BY <1>6 DEF Selectable
    <3> QED
      BY <3>1, RowsAreScoped DEF Rows, Scopes
  <2> QED
    BY <2>1, <2>2 DEF StandsInRoster, RosterInv
<1>9. site.commands \in Nat /\ site.commands > 0 /\ act \in Actions
  BY DEF SoundInv, SiteInv
<1>10. site.commands # Batch
  BY <1>9, IdsAssumption
<1>11. db' = Effect(db, db, x, site.commands, cmd)
  BY <1>2, <1>6, OneTarget
<1> HIDE DEF x
<1>12. Ordered(cmd, x)
  BY <1>3, <1>6, <1>7, <1>8, <1>9, <1>11 DEF Ordered
<1> QED
  BY <1>10, <1>12

LEMMA CommandKeeps ==
  ASSUME SoundInv, RosterInv, Command
  PROVE  After(db, db', stored)
<1>1. PICK cmd, x : Ordered(cmd, x)
  BY CommandOfOne
<1>2. Formed(db, stored) /\ site.commands # Batch
  BY CommandOfOne, SoundIsFormed DEF SoundInv
<1> QED
  BY <1>1, <1>2, EffectAfter DEF Ordered

LEMMA CommandIsSound ==
  ASSUME SoundInv, RosterInv, Command
  PROVE  SoundInv'
<1>1. site.commands \in Nat /\ site.commands > 0 /\ site' = [site EXCEPT !.commands = @ - 1]
  BY DEF Command, SoundInv, SiteInv
<1>2. SiteInv'
  BY <1>1 DEF SoundInv, SiteInv
<1>3. Sound(db', stored)
  BY CommandKeeps, KeptIsSound DEF After, SoundInv
<1>4. stored' = stored /\ job' = job
  BY DEF Command
<1>5. Sound(db, stored)'
  BY <1>3, <1>4
<1>6. SeenInv'
  BY <1>4 DEF SoundInv, SeenInv
<1> QED
  BY <1>2, <1>5, <1>6 DEF SoundInv

LEMMA ImportKeeps ==
  ASSUME SoundInv, RosterInv, NEW row \in AlioRows, Import(row)
  PROVE  After(db, db', stored)
<1> DEFINE k == [Draft("LIST", Org, row, None) EXCEPT !.status = "PUBLISHED"]
           id == <<Org, row>>
<1>1. Formed(db, stored)
  BY SoundIsFormed DEF SoundInv
<1>2. DOMAIN k = ClaimFields /\ k.row = row /\ k.subject = Org
  BY DEF Draft, ClaimFields
<1>3. db' = [db EXCEPT !.claim = Put(@, id, k)]
  BY DEF Import
<1>4. row \in stored
  BY DEF Import, RosterInv, Scopes
<1>5. id[1] # Batch
  BY IdsAssumption
<1> HIDE DEF k, id
<1>6. DOMAIN db' = Tables /\ db'.claim = Put(db.claim, id, k) /\ db'.person = db.person /\ db'.link = db.link
  BY <1>1, <1>3 DEF Formed, Tables
<1> DEFINE e == db'
<1> HIDE DEF e
<1>7. DOMAIN e = Tables /\ e.claim = Put(db.claim, id, k) /\ e.person = db.person /\ e.link = db.link \cup {}
  BY <1>6 DEF e
<1>8. IsFiniteSet({}) /\ PersonsFormed(e.person)
  BY <1>1, <1>7, FS_EmptySet DEF Formed
<1>9. k.row \in stored /\ k.subject \in DOMAIN e.person \cup {Org}
  BY <1>2, <1>4
<1>10. Adds(db, e, {id}, {}, stored)
  BY <1>1, <1>2, <1>7, <1>8, <1>9, OneAdded
<1>11. After(db, e, stored)
  BY <1>1, <1>5, <1>7, <1>10, AddedAfter
<1> QED
  BY <1>11 DEF e

LEMMA ImportIsSound ==
  ASSUME SoundInv, RosterInv, NEW row \in AlioRows, Import(row)
  PROVE  Sound(db', stored)
  BY ImportKeeps, KeptIsSound DEF After, SoundInv

\* e is d with a packet for every one of rows.
Made(d, e, rows) ==
  /\ DOMAIN e = Tables
  /\ DOMAIN e.person = DOMAIN d.person \cup {PersonId(row) : row \in rows}
  /\ \A p \in DOMAIN e.person :
       e.person[p] = IF p \in {PersonId(row) : row \in rows}
                     THEN [name |-> NameOf[CHOOSE row \in rows : PersonId(row) = p],
                           aliases |-> {}, status |-> "REVIEW", active |-> TRUE]
                     ELSE d.person[p]
  /\ e.link = d.link \cup {Link(PacketId(row), PersonId(row), row, "CONTEXT") : row \in rows}
  /\ DOMAIN e.claim = DOMAIN d.claim \cup {PacketId(row) : row \in rows}
  /\ \A k \in DOMAIN e.claim :
       e.claim[k] = IF k \in {PacketId(row) : row \in rows}
                    THEN Draft(IF k[2] \in NecRows THEN "CANDIDACY" ELSE "ROLE",
                               PersonId(k[2]), k[2], None)
                    ELSE d.claim[k]

LEMMA PersistedRows ==
  ASSUME NEW d, DOMAIN d = Tables, NEW rows
  PROVE  Made(d, Persisted(d, rows), rows)
<1> DEFINE ps == {PersonId(row) : row \in rows}
           ks == {PacketId(row) : row \in rows}
           f == [p \in ps |-> [name |-> NameOf[CHOOSE row \in rows : PersonId(row) = p],
                               aliases |-> {}, status |-> "REVIEW", active |-> TRUE]]
           g == [k \in ks |-> Draft(IF k[2] \in NecRows THEN "CANDIDACY" ELSE "ROLE",
                                    PersonId(k[2]), k[2], None)]
           ls == {Link(PacketId(row), PersonId(row), row, "CONTEXT") : row \in rows}
           e == Persisted(d, rows)
<1>1. e = [d EXCEPT !.person = PutAll(@, f), !.link = @ \cup ls, !.claim = PutAll(@, g)]
  BY DEF Persisted
<1>2. /\ DOMAIN f = ps /\ \A p \in ps : f[p] = [name |-> NameOf[CHOOSE row \in rows : PersonId(row) = p],
                               aliases |-> {}, status |-> "REVIEW", active |-> TRUE]
      /\ DOMAIN g = ks /\ \A k \in ks : g[k] = Draft(IF k[2] \in NecRows THEN "CANDIDACY" ELSE "ROLE",
                                    PersonId(k[2]), k[2], None)
  OBVIOUS
<1> HIDE DEF f, g, ls, ps, ks, e
<1>3. DOMAIN e = Tables /\ e.person = PutAll(d.person, f) /\ e.link = d.link \cup ls /\ e.claim = PutAll(d.claim, g)
  BY <1>1 DEF Tables
<1>4. /\ DOMAIN e.person = DOMAIN d.person \cup ps
      /\ \A p \in DOMAIN e.person : e.person[p] = IF p \in ps THEN f[p] ELSE d.person[p]
      /\ DOMAIN e.claim = DOMAIN d.claim \cup ks
      /\ \A k \in DOMAIN e.claim : e.claim[k] = IF k \in ks THEN g[k] ELSE d.claim[k]
  BY <1>2, <1>3 DEF PutAll
<1> QED
  BY <1>2, <1>3, <1>4 DEF Made, ps, ks, ls, e

(* The rows a batch writes packets for, and their parts, are finitely many.*)
LEMMA PacketsAreFinite ==
  ASSUME NEW rows, rows \subseteq Rows
  PROVE  /\ IsFiniteSet(rows)
         /\ IsFiniteSet({PersonId(row) : row \in rows})
         /\ IsFiniteSet({PacketId(row) : row \in rows})
         /\ IsFiniteSet({Link(PacketId(row), PersonId(row), row, "CONTEXT") : row \in rows})
<1>1. IsFiniteSet(rows)
  BY RowsAreFinite, FS_Subset
<1>2. IsFiniteSet({PersonId(row) : row \in rows})
  <2> DEFINE f == [row \in rows |-> PersonId(row)]
  <2>1. f = [row \in rows |-> f[row]] /\ {PersonId(row) : row \in rows} = {f[row] : row \in rows}
    OBVIOUS
  <2> HIDE DEF f
  <2> QED
    BY <1>1, <2>1, ImagesAreFinite
<1>3. IsFiniteSet({PacketId(row) : row \in rows})
  <2> DEFINE f == [row \in rows |-> PacketId(row)]
  <2>1. f = [row \in rows |-> f[row]] /\ {PacketId(row) : row \in rows} = {f[row] : row \in rows}
    OBVIOUS
  <2> HIDE DEF f
  <2> QED
    BY <1>1, <2>1, ImagesAreFinite
<1>4. IsFiniteSet({Link(PacketId(row), PersonId(row), row, "CONTEXT") : row \in rows})
  <2> DEFINE f == [row \in rows |-> Link(PacketId(row), PersonId(row), row, "CONTEXT")]
             ls == {Link(PacketId(row), PersonId(row), row, "CONTEXT") : row \in rows}
  <2>1. f = [row \in rows |-> f[row]] /\ ls = {f[row] : row \in rows}
    OBVIOUS
  <2> HIDE DEF f, ls
  <2>2. IsFiniteSet(ls)
    BY <1>1, <2>1, ImagesAreFinite
  <2> QED
    BY <2>2 DEF ls
<1> QED
  BY <1>1, <1>2, <1>3, <1>4

LEMMA PersistedIsSound ==
  ASSUME NEW d, NEW rows, rows \subseteq Rows, Sound(d, rows), NEW made, made \subseteq rows
  PROVE  Sound(Persisted(d, made), rows)
<1> DEFINE e == Persisted(d, made)
           ps == {PersonId(row) : row \in made}
           ks == {PacketId(row) : row \in made}
           ls == {Link(PacketId(row), PersonId(row), row, "CONTEXT") : row \in made}
<1>0. Formed(d, rows) /\ DOMAIN d = Tables
  BY SoundIsFormed DEF Formed
<1>1. /\ DOMAIN e = Tables
      /\ DOMAIN e.person = DOMAIN d.person \cup ps
      /\ \A p \in DOMAIN e.person :
           e.person[p] = IF p \in ps
                         THEN [name |-> NameOf[CHOOSE row \in made : PersonId(row) = p],
                               aliases |-> {}, status |-> "REVIEW", active |-> TRUE]
                         ELSE d.person[p]
      /\ e.link = d.link \cup ls
      /\ DOMAIN e.claim = DOMAIN d.claim \cup ks
      /\ \A k \in DOMAIN e.claim :
           e.claim[k] = IF k \in ks
                        THEN Draft(IF k[2] \in NecRows THEN "CANDIDACY" ELSE "ROLE",
                                   PersonId(k[2]), k[2], None)
                        ELSE d.claim[k]
  <2>1. Made(d, e, made)
    BY <1>0, PersistedRows
  <2> QED
    BY <2>1 DEF Made
<1>2. IsFiniteSet(made) /\ IsFiniteSet(ps) /\ IsFiniteSet(ks) /\ IsFiniteSet(ls)
  BY PacketsAreFinite
<1> HIDE DEF e
<1>3. PersonsFormed(e.person)
  <2>1. IsFiniteSet(DOMAIN d.person) /\ \A p \in DOMAIN d.person : DOMAIN d.person[p] = PersonFields
    BY <1>0 DEF Formed, PersonsFormed
  <2> HIDE DEF ps
  <2>2. IsFiniteSet(DOMAIN e.person)
    <3>1. IsFiniteSet(DOMAIN d.person \cup ps)
      BY <1>2, <2>1, FS_Union, Zenon
    <3> QED
      BY <1>1, <3>1
  <2>3. ASSUME NEW p \in DOMAIN e.person PROVE DOMAIN e.person[p] = PersonFields
    BY <1>1, <2>1 DEF PersonFields
  <2> QED
    BY <2>2, <2>3 DEF PersonsFormed
<1>4. ASSUME NEW k \in ks
      PROVE  DOMAIN e.claim[k] = ClaimFields /\ e.claim[k].subject \in DOMAIN e.person /\ e.claim[k].row \in rows
  <2>1. PICK row \in made : k = PacketId(row)
    OBVIOUS
  <2>2. k[2] = row
    BY <2>1 DEF PacketId
  <2>3. e.claim[k] = Draft(IF row \in NecRows THEN "CANDIDACY" ELSE "ROLE", PersonId(row), row, None)
    BY <1>1, <2>2
  <2>4. PersonId(row) \in DOMAIN e.person
    BY <1>1
  <2> HIDE DEF ks
  <2> QED
    BY <2>3, <2>4 DEF Draft, ClaimFields
<1>5. ASSUME NEW l \in ls
      PROVE  DOMAIN l = LinkFields /\ l.person \in DOMAIN e.person /\ l.row \in rows
  <2>1. PICK row \in made : l = Link(PacketId(row), PersonId(row), row, "CONTEXT")
    OBVIOUS
  <2>2. PersonId(row) \in DOMAIN e.person
    BY <1>1
  <2> HIDE DEF ls
  <2> QED
    BY <2>1, <2>2 DEF Link, LinkFields
<1>6. Adds(d, e, ks, ls, rows)
  <2> HIDE DEF ks, ls, ps
  <2> QED
    BY <1>1, <1>2, <1>3, <1>4, <1>5 DEF Adds
<1>7. Formed(e, rows)
  BY <1>0, <1>6, AddedIsFormed
<1>8. ASSUME NEW p \in Batches(e)
      PROVE  \E row \in rows : PersonId(row) = p /\ Present(e, row) = {TRUE}
  <2>1. CASE p \in ps
    <3>1. PICK row \in made : p = PersonId(row)
      BY <2>1
    <3>2. PersonId(row) \in DOMAIN e.person /\ PacketId(row) \in DOMAIN e.claim
      BY <1>1
    <3> DEFINE l == Link(PacketId(row), PersonId(row), row, "CONTEXT")
    <3>3. l \in e.link /\ l.id = PacketId(row)
      BY <1>1 DEF Link
    <3> HIDE DEF l
    <3>4. Whole(e, row)
      BY <3>2, <3>3 DEF Whole, PacketLinks
    <3> QED
      BY <3>1, <3>4, WholeIsPresent
  <2>2. CASE p \notin ps
    <3>1. p \in Batches(d)
      BY <1>1, <2>2 DEF Batches
    <3>2. PICK row \in rows : PersonId(row) = p /\ Present(d, row) = {TRUE}
      BY <3>1 DEF Sound
    <3> HIDE DEF ps, ks, ls
    <3>3. \A l \in d.link : l \in e.link
      BY <1>1
    <3>4. Present(e, row) = {TRUE}
      BY <1>1, <3>2, <3>3, WholeAgain
    <3> QED
      BY <3>2, <3>4
  <2> QED
    BY <2>1, <2>2
<1>9. ASSUME NEW k \in Packets(e) PROVE \E row \in rows : k = PacketId(row)
  <2>1. CASE k \in ks
    BY <2>1
  <2>2. CASE k \notin ks
    <3>1. k \in Packets(d)
      BY <1>1, <2>2 DEF Packets
    <3> QED
      BY <3>1 DEF Sound
  <2> QED
    BY <2>1, <2>2
<1>10. Sound(e, rows)
  <2>1. /\ DOMAIN e = {"claim", "person", "link", "review"}
        /\ IsFiniteSet(DOMAIN e.claim) /\ IsFiniteSet(DOMAIN e.person) /\ IsFiniteSet(e.link)
        /\ \A c \in DOMAIN e.claim :
             /\ DOMAIN e.claim[c] = {"kind", "subject", "row", "origin", "status", "live"}
             /\ e.claim[c].subject \in DOMAIN e.person \cup {Org} /\ e.claim[c].row \in rows
        /\ \A p \in DOMAIN e.person :
             DOMAIN e.person[p] = {"name", "aliases", "status", "active"}
        /\ \A l \in e.link :
             /\ DOMAIN l = {"id", "person", "row", "how", "live"}
             /\ l.person \in DOMAIN e.person /\ l.row \in rows
    BY <1>7 DEF Formed, ClaimsFormed, PersonsFormed, LinksFormed, Tables, ClaimFields, PersonFields, LinkFields
  <2> HIDE DEF ks, ls, ps
  <2> QED
    BY <1>8, <1>9, <2>1 DEF Sound
<1> QED
  BY <1>10 DEF e

LEMMA SeenKept ==
  ASSUME SeenInv, stored \subseteq stored', DOMAIN job' \subseteq DOMAIN job,
         \A w \in DOMAIN job' : job'[w] = job[w]
  PROVE  SeenInv'
  BY DEF SeenInv

LEMMA LeftSeen ==
  ASSUME SeenInv, NEW w \in DOMAIN job, Leave(w)
  PROVE  SeenInv' /\ site' = site /\ stored' = stored
<1>1. /\ DOMAIN job' = DOMAIN job \ {w} /\ stored' = stored /\ site' = site
      /\ \A v \in DOMAIN job \ {w} : job'[v] = job[v]
  BY DEF Leave, Restrict
<1> QED
  BY <1>1, SeenKept

LEMMA NextSound == ASSUME SoundInv, RosterInv, Inv, [Next]_vars PROVE SoundInv'
<1> USE DEF SoundInv
<1>1. CASE UNCHANGED vars
  BY <1>1 DEF vars, SiteInv, SeenInv
<1>2. ASSUME NEW s \in Scopes, Collect(s) PROVE SoundInv'
  <2>1. /\ stored \subseteq stored' /\ UNCHANGED <<db, job>>
        /\ site' = [site EXCEPT !.runs = @ - 1]
    BY <1>2 DEF Collect
  <2>2. site'.commands = site.commands /\ site'.actions = site.actions
    BY <2>1
  <2>3. Sound(db, stored')
    BY <2>1, SoundGrows
  <2>4. SeenInv'
    BY <2>1, SeenKept
  <2>5. Sound(db, stored)'
    BY <2>1, <2>3
  <2> QED
    BY <2>2, <2>4, <2>5 DEF SiteInv
<1>3. ASSUME NEW row \in AlioRows, Import(row) PROVE SoundInv'
  <2>1. Sound(db', stored)
    BY <1>3, ImportIsSound
  <2>2. UNCHANGED <<site, stored, job>>
    BY <1>3 DEF Import
  <2>3. Sound(db, stored)'
    BY <2>1, <2>2
  <2> QED
    BY <2>2, <2>3 DEF SiteInv, SeenInv
<1>4. CASE Command
  BY <1>4, CommandIsSound
<1>5. ASSUME NEW w \in Workers, DryRun(w) \/ Commit(w) PROVE SoundInv'
  <2>1. ASSUME NEW lane, NEW scopes, NEW expected, Start(w, lane, scopes, expected)
        PROVE  SoundInv'
    <3> DEFINE j == Job(lane, scopes, expected)
    <3>1. j.seen.rows = {}
      BY DEF Job
    <3>2. /\ DOMAIN job' = DOMAIN job \cup {w} /\ job'[w] = j
          /\ \A v \in DOMAIN job : job'[v] = job[v]
      BY <2>1 DEF Start, Put
    <3>3. UNCHANGED <<db, stored>> /\ site' = [site EXCEPT !.jobs = @ - 1]
      BY <2>1 DEF Start
    <3>4. site'.commands = site.commands /\ site'.actions = site.actions
      BY <3>3
    <3> HIDE DEF j
    <3>5. SeenInv'
      BY <3>1, <3>2, <3>3 DEF SeenInv
    <3>6. Sound(db, stored)'
      BY <3>3
    <3> QED
      BY <3>4, <3>5, <3>6 DEF SiteInv
  <2> QED
    BY <1>5, <2>1 DEF DryRun, Commit
<1>6. ASSUME NEW w \in DOMAIN job, Leave(w), db' = db PROVE SoundInv'
  <2>1. SeenInv' /\ site' = site /\ stored' = stored
    BY <1>6, LeftSeen
  <2>2. Sound(db, stored)'
    BY <1>6, <2>1
  <2> QED
    BY <2>1, <2>2 DEF SiteInv
<1>7. ASSUME NEW w \in Workers, Halt(w) PROVE SoundInv'
  BY <1>6, <1>7 DEF Halt
<1>8. ASSUME NEW w, NEW e, Reads(w, e), e.seen.rows \subseteq stored PROVE SoundInv'
  <2>1. SeenInv'
    BY <1>8 DEF SeenInv, Reads
  <2>2. Sound(db, stored)'
    BY <1>8 DEF Reads
  <2> QED
    BY <1>8, <2>1, <2>2 DEF SiteInv, Reads
<1>9. ASSUME NEW w \in Workers, NEW s \in Scopes, ReadCheckpoint(w, s) PROVE SoundInv'
  <2>1. CASE Halt(w)
    BY <2>1, <1>7
  <2>2. CASE ~ Halt(w)
    <3>1. roster[s] # None
      BY <1>9, <2>2, CheckpointReads
    <3>2. PICK e : Reads(w, e) /\ e.seen = SeenWith(job[w].seen, roster[s])
      BY <1>9, <2>2, CheckpointReads
    <3>3. e.seen.rows \subseteq job[w].seen.rows \cup roster[s].rows
      BY <3>2 DEF SeenWith
    <3>4. e.seen.rows \subseteq stored
      BY <3>1, <3>2, <3>3 DEF RosterInv, SeenInv, Reads
    <3> QED
      BY <1>8, <3>2, <3>4
  <2> QED
    BY <2>1, <2>2
<1>10. ASSUME NEW w \in Workers, ReadStored(w) PROVE SoundInv'
  <2>1. PICK e : Reads(w, e) /\ e.seen = [job[w].seen EXCEPT !.drifted = @ \cup Drifting(w)]
    BY <1>10, StoredReads
  <2>2. e.seen.rows = job[w].seen.rows
    BY <2>1
  <2> QED
    BY <1>8, <2>1, <2>2 DEF SeenInv, Reads
<1>11. ASSUME NEW w \in Workers, Read(w) PROVE SoundInv'
  <2>1. PICK e : Reads(w, e) /\ e.seen = job[w].seen
    BY <1>11, QueryReads
  <2> QED
    BY <1>8, <2>1 DEF SeenInv, Reads
<1>12. ASSUME NEW w \in Workers, Show(w) PROVE SoundInv'
  BY <1>6, <1>12 DEF Show, Counted
<1>13. ASSUME NEW w \in Workers, Decline(w) PROVE SoundInv'
  BY <1>7, <1>13 DEF Decline
<1>14. ASSUME NEW w \in Workers, Persist(w) PROVE SoundInv'
  <2> DEFINE made == Due(w)
  <2>1. w \in DOMAIN job /\ Leave(w) /\ db' = Persisted(db, made)
    BY <1>14, PersistWrites DEF Persist, Counted
  <2>2. made \subseteq stored
    BY <2>1 DEF Due, Creates, SeenInv
  <2>3. stored \subseteq Rows
    BY DEF RosterInv
  <2> HIDE DEF made
  <2>4. Sound(db', stored)
    BY <2>1, <2>2, <2>3, PersistedIsSound
  <2>5. SeenInv' /\ site' = site /\ stored' = stored
    BY <2>1, LeftSeen
  <2>6. Sound(db, stored)'
    BY <2>4, <2>5
  <2> QED
    BY <2>5, <2>6 DEF SiteInv
<1> QED BY <1>1, <1>2, <1>3, <1>4, <1>5, <1>7, <1>9, <1>10, <1>11, <1>12, <1>13, <1>14 DEF Next

LEMMA BatchSound == Spec => []SoundInv
<1>1. Init => SoundInv
  BY InitSound
<1>2. SoundInv /\ RosterInv /\ Inv /\ [Next]_vars => SoundInv'
  BY NextSound
<1> QED
  BY <1>1, <1>2, RostersAreOwn, CommitsAreFresh, PTL DEF Spec

(* The tables are sound for any rows, workers and commands: whatever       *)
(* operators, imports and batches write refers to rows that exist, a       *)
(* person of the batch has all three parts of a packet, and what a scope   *)
(* lists was collected.                                                    *)
THEOREM BatchTypes == Spec => []TypeOK
<1>1. SoundInv /\ RosterInv /\ Inv => TypeOK
  BY DEF SoundInv, RosterInv, Inv, JobInv, LockInv, TypeOK
<1> QED
  BY <1>1, BatchSound, RostersAreOwn, CommitsAreFresh, PTL

-----------------------------------------------------------------------------
(* What a job has read, and what a commit makes of it.                     *)

Twins(row, v) == v # row /\ ScopeOf[v] = ScopeOf[row] /\ KeyOf[v] = KeyOf[row]

SeenFields == {"lane", "rows", "doubted", "drifted"}

\* A job reads each scope of its lane once, so of two versions among what it
\* has read it knows, once it has compared the scope with what is stored.
ReadInv ==
  \A w \in DOMAIN job :
    LET j == job[w] IN
    /\ DOMAIN j.seen = SeenFields
    /\ j.scopes \subseteq IF j.seen.lane = "ALIO" THEN {AlioScope} ELSE NecScopes
    /\ j.todo \subseteq j.scopes
    /\ \A row \in j.seen.rows : row \in Rows /\ ScopeOf[row] \in j.scopes \ j.todo
    /\ \A row \in j.seen.rows \ j.seen.drifted : ScopeOf[row] \notin j.open =>
         \A v \in j.seen.rows : ~ Twins(row, v)

\* Nothing was made of v, and nobody was linked to it.
Unused(d, v) == PacketId(v) \notin DOMAIN d.claim /\ \A l \in d.link : l.row # v

\* Who has the locks knows of every version that was made use of.
TwinInv ==
  \A w \in locked : \A row \in job[w].seen.rows \ job[w].seen.drifted :
    ScopeOf[row] \notin job[w].open => \A v \in Rows : Twins(row, v) => Unused(db, v)

LEMMA InitReads == Init => ReadInv /\ TwinInv
  BY DEF Init, ReadInv, TwinInv

(* Packets are made of what was collected, and links too.                  *)
LEMMA OthersUnused ==
  ASSUME SoundInv, NEW v, v \notin stored
  PROVE  Unused(db, v)
<1>1. ASSUME PacketId(v) \in DOMAIN db.claim PROVE FALSE
  <2>1. PacketId(v) \in Packets(db)
    BY <1>1 DEF Packets, PacketId
  <2>2. PICK row \in stored : PacketId(v) = PacketId(row)
    BY <2>1 DEF SoundInv, Sound
  <2> QED
    BY <2>2 DEF PacketId
<1>2. \A l \in db.link : l.row # v
  BY DEF SoundInv, Sound
<1> QED
  BY <1>1, <1>2 DEF Unused

LEMMA ReadsStay ==
  ASSUME ReadInv, TwinInv, DOMAIN job' \subseteq DOMAIN job,
         \A w \in DOMAIN job' : job'[w] = job[w],
         locked' \subseteq locked \cap DOMAIN job', db' = db \/ locked' = {}
  PROVE  (ReadInv /\ TwinInv)'
<1>1. ReadInv'
  BY DEF ReadInv
<1>2. TwinInv'
  BY DEF TwinInv
<1> QED
  BY <1>1, <1>2

LEMMA NextReads ==
  ASSUME ReadInv, TwinInv, SoundInv, RosterInv, Inv, [Next]_vars
  PROVE  (ReadInv /\ TwinInv)'
<1>0. locked \subseteq DOMAIN job
  BY DEF Inv, JobInv
<1>1. CASE UNCHANGED vars
  BY <1>0, <1>1, ReadsStay DEF vars
<1>2. ASSUME NEW s \in Scopes, Collect(s) PROVE (ReadInv /\ TwinInv)'
  BY <1>0, <1>2, ReadsStay DEF Collect
<1>3. ASSUME NEW row \in AlioRows, Import(row) PROVE (ReadInv /\ TwinInv)'
  BY <1>0, <1>3, ReadsStay DEF Import
<1>4. CASE Command
  BY <1>0, <1>4, ReadsStay DEF Command
<1>5. ASSUME NEW w \in Workers, NEW lane, NEW scopes, NEW expected,
             Start(w, lane, scopes, expected), scopes \in LaneScopes(lane), locked' \subseteq locked \cup {w}
      PROVE  (ReadInv /\ TwinInv)'
  <2> DEFINE j == Job(lane, scopes, expected)
  <2>1. /\ j.seen.rows = {} /\ j.todo = scopes /\ j.open = {} /\ j.scopes = scopes /\ j.seen.lane = lane
        /\ DOMAIN j.seen = SeenFields
    BY DEF Job, SeenFields
  <2>2. /\ DOMAIN job' = DOMAIN job \cup {w} /\ job'[w] = j /\ w \notin DOMAIN job
        /\ \A v \in DOMAIN job : job'[v] = job[v]
    BY <1>5 DEF Start, Put
  <2>3. db' = db
    BY <1>5 DEF Start
  <2>4. scopes \subseteq IF lane = "ALIO" THEN {AlioScope} ELSE NecScopes
    BY <1>5 DEF LaneScopes
  <2> HIDE DEF j
  <2>5. ReadInv'
    BY <2>1, <2>2, <2>4 DEF ReadInv
  <2>6. TwinInv'
    BY <1>0, <1>5, <2>1, <2>2, <2>3 DEF TwinInv
  <2> QED
    BY <2>5, <2>6
<1>6. ASSUME NEW w \in Workers, DryRun(w) PROVE (ReadInv /\ TwinInv)'
  BY <1>5, <1>6 DEF DryRun
<1>7. ASSUME NEW w \in Workers, Commit(w) PROVE (ReadInv /\ TwinInv)'
  BY <1>5, <1>7 DEF Commit
<1>8. ASSUME NEW w \in DOMAIN job, Leave(w), db' = db \/ w \in locked PROVE (ReadInv /\ TwinInv)'
  <2>1. /\ DOMAIN job' = DOMAIN job \ {w} /\ locked' = locked \ {w}
        /\ \A v \in DOMAIN job \ {w} : job'[v] = job[v]
    BY <1>8 DEF Leave, Restrict
  <2>2. db' = db \/ locked' = {}
    BY <1>8, <2>1 DEF Inv, LockInv
  <2> QED
    BY <1>0, <2>1, <2>2, ReadsStay
<1>9. ASSUME NEW w \in Workers, Halt(w) PROVE (ReadInv /\ TwinInv)'
  BY <1>8, <1>9 DEF Halt
<1>10. ASSUME NEW w \in Workers, NEW s \in Scopes, ReadCheckpoint(w, s) PROVE (ReadInv /\ TwinInv)'
  <2>1. CASE Halt(w)
    BY <2>1, <1>9
  <2>2. CASE ~ Halt(w)
    <3> DEFINE r == roster[s]
               old == job[w].seen
    <3>1. s \in job[w].todo /\ job[w].open = {} /\ r # None
      BY <1>10, <2>2, CheckpointReads
    <3>2. PICK e : /\ Reads(w, e) /\ e.todo = job[w].todo \ {s} /\ e.open = {s}
                   /\ e.seen = SeenWith(old, r)
      BY <1>10, <2>2, CheckpointReads
    <3>3. \A row \in r.rows : row \in Rows /\ ScopeOf[row] = s
      BY <3>1 DEF RosterInv, OfScope
    <3>4. DOMAIN old = SeenFields /\ w \in DOMAIN job
      BY <3>2 DEF ReadInv, Reads
    <3>5. /\ DOMAIN e.seen = SeenFields /\ e.seen.lane = old.lane
          /\ e.seen.rows = old.rows \cup r.rows /\ e.seen.drifted = old.drifted
      <4> HIDE DEF old, r
      <4> QED
        BY <3>2, <3>4 DEF SeenWith, SeenFields
    <3>6. /\ e.scopes \subseteq IF e.seen.lane = "ALIO" THEN {AlioScope} ELSE NecScopes
          /\ e.todo \subseteq e.scopes /\ s \in e.scopes \ e.todo
          /\ \A row \in old.rows : /\ row \in Rows /\ ScopeOf[row] \in e.scopes \ e.todo
                                   /\ ScopeOf[row] # s
          /\ \A row \in old.rows \ old.drifted : \A v \in old.rows : ~ Twins(row, v)
      BY <3>1, <3>2, <3>4, <3>5 DEF ReadInv, Reads
    <3>7. \A row \in e.seen.rows : row \in Rows /\ ScopeOf[row] \in e.scopes \ e.todo
      BY <3>3, <3>5, <3>6
    <3>8. ASSUME NEW row \in e.seen.rows \ e.seen.drifted, ScopeOf[row] \notin e.open
          PROVE  row \in old.rows \ old.drifted /\ \A v \in e.seen.rows : ~ Twins(row, v)
      <4>1. row \in old.rows \ old.drifted
        BY <3>2, <3>3, <3>5, <3>8
      <4> HIDE DEF old, r
      <4> QED
        BY <3>3, <3>5, <3>6, <4>1 DEF Twins
    <3>9. ReadInv'
      BY <3>2, <3>5, <3>6, <3>7, <3>8 DEF ReadInv, Reads
    <3>10. TwinInv'
      <4>1. ASSUME w \in locked, NEW row \in e.seen.rows \ e.seen.drifted, ScopeOf[row] \notin e.open,
                   NEW v \in Rows, Twins(row, v)
            PROVE  Unused(db, v)
        BY <3>1, <3>8, <4>1 DEF TwinInv
      <4>2. ASSUME NEW u \in locked \ {w} PROVE job'[u] = job[u]
        BY <1>0, <3>2 DEF Reads
      <4> QED
        BY <3>2, <4>1, <4>2 DEF TwinInv, Reads
    <3> QED
      BY <3>9, <3>10
  <2> QED
    BY <2>1, <2>2
<1>11. ASSUME NEW w \in Workers, ReadStored(w) PROVE (ReadInv /\ TwinInv)'
  <2> DEFINE old == job[w].seen
  <2>1. PICK e : /\ Reads(w, e) /\ e.todo = job[w].todo /\ e.open = {}
                 /\ e.seen = [old EXCEPT !.drifted = @ \cup Drifting(w)]
    BY <1>11, StoredReads
  <2>2. DOMAIN old = SeenFields /\ w \in DOMAIN job
    BY <2>1 DEF ReadInv, Reads
  <2>3. /\ DOMAIN e.seen = SeenFields /\ e.seen.lane = old.lane
        /\ e.seen.rows = old.rows /\ e.seen.drifted = old.drifted \cup Drifting(w)
    <3> HIDE DEF old
    <3> QED
      BY <2>1, <2>2 DEF SeenFields
  <2>4. old.rows \subseteq stored
    BY <2>2 DEF SoundInv, SeenInv
  <2>5. ASSUME NEW row \in e.seen.rows \ e.seen.drifted
        PROVE  \/ row \in old.rows \ old.drifted /\ ScopeOf[row] \notin job[w].open
               \/ \A v \in stored : ~ Twins(row, v)
    BY <2>3 DEF Drifting, Drifted, Twins
  <2>6. ASSUME NEW row \in e.seen.rows \ e.seen.drifted, NEW v \in e.seen.rows
        PROVE  ~ Twins(row, v)
    BY <2>2, <2>3, <2>4, <2>5 DEF ReadInv
  <2>9. /\ e.scopes \subseteq IF e.seen.lane = "ALIO" THEN {AlioScope} ELSE NecScopes
        /\ e.todo \subseteq e.scopes
        /\ \A row \in e.seen.rows : row \in Rows /\ ScopeOf[row] \in e.scopes \ e.todo
    BY <2>1, <2>2, <2>3 DEF ReadInv, Reads
  <2> HIDE DEF old
  <2>7. ReadInv'
    <3>1. Reads(w, e)
      BY <2>1
    <3> QED
      BY <2>3, <2>6, <2>9, <3>1 DEF ReadInv, Reads
  <2>8. TwinInv'
    <3>1. ASSUME w \in locked, NEW row \in e.seen.rows \ e.seen.drifted, NEW v \in Rows, Twins(row, v)
          PROVE  Unused(db, v)
      <4>1. CASE v \in stored
        BY <2>5, <3>1, <4>1 DEF TwinInv, old
      <4>2. CASE v \notin stored
        BY <4>2, OthersUnused
      <4> QED
        BY <4>1, <4>2
    <3>2. ASSUME NEW u \in locked \ {w} PROVE job'[u] = job[u]
      BY <1>0, <2>1 DEF Reads
    <3> QED
      BY <2>1, <3>1, <3>2 DEF TwinInv, Reads
  <2> QED
    BY <2>7, <2>8
<1>12. ASSUME NEW w \in Workers, Read(w) PROVE (ReadInv /\ TwinInv)'
  <2>1. job[w].todo = {} /\ job[w].open = {}
    BY <1>12, QueryReads
  <2>2. PICK e : Reads(w, e) /\ e.todo = {} /\ e.open = {} /\ e.seen = job[w].seen
    BY <1>12, QueryReads
  <2>3. ReadInv'
    BY <2>1, <2>2 DEF ReadInv, Reads
  <2>4. TwinInv'
    BY <1>0, <2>1, <2>2 DEF TwinInv, Reads
  <2> QED
    BY <2>3, <2>4
<1>13. ASSUME NEW w \in Workers, Show(w) PROVE (ReadInv /\ TwinInv)'
  BY <1>8, <1>13 DEF Show, Counted
<1>14. ASSUME NEW w \in Workers, Decline(w) PROVE (ReadInv /\ TwinInv)'
  BY <1>9, <1>14 DEF Decline
<1>15. ASSUME NEW w \in Workers, Persist(w) PROVE (ReadInv /\ TwinInv)'
  BY <1>8, <1>15, PersistWrites DEF Persist, Counted
<1> QED
  BY <1>1, <1>2, <1>3, <1>4, <1>6, <1>7, <1>9, <1>10, <1>11, <1>12, <1>13, <1>14, <1>15 DEF Next

LEMMA CountBoth ==
  ASSUME NEW S, IsFiniteSet(S), NEW T, IsFiniteSet(T), S \cap T = {}
  PROVE  Cardinality(S \cup T) = Cardinality(S) + Cardinality(T)
<1>1. Cardinality(S \cup T) = Cardinality(S) + Cardinality(T) - Cardinality(S \cap T)
  BY FS_Union, Zenon
<1>2. Cardinality(S \cap T) = 0
  BY FS_EmptySet
<1>3. Cardinality(S) \in Nat /\ Cardinality(T) \in Nat
  BY FS_CardinalityType
<1> QED
  BY <1>1, <1>2, <1>3

LEMMA CountImage ==
  ASSUME NEW S, IsFiniteSet(S), NEW f, f = [x \in S |-> f[x]],
         \A x, y \in S : f[x] = f[y] => x = y
  PROVE  Cardinality({f[x] : x \in S}) = Cardinality(S)
<1> DEFINE T == {f[x] : x \in S}
<1>1. f \in Surjection(S, T)
  BY DEF Surjection
<1>2. f \in Injection(S, T)
  BY DEF Injection, IsInjective
<1> HIDE DEF T
<1>3. Cardinality(T) = Cardinality(S)
  BY <1>1, <1>2, FS_Surjection, Zenon
<1> QED
  BY <1>3 DEF T

\* Nothing of the packet of row is in d.
Absent(d, row) ==
  PersonId(row) \notin DOMAIN d.person /\ PacketId(row) \notin DOMAIN d.claim /\ PacketLinks(d, row) = {}

LEMMA AbsentPackets ==
  ASSUME NEW d, NEW row, PacketState(d, row) = "ABSENT"
  PROVE  Absent(d, row)
<1> DEFINE a == PersonId(row) \in DOMAIN d.person
           b == PacketId(row) \in DOMAIN d.claim
           c == PacketLinks(d, row) # {}
<1>1. a \in BOOLEAN /\ b \in BOOLEAN /\ c \in BOOLEAN
  OBVIOUS
<1>2. Present(d, row) = {a, b, c}
  BY DEF Present
<1>3. Present(d, row) = {FALSE}
  BY DEF PacketState
<1>4. Absent(d, row) <=> ~ a /\ ~ b /\ ~ c
  BY DEF Absent
<1> HIDE DEF a, b, c
<1>5. {a, b, c} = {FALSE} => ~ a /\ ~ b /\ ~ c
  BY <1>1, Zenon
<1> QED
  BY <1>2, <1>3, <1>4, <1>5, Zenon

(* What has been ruled out of a row to create.                             *)
LEMMA Created ==
  ASSUME NEW d, NEW seen, NEW row, Verdict(d, seen, row) = "CREATE"
  PROVE  /\ PacketState(d, row) = "ABSENT" /\ On(d, row) = {}
         /\ NameOf[row] \notin Taken(d) /\ row \notin seen.drifted
         /\ seen.lane = "ALIO" => \A o \in seen.rows \ {row} : NameOf[o] # NameOf[row]
         /\ seen.lane # "ALIO" => \A o \in seen.rows \ {row} : KeyOf[o] # KeyOf[row]
<1>1. CASE seen.lane = "ALIO"
  <2>1. AlioVerdict(d, seen, row) = "CREATE"
    BY <1>1 DEF Verdict
  <2> QED
    BY <1>1, <2>1, AlioChain
<1>2. CASE seen.lane # "ALIO"
  <2>1. NecVerdict(d, seen, row) = "CREATE"
    BY <1>2 DEF Verdict
  <2> QED
    BY <1>2, <2>1, NecChain
<1> QED
  BY <1>1, <1>2

(* What a commit knows of every row it has due, said of the tables.        *)
LEMMA DueRows ==
  ASSUME NEW w, NEW row \in Due(w)
  PROVE  /\ row \in job[w].seen.rows /\ row \notin job[w].seen.drifted
         /\ Absent(db, row) /\ LinksOn(db, row) = {} /\ ~ Collides(db, NameOf[row])
         /\ job[w].seen.lane = "ALIO" =>
              \A o \in job[w].seen.rows \ {row} : NameOf[o] # NameOf[row]
         /\ job[w].seen.lane # "ALIO" =>
              \A o \in job[w].seen.rows \ {row} : KeyOf[o] # KeyOf[row]
<1> DEFINE seen == job[w].seen
           c == Current(db, seen.rows)
<1>1. row \in seen.rows /\ Verdict(c, seen, row) = "CREATE"
  BY DEF Due, Creates
<1>2. /\ c.active = [p \in Active(db) |-> db.person[p]]
      /\ c.aliases = UNION {db.person[p].aliases : p \in DOMAIN db.person}
      /\ c.person = db.person /\ c.link = db.link /\ c.claim = db.claim
      /\ c.linked = {l \in db.link : l.live /\ l.row \in seen.rows}
  BY CurrentFields
<1> HIDE DEF c, seen
<1>3. /\ PacketState(c, row) = "ABSENT" /\ On(c, row) = {}
      /\ NameOf[row] \notin Taken(c) /\ row \notin seen.drifted
      /\ seen.lane = "ALIO" => \A o \in seen.rows \ {row} : NameOf[o] # NameOf[row]
      /\ seen.lane # "ALIO" => \A o \in seen.rows \ {row} : KeyOf[o] # KeyOf[row]
  BY <1>1, Created
<1>4. Absent(c, row)
  BY <1>3, AbsentPackets
<1>5. Absent(db, row)
  BY <1>2, <1>4 DEF Absent, PacketLinks
<1>6. LinksOn(db, row) = {}
  BY <1>1, <1>2, <1>3 DEF On, LinksOn
<1>7. ~ Collides(db, NameOf[row])
  <2>1. \A p \in Active(db) : db.person[p].name \in Taken(c)
    BY <1>2 DEF Taken
  <2>2. \A p \in DOMAIN db.person : \A name \in db.person[p].aliases : name \in Taken(c)
    BY <1>2 DEF Taken
  <2> QED
    BY <1>3, <2>1, <2>2 DEF Collides
<1> QED
  BY <1>1, <1>3, <1>5, <1>6, <1>7 DEF seen

\* Rows nothing is there of yet, of a person each.
Newcomers(d, made) ==
  /\ made \subseteq Rows
  /\ \A row \in made : Absent(d, row)
  /\ \A row, o \in made : PersonId(row) = PersonId(o) => row = o

LEMMA NewcomersCounted ==
  ASSUME NEW made, made \subseteq Rows,
         \A row, o \in made : PersonId(row) = PersonId(o) => row = o
  PROVE  /\ Cardinality({PersonId(row) : row \in made}) = Cardinality(made)
         /\ Cardinality({PacketId(row) : row \in made}) = Cardinality(made)
         /\ Cardinality({Link(PacketId(row), PersonId(row), row, "CONTEXT") : row \in made}) = Cardinality(made)
<1>1. IsFiniteSet(made)
  BY PacketsAreFinite
<1>2. Cardinality({PersonId(row) : row \in made}) = Cardinality(made)
  <2> DEFINE f == [row \in made |-> PersonId(row)]
  <2>1. /\ f = [row \in made |-> f[row]] /\ {PersonId(row) : row \in made} = {f[row] : row \in made}
        /\ \A x, y \in made : f[x] = f[y] => x = y
    OBVIOUS
  <2> HIDE DEF f
  <2> QED
    BY <1>1, <2>1, CountImage
<1>3. Cardinality({PacketId(row) : row \in made}) = Cardinality(made)
  <2> DEFINE f == [row \in made |-> PacketId(row)]
  <2>1. /\ f = [row \in made |-> f[row]] /\ {PacketId(row) : row \in made} = {f[row] : row \in made}
        /\ \A x, y \in made : f[x] = f[y] => x = y
    BY DEF PacketId
  <2> HIDE DEF f
  <2> QED
    BY <1>1, <2>1, CountImage
<1>4. Cardinality({Link(PacketId(row), PersonId(row), row, "CONTEXT") : row \in made}) = Cardinality(made)
  <2> DEFINE f == [row \in made |-> Link(PacketId(row), PersonId(row), row, "CONTEXT")]
             ls == {Link(PacketId(row), PersonId(row), row, "CONTEXT") : row \in made}
  <2>1. f = [row \in made |-> f[row]] /\ ls = {f[row] : row \in made}
    OBVIOUS
  <2>2. \A x \in made : f[x].row = x
    BY DEF Link
  <2> HIDE DEF f, ls
  <2>3. Cardinality(ls) = Cardinality(made)
    BY <1>1, <2>1, <2>2, CountImage
  <2> QED
    BY <2>3 DEF ls
<1> QED
  BY <1>2, <1>3, <1>4

\* Totals with n more of everything but what is published.
More(totals, n) ==
  [t \in DOMAIN totals |-> IF t = "published" THEN totals[t] ELSE totals[t] + n]

LEMMA TotalsGrow ==
  ASSUME NEW d, NEW rows, Formed(d, rows), NEW made, Newcomers(d, made)
  PROVE  Totals(Persisted(d, made)) = More(Totals(d), Cardinality(made))
<1> DEFINE e == Persisted(d, made)
           n == Cardinality(made)
           ps == {PersonId(row) : row \in made}
           ks == {PacketId(row) : row \in made}
           ls == {Link(PacketId(row), PersonId(row), row, "CONTEXT") : row \in made}
<1>1. /\ DOMAIN e.person = DOMAIN d.person \cup ps
      /\ \A p \in DOMAIN e.person :
           e.person[p] = IF p \in ps
                         THEN [name |-> NameOf[CHOOSE row \in made : PersonId(row) = p],
                               aliases |-> {}, status |-> "REVIEW", active |-> TRUE]
                         ELSE d.person[p]
      /\ e.link = d.link \cup ls
      /\ DOMAIN e.claim = DOMAIN d.claim \cup ks
      /\ \A k \in DOMAIN e.claim :
           e.claim[k] = IF k \in ks
                        THEN Draft(IF k[2] \in NecRows THEN "CANDIDACY" ELSE "ROLE",
                                   PersonId(k[2]), k[2], None)
                        ELSE d.claim[k]
  <2>1. Made(d, e, made)
    BY PersistedRows DEF Formed
  <2> QED
    BY <2>1 DEF Made
<1>2. /\ IsFiniteSet(ps) /\ IsFiniteSet(ks) /\ IsFiniteSet(ls)
      /\ Cardinality(ps) = n /\ Cardinality(ks) = n /\ Cardinality(ls) = n
  BY PacketsAreFinite, NewcomersCounted DEF Newcomers
<1>3. DOMAIN d.person \cap ps = {} /\ DOMAIN d.claim \cap ks = {}
  BY DEF Newcomers, Absent
<1>4. d.link \cap ls = {}
  <2> SUFFICES ASSUME NEW l \in d.link, NEW row \in made, l = Link(PacketId(row), PersonId(row), row, "CONTEXT")
               PROVE FALSE
    OBVIOUS
  <2>1. l.id = PacketId(row)
    BY DEF Link
  <2> QED
    BY <2>1 DEF Newcomers, Absent, PacketLinks
<1>5. \A l \in ls : l.live
  BY DEF Link
<1>6. IsFiniteSet(DOMAIN d.person) /\ IsFiniteSet(DOMAIN d.claim) /\ IsFiniteSet(d.link)
  BY DEF Formed, PersonsFormed, ClaimsFormed, LinksFormed
<1> HIDE DEF e, ps, ks, ls
<1>7. ASSUME NEW k \in ks PROVE e.claim[k].live = TRUE /\ e.claim[k].status = "DRAFT"
  <2>1. k \in DOMAIN e.claim
    BY <1>1
  <2>2. e.claim[k] = Draft(IF k[2] \in NecRows THEN "CANDIDACY" ELSE "ROLE", PersonId(k[2]), k[2], None)
    BY <1>1, <2>1
  <2> QED
    BY <2>2 DEF Draft
<1>8. ASSUME NEW p \in ps PROVE e.person[p].active = TRUE
  <2>1. p \in DOMAIN e.person
    BY <1>1
  <2> DEFINE name == NameOf[CHOOSE row \in made : PersonId(row) = p]
  <2>2. e.person[p] = [name |-> name, aliases |-> {}, status |-> "REVIEW", active |-> TRUE]
    BY <1>1, <2>1, Zenon
  <2> HIDE DEF name
  <2> QED
    BY <2>2
<1>9. Active(e) = Active(d) \cup ps /\ Active(d) \cap ps = {} /\ Active(d) \subseteq DOMAIN d.person
  BY <1>1, <1>3, <1>8 DEF Active
<1>10. Live(e) = Live(d) \cup ks /\ Live(d) \cap ks = {} /\ Live(d) \subseteq DOMAIN d.claim
  BY <1>1, <1>3, <1>7 DEF Live
<1>11. Public(e) = Public(d)
  BY <1>1, <1>3, <1>7, <1>10 DEF Public
<1>12. {l \in e.link : l.live} = {l \in d.link : l.live} \cup ls
  BY <1>1, <1>5
<1>13. Cardinality(Active(e)) = Cardinality(Active(d)) + n
  <2>1. IsFiniteSet(Active(d))
    BY <1>6, <1>9, FS_Subset
  <2>2. Cardinality(Active(d) \cup ps) = Cardinality(Active(d)) + Cardinality(ps)
    BY <1>2, <1>9, <2>1, CountBoth
  <2> QED
    BY <1>2, <1>9, <2>2
<1>14. Cardinality(Live(e)) = Cardinality(Live(d)) + n
  <2>1. IsFiniteSet(Live(d))
    BY <1>6, <1>10, FS_Subset
  <2>2. Cardinality(Live(d) \cup ks) = Cardinality(Live(d)) + Cardinality(ks)
    BY <1>2, <1>10, <2>1, CountBoth
  <2> QED
    BY <1>2, <1>10, <2>2
<1>15. Cardinality(DOMAIN e.claim) = Cardinality(DOMAIN d.claim) + n
  <2>1. Cardinality(DOMAIN d.claim \cup ks) = Cardinality(DOMAIN d.claim) + Cardinality(ks)
    BY <1>2, <1>3, <1>6, CountBoth
  <2> QED
    BY <1>1, <1>2, <2>1
<1>16. Cardinality({l \in e.link : l.live}) = Cardinality({l \in d.link : l.live}) + n
  <2> DEFINE old == {l \in d.link : l.live}
  <2>1. old \subseteq d.link /\ old \cap ls = {}
    BY <1>4
  <2> HIDE DEF old
  <2>2. IsFiniteSet(old)
    BY <1>6, <2>1, FS_Subset
  <2>3. Cardinality(old \cup ls) = Cardinality(old) + Cardinality(ls)
    BY <1>2, <2>1, <2>2, CountBoth
  <2>4. {l \in e.link : l.live} = old \cup ls
    BY <1>12 DEF old
  <2>5. Cardinality({l \in e.link : l.live}) = Cardinality(old) + n
    BY <1>2, <2>3, <2>4
  <2> QED
    BY <2>5 DEF old
<1> DEFINE a == Totals(d)
           b == Totals(e)
<1>17. /\ DOMAIN a = {"people", "claims", "evidence", "links", "published"}
       /\ b = [people |-> b.people, claims |-> b.claims, evidence |-> b.evidence,
               links |-> b.links, published |-> b.published]
  BY DEF Totals
<1>18. /\ b.people = a.people + n /\ b.claims = a.claims + n /\ b.evidence = a.evidence + n
       /\ b.links = a.links + n /\ b.published = a.published
  BY <1>11, <1>13, <1>14, <1>15, <1>16 DEF Totals
<1> HIDE DEF a, b, n
<1>19. b = [t \in DOMAIN a |-> IF t = "published" THEN a[t] ELSE a[t] + n]
  BY <1>17, <1>18
<1> QED
  BY <1>19 DEF a, b, e, n, More

BatchInv == Inv /\ RosterInv /\ SoundInv /\ ReadInv /\ TwinInv

LEMMA BatchHolds == Spec => []BatchInv
<1>1. Init => ReadInv /\ TwinInv
  BY InitReads
<1>2. ReadInv /\ TwinInv /\ SoundInv /\ RosterInv /\ Inv /\ [Next]_vars => ReadInv' /\ TwinInv'
  BY NextReads
<1> QED
  BY <1>1, <1>2, BatchSound, RostersAreOwn, CommitsAreFresh, PTL DEF Spec, BatchInv

(* Commits alone make packets.                                             *)
LEMMA OthersMakeNone ==
  ASSUME BatchInv, [Next]_vars, ~ \E w \in Workers : Persist(w)
  PROVE  Packets(db') \subseteq Packets(db)
<1> USE DEF BatchInv
<1>1. CASE db' = db
  BY <1>1
<1>2. CASE After(db, db', stored)
  BY <1>2 DEF After, Kept, Packets
<1>3. UNCHANGED vars => db' = db
  BY DEF vars
<1>4. \A s \in Scopes : Collect(s) => db' = db
  BY DEF Collect
<1>5. \A row \in AlioRows : Import(row) => After(db, db', stored)
  BY ImportKeeps
<1>6. Command => After(db, db', stored)
  BY CommandKeeps
<1>7. \A w \in Workers : DryRun(w) \/ Commit(w) => db' = db
  BY DEF DryRun, Commit, Start
<1>8. \A w \in Workers : Halt(w) \/ Decline(w) \/ Show(w) \/ ReadStored(w) \/ Read(w) => db' = db
  BY DEF Halt, Decline, Show, ReadStored, Read
<1>9. \A w \in Workers : \A s \in Scopes : ReadCheckpoint(w, s) => db' = db
  BY <1>8 DEF ReadCheckpoint
<1> QED
  BY <1>1, <1>2, <1>3, <1>4, <1>5, <1>6, <1>7, <1>8, <1>9 DEF Next

(* The rows a commit writes packets of.                                    *)
LEMMA CommitsMakeNew ==
  ASSUME BatchInv, NEW w \in Workers, Persist(w)
  PROVE  LET made == Due(w) IN
         /\ db' = Persisted(db, made) /\ Newcomers(db, made)
         /\ \A row \in made :
              /\ ~ Collides(db, NameOf[row]) /\ LinksOn(db, row) = {}
              /\ \A v \in Rows : Twins(row, v) => Unused(db, v) /\ v \notin made
              /\ \A o \in made \ {row} : NameOf[o] = NameOf[row] => {o, row} \subseteq NecRows
<1> DEFINE made == Due(w)
           seen == job[w].seen
<1>1. db' = Persisted(db, made) /\ w \in locked
  BY PersistWrites DEF BatchInv
<1>2. w \in DOMAIN job /\ "published" \in DOMAIN job[w].view
  BY DEF Persist, Counted
<1>3. job[w].open = {}
  BY <1>2 DEF BatchInv, Inv, JobInv
<1>4. ASSUME NEW row \in made
      PROVE  /\ row \in seen.rows /\ row \notin seen.drifted
             /\ Absent(db, row) /\ LinksOn(db, row) = {} /\ ~ Collides(db, NameOf[row])
             /\ seen.lane = "ALIO" => \A o \in seen.rows \ {row} : NameOf[o] # NameOf[row]
             /\ seen.lane # "ALIO" => \A o \in seen.rows \ {row} : KeyOf[o] # KeyOf[row]
  BY <1>4, DueRows
<1>5. /\ \A row \in seen.rows : row \in Rows /\ ScopeOf[row] \in IF seen.lane = "ALIO" THEN {AlioScope} ELSE NecScopes
      /\ \A row \in seen.rows \ seen.drifted : \A v \in seen.rows : ~ Twins(row, v)
  BY <1>2, <1>3 DEF BatchInv, ReadInv
<1>6. \A row \in seen.rows \ seen.drifted : \A v \in Rows : Twins(row, v) => Unused(db, v)
  BY <1>1, <1>3 DEF BatchInv, TwinInv
<1> HIDE DEF seen, made
<1>7. ASSUME NEW row \in made
      PROVE  IF seen.lane = "ALIO" THEN row \notin NecRows ELSE row \in NecRows
  <2>1. row \in Rows /\ ScopeOf[row] \in IF seen.lane = "ALIO" THEN {AlioScope} ELSE NecScopes
    BY <1>4, <1>5
  <2> QED
    BY <2>1, RowsAreScoped DEF Rows
<1>8. ASSUME NEW row \in made, NEW o \in made, PersonId(row) = PersonId(o) PROVE row = o
  <2>1. CASE seen.lane = "ALIO"
    BY <1>7, <1>8, <2>1 DEF PersonId
  <2>2. CASE seen.lane # "ALIO"
    <3>1. KeyOf[row] = KeyOf[o]
      BY <1>7, <1>8, <2>2 DEF PersonId
    <3> QED
      BY <1>4, <2>2, <3>1
  <2> QED
    BY <2>1, <2>2
<1>9. Newcomers(db, made)
  BY <1>4, <1>5, <1>8 DEF Newcomers
<1>10. ASSUME NEW row \in made, NEW v \in Rows, Twins(row, v)
       PROVE  Unused(db, v) /\ v \notin made
  BY <1>4, <1>5, <1>6, <1>10
<1>11. ASSUME NEW row \in made, NEW o \in made \ {row}, NameOf[o] = NameOf[row]
       PROVE  {o, row} \subseteq NecRows
  <2>1. seen.lane # "ALIO"
    BY <1>4, <1>11
  <2> QED
    BY <1>7, <2>1
<1> QED
  BY <1>1, <1>4, <1>9, <1>10, <1>11 DEF made

(* Nobody a batch makes was known, and the totals grow by what it made,    *)
(* for any rows, rosters, workers and commands beside it.                  *)
THEOREM BatchMakesNewcomers == Spec => NewcomersAreNew
<1> DEFINE made == Packets(db') \ Packets(db)
           n == Cardinality(made)
           New == made # {} =>
             /\ Totals(db') = [t \in DOMAIN Totals(db) |->
                                IF t = "published" THEN Totals(db)[t] ELSE Totals(db)[t] + n]
             /\ \A k \in made : LET row == k[2] IN
                  /\ ~ Collides(db, NameOf[row])
                  /\ \A v \in stored \ {row} :
                       ScopeOf[v] = ScopeOf[row] /\ KeyOf[v] = KeyOf[row]
                       => PacketId(v) \notin DOMAIN db'.claim
                  /\ \A m \in made \ {k} :
                       NameOf[m[2]] = NameOf[row] => {m[2], row} \subseteq NecRows
<1>1. ASSUME BatchInv, [Next]_vars PROVE New
  <2>1. CASE ~ \E w \in Workers : Persist(w)
    <3>1. made = {}
      BY <1>1, <2>1, OthersMakeNone
    <3> HIDE DEF made, n
    <3> QED
      BY <3>1
  <2>2. ASSUME NEW w \in Workers, Persist(w) PROVE New
    <3> DEFINE rows == Due(w)
    <3>1. db' = Persisted(db, rows) /\ Newcomers(db, rows)
      BY <1>1, <2>2, CommitsMakeNew
    <3>2. /\ Newcomers(db, rows)
          /\ \A row \in rows :
               /\ ~ Collides(db, NameOf[row])
               /\ \A v \in Rows : Twins(row, v) => PacketId(v) \notin DOMAIN db.claim /\ v \notin rows
               /\ \A o \in rows \ {row} : NameOf[o] = NameOf[row] => {o, row} \subseteq NecRows
      BY <1>1, <2>2, CommitsMakeNew DEF Unused
    <3> HIDE DEF rows
    <3>11. stored \subseteq Rows
      BY <1>1 DEF BatchInv, RosterInv
    <3>3. Formed(db, stored)
      BY <1>1, SoundIsFormed DEF BatchInv, SoundInv
    <3>4. Totals(db') = More(Totals(db), Cardinality(rows))
      BY <3>1, <3>2, <3>3, TotalsGrow
    <3>5. DOMAIN db'.claim = DOMAIN db.claim \cup {PacketId(row) : row \in rows}
      <4>1. Made(db, Persisted(db, rows), rows)
        BY <3>3, PersistedRows DEF Formed
      <4> QED
        BY <3>1, <4>1 DEF Made
    <3>6. made = {PacketId(row) : row \in rows}
      BY <3>2, <3>5 DEF Packets, PacketId, Newcomers, Absent
    <3>7. Cardinality(made) = Cardinality(rows)
      BY <3>2, <3>6, NewcomersCounted DEF Newcomers
    <3>8. \A k \in made : k[2] \in rows /\ k = PacketId(k[2])
      BY <3>6 DEF PacketId
    <3>9. \A v : PacketId(v) \in DOMAIN db'.claim => PacketId(v) \in DOMAIN db.claim \/ v \in rows
      BY <3>5 DEF PacketId
    <3> HIDE DEF made
    <3>10. ASSUME NEW k \in made
           PROVE  /\ ~ Collides(db, NameOf[k[2]])
                  /\ \A v \in stored \ {k[2]} :
                       ScopeOf[v] = ScopeOf[k[2]] /\ KeyOf[v] = KeyOf[k[2]]
                       => PacketId(v) \notin DOMAIN db'.claim
                  /\ \A m \in made \ {k} :
                       NameOf[m[2]] = NameOf[k[2]] => {m[2], k[2]} \subseteq NecRows
      <4>1. k[2] \in rows /\ k = PacketId(k[2])
        BY <3>8
      <4>2. \A v \in stored \ {k[2]} :
              ScopeOf[v] = ScopeOf[k[2]] /\ KeyOf[v] = KeyOf[k[2]] => PacketId(v) \notin DOMAIN db'.claim
        BY <3>2, <3>9, <3>11, <4>1 DEF Twins
      <4>3. ASSUME NEW m \in made \ {k}, NameOf[m[2]] = NameOf[k[2]]
            PROVE  {m[2], k[2]} \subseteq NecRows
        <5>1. m[2] \in rows /\ m[2] # k[2]
          BY <3>8, <4>1
        <5> QED
          BY <3>2, <4>1, <4>3, <5>1
      <4> QED
        BY <3>2, <4>1, <4>2, <4>3
    <3> QED
      BY <3>4, <3>7, <3>10 DEF More
  <2> QED
    BY <2>1, <2>2
<1>2. BatchInv /\ [Next]_vars => [New]_vars
  BY <1>1
<1>3. Spec => []BatchInv
  BY BatchHolds
<1> QED
  BY <1>2, <1>3, PTL DEF Spec, NewcomersAreNew

-----------------------------------------------------------------------------
(* A record is somebody's once.                                            *)

(* Ended links do no harm, and none is added that is not a current one's   *)
(* successor.                                                              *)
LEMMA FewerLinks ==
  ASSUME NEW d, NEW e, LinkedOnce(d), \A l \in e.link : l.live => l \in d.link
  PROVE  LinkedOnce(e)
  BY DEF LinkedOnce

LEMMA SameLinks ==
  ASSUME NEW d, NEW e, LinkedOnce(d), e.link = d.link
  PROVE  LinkedOnce(e)
  BY FewerLinks

(* A new link, on a row that has none, and no other version either.        *)
LEMMA OneMoreLink ==
  ASSUME NEW d, NEW e, NEW rows, LinkedOnce(d), LinksFormed(d.link, d.person, rows),
         NEW k, e.link = d.link \cup {k}, LinksOn(d, k.row) = {}, ~ Drifted(k.row, rows)
  PROVE  LinkedOnce(e)
<1>1. ASSUME NEW l \in d.link, l.live PROVE ~ SameRecord(l.row, k.row)
  BY <1>1 DEF LinksFormed, LinksOn, Drifted, SameRecord
<1> QED
  BY <1>1 DEF LinkedOnce, SameRecord

LEMMA EndedLinks ==
  ASSUME NEW rows, NEW d, Formed(d, rows), NEW a, DOMAIN a = Tables, a.link = d.link,
         NEW ls, ls \subseteq d.link
  PROVE  \A l \in Unlinked(a, ls).link : l.live => l \in d.link \ ls
<1> DEFINE ended == {[l EXCEPT !.live = FALSE] : l \in ls}
<1>1. Unlinked(a, ls).link = (d.link \ ls) \cup ended
  BY DEF Unlinked, Tables
<1>2. ASSUME NEW m \in ended PROVE ~ m.live
  <2>1. PICK l \in ls : m = [l EXCEPT !.live = FALSE]
    OBVIOUS
  <2>2. DOMAIN l = LinkFields
    BY DEF Formed, LinksFormed
  <2>3. m.live = FALSE
    BY <2>1, <2>2 DEF LinkFields
  <2> QED
    BY <2>3
<1> HIDE DEF ended
<1> QED
  BY <1>1, <1>2

LEMMA PublishLinks ==
  ASSUME NEW d, DOMAIN d = Tables, NEW c
  PROVE  Publish(d, d, c).link = d.link
<1> DEFINE a == Marked(d, Replaced(d, c), "WITHHELD")
           b == Superseded(a, Replaced(d, c))
<1>1. DOMAIN a = Tables /\ a.link = d.link
  BY DEF Marked, Tables
<1>2. Publish(d, d, c) = Marked(b, {c}, "PUBLISHED")
  BY DEF Publish
<1> HIDE DEF a
<1>3. DOMAIN b = Tables /\ b.link = a.link
  BY <1>1 DEF Superseded, Tables
<1> HIDE DEF b
<1>4. Marked(b, {c}, "PUBLISHED").link = b.link
  BY <1>3 DEF Marked, Tables
<1> QED
  BY <1>1, <1>2, <1>3, <1>4

LEMMA RegisterLinks ==
  ASSUME NEW d, DOMAIN d = Tables, NEW row, NEW r
  PROVE  Register(d, row, r).link = d.link \cup {Link(<<r, row>>, <<r, row>>, row, "REVIEWED")}
<1> DEFINE id == <<r, row>>
           a == Attributed(d, row, id, r, "REVIEWED", Draft("ROLE", id, row, None))
           q == [name |-> NameOf[row], aliases |-> {}, status |-> "RESOLVED", active |-> TRUE]
<1>1. DOMAIN a = Tables /\ a.link = d.link \cup {Link(id, id, row, "REVIEWED")}
  BY AttributedRows
<1>2. Register(d, row, r) = [a EXCEPT !.person = Put(@, id, q)]
  BY DEF Register
<1> HIDE DEF a, q
<1>3. Register(d, row, r).link = a.link
  BY <1>1, <1>2 DEF Tables
<1> QED
  BY <1>1, <1>3

LEMMA LinkPersonLinks ==
  ASSUME NEW d, DOMAIN d = Tables, NEW row, NEW p, NEW r
  PROVE  LinkPerson(d, d, row, p, r).link = d.link \cup {Link(<<r, row>>, p, row, "REVIEWED")}
<1> DEFINE k == IF row \in AlioRows THEN Draft("ROLE", p, row, None)
                ELSE Draft("LINKED", p, row, CHOOSE c \in Listing(d, row) : TRUE)
<1>1. LinkPerson(d, d, row, p, r) = Attributed(d, row, p, r, "REVIEWED", k)
  BY DEF LinkPerson
<1> HIDE DEF k
<1> QED
  BY <1>1, AttributedRows

LEMMA DeactivateLinks ==
  ASSUME NEW rows, NEW d, Formed(d, rows), NEW p
  PROVE  \A l \in Deactivate(d, d, p).link : l.live => l \in d.link
<1> DEFINE ls == LinksOf(d, p)
           a == Marked(d, ClaimsOf(d, p), "WITHHELD")
           b == Unlinked(a, ls)
           c == Reviewed(b, {l.row : l \in ls}, "REJECTED")
<1>1. DOMAIN a = Tables /\ a.link = d.link
  BY DEF Marked, Formed, Tables
<1>2. ls \subseteq d.link
  BY DEF LinksOf
<1>3. Deactivate(d, d, p) = [c EXCEPT !.person[p].active = FALSE]
  BY DEF Deactivate
<1> HIDE DEF a, ls
<1>4. \A l \in b.link : l.live => l \in d.link
  BY <1>1, <1>2, EndedLinks
<1>5. DOMAIN b = Tables
  BY <1>1 DEF Unlinked, Tables
<1> HIDE DEF b
<1>6. DOMAIN c = Tables /\ c.link = b.link
  BY <1>5 DEF Reviewed, Tables
<1> HIDE DEF c
<1>7. Deactivate(d, d, p).link = c.link
  BY <1>3, <1>6 DEF Tables
<1> QED
  BY <1>4, <1>6, <1>7

(* The survivor gets a link for every one that ends.                       *)
LEMMA MergeLinks ==
  ASSUME NEW rows, NEW d, Formed(d, rows), LinkedOnce(d), NEW p, NEW t, NEW r
  PROVE  LinkedOnce(Merge(d, d, p, t, r))
<1> DEFINE ls == LinksOf(d, p)
           a == Superseded(d, ClaimsOf(d, p))
           b == Unlinked(a, ls)
           new == {Link(<<r, l.id>>, t, l.row, "REVIEWED") :
                     l \in {m \in ls : ~ Linked(d, t, m.row)}}
           g == Copies(d, p, t, r)
           e == Merge(d, d, p, t, r)
<1>1. DOMAIN a = Tables /\ a.link = d.link
  BY DEF Superseded, Formed, Tables
<1>2. ls \subseteq d.link /\ \A l \in ls : l.live
  BY DEF LinksOf
<1>3. \A k \in new : \E l \in ls : k = Link(<<r, l.id>>, t, l.row, "REVIEWED")
  OBVIOUS
<1>4. e = [b EXCEPT !.claim = PutAll(@, g), !.link = @ \cup new,
                    !.person[t].aliases = @ \cup d.person[p].aliases,
                    !.person[p].aliases = {}, !.person[p].active = FALSE]
  BY DEF Merge
<1> HIDE DEF a, e, g, new, ls
<1>5. \A l \in b.link : l.live => l \in d.link \ ls
  BY <1>1, <1>2, EndedLinks
<1>6. DOMAIN b = Tables
  BY <1>1 DEF Unlinked, Tables
<1> HIDE DEF b
<1>7. e.link = b.link \cup new
  BY <1>4, <1>6 DEF Tables
<1>8. ASSUME NEW k \in new
      PROVE  \E l \in ls : k = Link(<<r, l.id>>, t, l.row, "REVIEWED") /\ k.row = l.row
  BY <1>3 DEF Link
<1>9. ASSUME NEW k \in new, NEW m \in b.link, m.live PROVE ~ SameRecord(k.row, m.row) /\ ~ SameRecord(m.row, k.row)
  <2>1. PICK l \in ls : k.row = l.row
    BY <1>8
  <2> QED
    BY <1>2, <1>5, <1>9, <2>1 DEF LinkedOnce
<1>10. ASSUME NEW k \in new, NEW m \in new, SameRecord(k.row, m.row) PROVE k = m
  <2>1. PICK l \in ls : k = Link(<<r, l.id>>, t, l.row, "REVIEWED") /\ k.row = l.row
    BY <1>8
  <2>2. PICK h \in ls : m = Link(<<r, h.id>>, t, h.row, "REVIEWED") /\ m.row = h.row
    BY <1>8
  <2>3. l = h
    BY <1>2, <1>10, <2>1, <2>2 DEF LinkedOnce
  <2> QED
    BY <2>1, <2>2, <2>3
<1>11. ASSUME NEW l \in b.link, NEW m \in b.link, l.live, m.live, SameRecord(l.row, m.row) PROVE l = m
  BY <1>5, <1>11 DEF LinkedOnce
<1>12. LinkedOnce(e)
  BY <1>7, <1>9, <1>10, <1>11 DEF LinkedOnce
<1> QED
  BY <1>12 DEF e

LEMMA CommandLinks ==
  ASSUME BatchInv, LinkedOnce(db), Command
  PROVE  LinkedOnce(db')
<1>1. PICK cmd, x : Ordered(cmd, x)
  BY CommandOfOne DEF BatchInv
<1> DEFINE r == site.commands
<1>2. Formed(db, stored)
  BY SoundIsFormed DEF BatchInv, SoundInv
<1>3. DOMAIN db = Tables /\ LinksFormed(db.link, db.person, stored)
  BY <1>2 DEF Formed
<1>4. /\ cmd.action \in Actions /\ Accepts(db, cmd, x)
      /\ cmd.action \in {"REGISTER_PERSON", "LINK_PERSON"} => ~ Drifted(x, stored)
      /\ db' = Effect(db, db, x, r, cmd)
  BY <1>1 DEF Ordered
<1> DEFINE e == db'
<1> HIDE DEF e
<1>5. e = Effect(db, db, x, r, cmd)
  BY <1>4 DEF e
<1> HIDE DEF r
<1>6. CASE cmd.action \in Reviewing
  <2>1. \E state : e = Reviewed(db, {x}, state)
    BY <1>5, <1>6 DEF Effect, Reviewing
  <2>2. e.link = db.link
    BY <1>3, <2>1 DEF Reviewed, Tables
  <2> QED
    BY <2>2, SameLinks DEF e
<1>7. CASE cmd.action = "REGISTER_PERSON"
  <2> DEFINE k == Link(<<r, x>>, <<r, x>>, x, "REVIEWED")
  <2>1. e = Register(db, x, r)
    BY <1>5, <1>7 DEF Effect, Reviewing
  <2>2. e.link = db.link \cup {k} /\ k.row = x
    BY <1>3, <2>1, RegisterLinks DEF Link
  <2>3. LinksOn(db, x) = {} /\ ~ Drifted(x, stored)
    BY <1>4, <1>7 DEF Accepts, Reviewing, MayRegister
  <2> HIDE DEF k
  <2>4. LinksOn(db, k.row) = {} /\ ~ Drifted(k.row, stored)
    BY <2>2, <2>3
  <2> QED
    BY <1>3, <2>2, <2>4, OneMoreLink DEF e
<1>8. CASE cmd.action = "LINK_PERSON"
  <2> DEFINE k == Link(<<r, x>>, cmd.person, x, "REVIEWED")
  <2>1. e = LinkPerson(db, db, x, cmd.person, r)
    BY <1>5, <1>8 DEF Effect, Reviewing
  <2>2. e.link = db.link \cup {k} /\ k.row = x
    BY <1>3, <2>1, LinkPersonLinks DEF Link
  <2>3. LinksOn(db, x) = {} /\ ~ Drifted(x, stored)
    BY <1>4, <1>8 DEF Accepts, Reviewing, MayLink
  <2> HIDE DEF k
  <2>4. LinksOn(db, k.row) = {} /\ ~ Drifted(k.row, stored)
    BY <2>2, <2>3
  <2> QED
    BY <1>3, <2>2, <2>4, OneMoreLink DEF e
<1>9. CASE cmd.action = "SUBMIT_REVIEW" \/ cmd.action = "WITHDRAW"
  <2>1. \E cs, status : e = Marked(db, cs, status)
    BY <1>5, <1>9 DEF Effect, Reviewing, Withdraw
  <2>2. e.link = db.link
    BY <1>3, <2>1 DEF Marked, Tables
  <2> QED
    BY <2>2, SameLinks DEF e
<1>10. CASE cmd.action = "PUBLISH"
  <2>1. e = Publish(db, db, x)
    BY <1>5, <1>10 DEF Effect, Reviewing
  <2> QED
    BY <1>3, <2>1, PublishLinks, SameLinks DEF e
<1>11. CASE cmd.action = "CORRECT_CLAIM"
  <2>1. e = Correct(db, db, x, r)
    BY <1>5, <1>11 DEF Effect, Reviewing
  <2>2. e.link = db.link
    BY <1>3, <2>1 DEF Correct, Tables
  <2> QED
    BY <2>2, SameLinks DEF e
<1>12. CASE cmd.action = "RESOLVE_PERSON"
  <2>1. e = [db EXCEPT !.person[x].status = "RESOLVED"]
    BY <1>5, <1>12 DEF Effect, Reviewing
  <2>2. e.link = db.link
    BY <1>3, <2>1 DEF Tables
  <2> QED
    BY <2>2, SameLinks DEF e
<1>13. CASE cmd.action = "RENAME_PERSON"
  <2>1. e = Rename(db, db, x, cmd.name)
    BY <1>5, <1>13 DEF Effect, Reviewing
  <2>2. e.link = db.link
    BY <1>3, <2>1 DEF Rename, Tables
  <2> QED
    BY <2>2, SameLinks DEF e
<1>14. CASE cmd.action = "DEACTIVATE_PERSON"
  <2>1. e = Deactivate(db, db, x)
    BY <1>5, <1>14 DEF Effect, Reviewing
  <2>2. \A l \in e.link : l.live => l \in db.link
    BY <1>2, <2>1, DeactivateLinks
  <2> QED
    BY <2>2, FewerLinks DEF e
<1>15. CASE cmd.action = "MERGE_PERSON"
  <2>1. e = Merge(db, db, x, cmd.person, r)
    BY <1>5, <1>15 DEF Effect, Reviewing
  <2> QED
    BY <1>2, <2>1, MergeLinks DEF e
<1> QED
  BY <1>4, <1>6, <1>7, <1>8, <1>9, <1>10, <1>11, <1>12, <1>13, <1>14, <1>15 DEF Actions, Batched, Reviewing

(* A batch links rows nobody is linked to, in no version.                  *)
LEMMA PersistLinks ==
  ASSUME BatchInv, LinkedOnce(db), NEW w \in Workers, Persist(w)
  PROVE  LinkedOnce(db')
<1> DEFINE made == Due(w)
           ls == {Link(PacketId(row), PersonId(row), row, "CONTEXT") : row \in made}
           e == Persisted(db, made)
<1>1. /\ db' = e
      /\ \A row \in made : /\ LinksOn(db, row) = {}
                           /\ \A v \in Rows : Twins(row, v) => Unused(db, v) /\ v \notin made
  BY CommitsMakeNew
<1>2. made \subseteq Rows
  BY CommitsMakeNew DEF Newcomers
<1>3. Formed(db, stored) /\ stored \subseteq Rows
  BY SoundIsFormed DEF BatchInv, SoundInv, RosterInv
<1>4. e.link = db.link \cup ls
  <2>1. Made(db, e, made)
    BY <1>3, PersistedRows DEF Formed
  <2> QED
    BY <2>1 DEF Made
<1>5. \A l \in ls : \E row \in made : l = Link(PacketId(row), PersonId(row), row, "CONTEXT") /\ l.row = row
  BY DEF Link
<1>6. \A l \in db.link : l.row \in Rows
  BY <1>3 DEF Formed, LinksFormed
<1> HIDE DEF made, ls, e
<1>7. ASSUME NEW l \in ls, NEW m \in db.link, m.live
      PROVE  ~ SameRecord(l.row, m.row) /\ ~ SameRecord(m.row, l.row)
  <2>1. PICK row \in made : l.row = row
    BY <1>5
  <2>2. m.row # row
    BY <1>1, <1>7 DEF LinksOn
  <2>3. ~ Twins(row, m.row)
    BY <1>1, <1>6 DEF Unused
  <2> QED
    BY <2>1, <2>2, <2>3 DEF Twins, SameRecord
<1>8. ASSUME NEW l \in ls, NEW m \in ls, SameRecord(l.row, m.row) PROVE l = m
  <2>1. PICK row \in made : l = Link(PacketId(row), PersonId(row), row, "CONTEXT") /\ l.row = row
    BY <1>5
  <2>2. PICK v \in made : m = Link(PacketId(v), PersonId(v), v, "CONTEXT") /\ m.row = v
    BY <1>5
  <2>3. row = v
    BY <1>1, <1>2, <1>8, <2>1, <2>2 DEF Twins, SameRecord
  <2> QED
    BY <2>1, <2>2, <2>3
<1>9. LinkedOnce(e)
  BY <1>4, <1>7, <1>8 DEF LinkedOnce
<1> QED
  BY <1>1, <1>9

(* A record of a provider is one person's at a time, in whichever of its   *)
(* versions, for any rows and versions of them, operators and batches.     *)
THEOREM RecordsAreLinkedOnce == Spec => []RecordLinkedOnce
<1>1. Init => RecordLinkedOnce
  BY SitesAssumption DEF Init, RecordLinkedOnce
<1>2. BatchInv /\ RecordLinkedOnce /\ [Next]_vars => RecordLinkedOnce'
  <2> SUFFICES ASSUME BatchInv, LinkedOnce(db), [Next]_vars PROVE LinkedOnce(db')
    BY DEF RecordLinkedOnce
  <2>1. CASE db' = db
    BY <2>1
  <2>2. UNCHANGED vars => db' = db
    BY DEF vars
  <2>3. ASSUME NEW s \in Scopes, Collect(s) PROVE db' = db
    BY <2>3 DEF Collect
  <2>4. ASSUME NEW row \in AlioRows, Import(row) PROVE LinkedOnce(db')
    <3>1. DOMAIN db = Tables
      BY SoundIsFormed DEF BatchInv, SoundInv, Formed
    <3>2. db'.link = db.link
      BY <2>4, <3>1 DEF Import, Tables
    <3> QED
      BY <3>2, SameLinks
  <2>5. Command => LinkedOnce(db')
    BY CommandLinks
  <2>6. ASSUME NEW w \in Workers, DryRun(w) \/ Commit(w) PROVE db' = db
    BY <2>6 DEF DryRun, Commit, Start
  <2>7. ASSUME NEW w \in Workers, Halt(w) \/ Decline(w) \/ Show(w) \/ ReadStored(w) \/ Read(w)
        PROVE  db' = db
    BY <2>7 DEF Halt, Decline, Show, ReadStored, Read
  <2>8. ASSUME NEW w \in Workers, NEW s \in Scopes, ReadCheckpoint(w, s) PROVE db' = db
    BY <2>7, <2>8 DEF ReadCheckpoint
  <2>9. ASSUME NEW w \in Workers, Persist(w) PROVE LinkedOnce(db')
    BY <2>9, PersistLinks
  <2> QED
    BY <2>1, <2>2, <2>3, <2>4, <2>5, <2>6, <2>7, <2>8, <2>9 DEF Next
<1> QED
  BY <1>1, <1>2, BatchHolds, PTL DEF Spec
=============================================================================
