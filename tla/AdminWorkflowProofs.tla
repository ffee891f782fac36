------------------------- MODULE AdminWorkflowProofs -------------------------
(***************************************************************************)
(* What holds of the operator workflow for any number of operators,        *)
(* requests and rows, and batches of any size: the tables stay consistent, *)
(* identities distinct, what is public backed, and what a commit writes is *)
(* what its preview showed.                                                *)
(***************************************************************************)
EXTENDS AdminWorkflow, FiniteSetTheorems, WellFoundedInduction, TLAPS

Tables == {"claim", "person", "link", "review"}
States == {None, "OPEN", "REJECTED", "RESOLVED"}

\* A command as the desk puts it together.
Shape(cmd) ==
  /\ cmd.action \in Actions
  /\ Len(cmd.targets) \in Nat \ {0}
  /\ DOMAIN cmd.targets = 1 .. Len(cmd.targets)
  /\ IsInjective(cmd.targets)
  /\ cmd.action \notin Batched => Len(cmd.targets) = 1
  /\ cmd.action = "RENAME_PERSON" => cmd.name \in Names

-----------------------------------------------------------------------------
(* A plan goes through its targets one by one.                             *)


(* What holds of 0, and of a number when it holds of the one before, holds *)
(* of every number up to n.                                                *)
LEMMA CountUp ==
  ASSUME NEW n \in Nat, NEW G, 0 \in G,
         \A i \in 1 .. n : i - 1 \in G => i \in G
  PROVE  \A i \in 0 .. n : i \in G
<1> SUFFICES ASSUME NEW k \in 0 .. n, k \notin G PROVE FALSE
  OBVIOUS
<1> DEFINE T == {i \in 0 .. n : i \notin G}
<1>1. IsWellFoundedOn(OpToRel(<, Nat), Nat)
  BY NatLessThanWellFounded
<1>2. T \subseteq Nat /\ T # {}
  OBVIOUS
<1>3. PICK x \in T : \A y \in T : ~ (<<y, x>> \in OpToRel(<, Nat))
  <2> HIDE DEF T
  <2> QED BY <1>1, <1>2, WFMin, Zenon
<1>4. x \in 1 .. n /\ x - 1 \in Nat /\ x - 1 < x /\ x - 1 \in 0 .. n
  OBVIOUS
<1>5. x - 1 \notin T
  BY <1>2, <1>3, <1>4 DEF OpToRel
<1> QED
  BY <1>4, <1>5

\* The databases a plan writes on its way, from the one it reads.
Way(s, d, r, cmd) ==
  /\ s[0] = d
  /\ \A i \in 1 .. Len(cmd.targets) : s[i] = Effect(d, s[i - 1], cmd.targets[i], r, cmd)
  /\ Planned(d, r, cmd) = s[Len(cmd.targets)]

(* Every plan has one.                                                     *)
LEMMA Ways ==
  ASSUME NEW d, NEW r, NEW cmd, Len(cmd.targets) \in Nat
  PROVE  \E s : Way(s, d, r, cmd)
<1> DEFINE n == Len(cmd.targets)
           E(a, i) == Effect(d, a, cmd.targets[i], r, cmd)
           Upto(m, s) == s = [i \in 0 .. m |-> IF i = 0 THEN d ELSE E(s[i - 1], i)]
           G == {m \in 0 .. n : \E s : Upto(m, s)}
<1>1. Planned(d, r, cmd) = (CHOOSE s : Upto(n, s))[n]
  BY DEF Planned
<1> HIDE DEF E
<1>2. 0 \in G
  <2>1. Upto(0, [i \in 0 .. 0 |-> d])
    OBVIOUS
  <2>2. \E s : Upto(0, s)
    <3> HIDE DEF Upto
    <3> QED BY <2>1
  <2> QED
    BY <2>2
<1>3. ASSUME NEW m \in 1 .. n, m - 1 \in G PROVE m \in G
  <2>1. PICK s : Upto(m - 1, s)
    BY <1>3
  <2> DEFINE t == [i \in 0 .. m |-> IF i < m THEN s[i] ELSE E(s[m - 1], m)]
  <2>2. Upto(m, t)
    BY <2>1
  <2>3. \E q : Upto(m, q)
    <3> HIDE DEF Upto, t
    <3> QED BY <2>2
  <2> QED
    BY <2>3
<1>4. n \in G
  <2>1. n \in Nat /\ n \in 0 .. n
    OBVIOUS
  <2> HIDE DEF G, n
  <2> QED BY <2>1, <1>2, <1>3, CountUp
<1>5. Upto(n, CHOOSE s : Upto(n, s))
  BY <1>4
<1> DEFINE s == CHOOSE q : Upto(n, q)
<1>6. s = [i \in 0 .. n |-> IF i = 0 THEN d ELSE E(s[i - 1], i)]
  BY <1>5
<1>7. Planned(d, r, cmd) = s[n]
  BY <1>1
<1> HIDE DEF s
<1>8. s[0] = d /\ \A i \in 1 .. n : s[i] = E(s[i - 1], i)
  <2>1. n \in Nat
    OBVIOUS
  <2> HIDE DEF n
  <2>2. 0 \in 0 .. n /\ \A i \in 1 .. n : i \in 0 .. n /\ i # 0
    BY <2>1
  <2>3. s[0] = d
    BY <1>6, <2>2
  <2>4. ASSUME NEW i \in 1 .. n PROVE s[i] = E(s[i - 1], i)
    BY <1>6, <2>2
  <2> QED
    BY <2>3, <2>4
<1> QED
  BY <1>7, <1>8 DEF E, Way

(* A command with one target is the effect on it.                          *)
LEMMA OneTarget ==
  ASSUME NEW d, NEW r, NEW cmd, Len(cmd.targets) = 1
  PROVE  Planned(d, r, cmd) = Effect(d, d, cmd.targets[1], r, cmd)
<1>0. Len(cmd.targets) \in Nat
  OBVIOUS
<1>1. PICK s : Way(s, d, r, cmd)
  BY <1>0, Ways
<1>2. 1 \in 1 .. Len(cmd.targets) /\ 1 - 1 = 0
  OBVIOUS
<1> QED
  BY <1>1, <1>2 DEF Way

LEMMA TargetsOf ==
  ASSUME NEW cmd, Shape(cmd)
  PROVE  /\ Len(cmd.targets) \in Nat
         /\ \A x : x \in Range(cmd.targets) <=> \E i \in 1 .. Len(cmd.targets) : x = cmd.targets[i]
  BY DEF Shape, Range

-----------------------------------------------------------------------------
(* What the writes of AdminRecords leave alone.                            *)

Function(f) == f = [x \in DOMAIN f |-> f[x]]

OnlyClaims(d, e) ==
  /\ DOMAIN e = Tables /\ Function(e.claim)
  /\ e.person = d.person /\ e.link = d.link /\ e.review = d.review
  /\ DOMAIN e.claim = DOMAIN d.claim

\* e is d with the claims cs set to a status.
MarksOnly(d, e, cs, status) ==
  /\ OnlyClaims(d, e)
  /\ \A c \in DOMAIN d.claim :
       e.claim[c] = IF c \in cs THEN [d.claim[c] EXCEPT !.status = status] ELSE d.claim[c]

\* e is d with the claims cs ended.
EndsOnly(d, e, cs) ==
  /\ OnlyClaims(d, e)
  /\ \A c \in DOMAIN d.claim :
       e.claim[c] = IF c \in cs THEN [d.claim[c] EXCEPT !.live = FALSE] ELSE d.claim[c]

LEMMA MarkedRows ==
  ASSUME NEW a, DOMAIN a = Tables, NEW cs, NEW status
  PROVE  MarksOnly(a, Marked(a, cs, status), cs, status)
  BY DEF Marked, Tables, MarksOnly, OnlyClaims, Function

LEMMA SupersededRows ==
  ASSUME NEW a, DOMAIN a = Tables, NEW cs
  PROVE  EndsOnly(a, Superseded(a, cs), cs)
  BY DEF Superseded, Tables, EndsOnly, OnlyClaims, Function

LEMMA UnlinkedRows ==
  ASSUME NEW a, DOMAIN a = Tables, NEW ls, NEW e, e = Unlinked(a, ls)
  PROVE  /\ DOMAIN e = Tables
         /\ e.person = a.person /\ e.claim = a.claim /\ e.review = a.review
         /\ e.link = (a.link \ ls) \cup {[l EXCEPT !.live = FALSE] : l \in ls}
  BY DEF Unlinked, Tables

LEMMA ReviewedRows ==
  ASSUME NEW a, DOMAIN a = Tables, NEW rows, NEW state, NEW e, e = Reviewed(a, rows, state)
  PROVE  /\ DOMAIN e = Tables
         /\ e.person = a.person /\ e.claim = a.claim /\ e.link = a.link
         /\ DOMAIN e.review = Rows
         /\ \A row \in Rows : e.review[row] = IF row \in rows THEN state ELSE a.review[row]
  BY DEF Reviewed, Tables

LEMMA PutRows ==
  ASSUME NEW f, NEW x, NEW v
  PROVE  /\ DOMAIN Put(f, x, v) = DOMAIN f \cup {x}
         /\ Put(f, x, v)[x] = v
         /\ \A y \in DOMAIN f : y # x => Put(f, x, v)[y] = f[y]
  BY DEF Put

-----------------------------------------------------------------------------
(* What a batch comes to, whatever the order of its targets.               *)

Spread(m, S) == UNION {m[x] : x \in S}

LEMMA MarkingPlan ==
  ASSUME NEW d, Typed(d), NEW r, NEW cmd, Shape(cmd), NEW m, NEW status,
         \A a : \A x \in Range(cmd.targets) : Effect(d, a, x, r, cmd) = Marked(a, m[x], status)
  PROVE  MarksOnly(d, Planned(d, r, cmd), Spread(m, Range(cmd.targets)), status)
<1> DEFINE n == Len(cmd.targets)
           t == cmd.targets
           U(k) == {c \in DOMAIN d.claim : \E i \in 1 .. k : c \in m[t[i]]}
<1>1. /\ n \in Nat
      /\ \A x : x \in Range(t) <=> \E i \in 1 .. n : x = t[i]
  BY TargetsOf
<1>2. PICK s : Way(s, d, r, cmd)
  BY <1>1, Ways
<1>3. /\ s[0] = d
      /\ \A i \in 1 .. n : s[i] = Marked(s[i - 1], m[t[i]], status)
      /\ Planned(d, r, cmd) = s[n]
  BY <1>1, <1>2 DEF Way
<1> DEFINE G == {i \in 0 .. n : MarksOnly(d, s[i], U(i), status)}
<1> HIDE DEF n, t
<1>4. 0 \in G
  <2>1. U(0) = {}
    OBVIOUS
  <2>2. MarksOnly(d, s[0], {}, status)
    BY <1>3 DEF MarksOnly, OnlyClaims, Function, Typed, Tables
  <2> QED
    BY <2>1, <2>2, <1>1
<1>5. ASSUME NEW i \in 1 .. n, i - 1 \in G PROVE i \in G
  <2> DEFINE a == s[i - 1]
             e == s[i]
             k == m[t[i]]
  <2>1. MarksOnly(d, a, U(i - 1), status)
    BY <1>5
  <2>2. \A c \in DOMAIN d.claim : c \in U(i) <=> c \in U(i - 1) \/ c \in k
    <3>1. 1 .. i = 1 .. (i - 1) \cup {i}
      BY <1>1
    <3> QED
      BY <3>1
  <2>3. e = Marked(a, k, status)
    BY <1>3
  <2>8. i \in 0 .. n
    BY <1>1
  <2> HIDE DEF a, e, U, k
  <2>4. DOMAIN a = Tables
    BY <2>1 DEF MarksOnly, OnlyClaims
  <2>5. /\ DOMAIN e = Tables /\ Function(e.claim)
        /\ e.person = a.person /\ e.link = a.link /\ e.review = a.review
        /\ DOMAIN e.claim = DOMAIN a.claim
        /\ \A c \in DOMAIN a.claim :
             e.claim[c] = IF c \in k THEN [a.claim[c] EXCEPT !.status = status] ELSE a.claim[c]
    BY <2>3, <2>4, MarkedRows DEF MarksOnly, OnlyClaims
  <2>6. \A q : [[q EXCEPT !.status = status] EXCEPT !.status = status] = [q EXCEPT !.status = status]
    OBVIOUS
  <2>7. MarksOnly(d, e, U(i), status)
    <3>1. OnlyClaims(d, e)
      BY <2>1, <2>5 DEF MarksOnly, OnlyClaims
    <3>2. ASSUME NEW c \in DOMAIN d.claim
          PROVE  e.claim[c] = IF c \in U(i) THEN [d.claim[c] EXCEPT !.status = status] ELSE d.claim[c]
      <4>1. a.claim[c] = IF c \in U(i - 1) THEN [d.claim[c] EXCEPT !.status = status] ELSE d.claim[c]
        BY <2>1 DEF MarksOnly
      <4>2. e.claim[c] = IF c \in k THEN [a.claim[c] EXCEPT !.status = status] ELSE a.claim[c]
        BY <2>1, <2>5 DEF MarksOnly, OnlyClaims
      <4>3. c \in U(i) <=> c \in U(i - 1) \/ c \in k
        BY <2>2
      <4> QED
        BY <4>1, <4>2, <4>3, <2>6
    <3> QED
      BY <3>1, <3>2 DEF MarksOnly
  <2> QED
    BY <2>7, <2>8 DEF e
<1>6. MarksOnly(d, s[n], U(n), status)
  <2>1. n \in 0 .. n
    BY <1>1
  <2>2. n \in G
    <3> HIDE DEF G
    <3> QED
      BY <1>1, <1>4, <1>5, <2>1, CountUp
  <2> QED
    BY <2>2
<1>7. \A c \in DOMAIN d.claim : c \in U(n) <=> c \in Spread(m, Range(t))
  BY <1>1 DEF Spread
<1> HIDE DEF U
<1>8. MarksOnly(d, s[n], Spread(m, Range(t)), status)
  BY <1>6, <1>7 DEF MarksOnly
<1> QED
  BY <1>3, <1>8 DEF t

\* The claims a command withdraws, and those it replaces.
Taken(d, cmd) == UNION {{x} \cup Restating(d, x) : x \in Range(cmd.targets)}
Replacing(d, cmd) == UNION {Replaced(d, x) : x \in Range(cmd.targets)}

LEMMA SubmitWrites ==
  ASSUME NEW d, Typed(d), NEW r, NEW cmd, Shape(cmd), cmd.action = "SUBMIT_REVIEW"
  PROVE  MarksOnly(d, Planned(d, r, cmd), Range(cmd.targets), "REVIEW")
<1> DEFINE m == [x \in Range(cmd.targets) |-> {x}]
<1>1. \A a : \A x \in Range(cmd.targets) : Effect(d, a, x, r, cmd) = Marked(a, m[x], "REVIEW")
  BY DEF Effect
<1>2. Spread(m, Range(cmd.targets)) = Range(cmd.targets)
  BY DEF Spread
<1> HIDE DEF m
<1>3. MarksOnly(d, Planned(d, r, cmd), Spread(m, Range(cmd.targets)), "REVIEW")
  BY <1>1, MarkingPlan
<1> QED
  BY <1>2, <1>3

LEMMA WithdrawWrites ==
  ASSUME NEW d, Typed(d), NEW r, NEW cmd, Shape(cmd), cmd.action = "WITHDRAW"
  PROVE  MarksOnly(d, Planned(d, r, cmd), Taken(d, cmd), "WITHHELD")
<1> DEFINE m == [x \in Range(cmd.targets) |-> {x} \cup Restating(d, x)]
<1>1. \A a : \A x \in Range(cmd.targets) : Effect(d, a, x, r, cmd) = Marked(a, m[x], "WITHHELD")
  BY DEF Effect, Withdraw, Reviewing
<1>2. Spread(m, Range(cmd.targets)) = Taken(d, cmd)
  BY DEF Spread, Taken
<1> HIDE DEF m
<1>3. MarksOnly(d, Planned(d, r, cmd), Spread(m, Range(cmd.targets)), "WITHHELD")
  BY <1>1, MarkingPlan
<1> QED
  BY <1>2, <1>3

\* A claim with another status, current or not.
Restated(k, status, live) == [k EXCEPT !.status = status, !.live = live]

ClaimFields == {"kind", "subject", "row", "origin", "status", "live"}

LEMMA RestatedFields ==
  ASSUME NEW k, NEW s, NEW l, DOMAIN k = ClaimFields
  PROVE  LET h == Restated(k, s, l) IN
         /\ DOMAIN h = ClaimFields
         /\ h.kind = k.kind /\ h.subject = k.subject /\ h.row = k.row /\ h.origin = k.origin
         /\ h.status = s /\ h.live = l
  BY DEF Restated, ClaimFields

LEMMA RestatedAgain ==
  ASSUME NEW k, NEW s, NEW l, NEW t, DOMAIN k = ClaimFields
  PROVE  [Restated(k, s, l) EXCEPT !.status = t] = Restated(k, t, l)
  BY DEF Restated, ClaimFields

LEMMA TypedClaims ==
  ASSUME NEW d, Typed(d), NEW c \in DOMAIN d.claim
  PROVE  /\ DOMAIN d = Tables
         /\ DOMAIN d.claim[c] = ClaimFields
         /\ d.claim[c].status \in Statuses /\ d.claim[c].live \in BOOLEAN
         /\ Restated(d.claim[c], d.claim[c].status, d.claim[c].live) = d.claim[c]
<1>1. d.claim[c] \in [kind : {"LIST", "ROLE", "LINKED", "CORRECTION"}, subject : DOMAIN d.person \cup {Org},
        row : Rows, origin : DOMAIN d.claim \cup {None}, status : Statuses, live : BOOLEAN]
  BY DEF Typed
<1>2. DOMAIN d = Tables
  BY DEF Typed, Tables
<1>3. \A k \in [kind : {"LIST", "ROLE", "LINKED", "CORRECTION"}, subject : DOMAIN d.person \cup {Org},
        row : Rows, origin : DOMAIN d.claim \cup {None}, status : Statuses, live : BOOLEAN] :
         /\ DOMAIN k = ClaimFields /\ k.status \in Statuses /\ k.live \in BOOLEAN
         /\ Restated(k, k.status, k.live) = k
  BY DEF Restated, ClaimFields
<1> QED
  BY <1>1, <1>2, <1>3

\* e is d with cs published, and rs replaced: not current, and withheld unless
\* they were published after.
PublishedRow(k, h, new, old) ==
  \E s \in Statuses, l \in BOOLEAN :
    /\ h = Restated(k, s, l)
    /\ old => l = FALSE
    /\ ~ old => l = k.live
    /\ new /\ ~ old => s = "PUBLISHED"
    /\ old /\ ~ new => s = "WITHHELD"
    /\ old /\ new => s \in {"PUBLISHED", "WITHHELD"}
    /\ ~ old /\ ~ new => s = k.status

PublishedRows(d, e, cs, rs) ==
  /\ OnlyClaims(d, e)
  /\ \A c \in DOMAIN d.claim : PublishedRow(d.claim[c], e.claim[c], c \in cs, c \in rs)

LEMMA PublishStep ==
  ASSUME NEW d, Typed(d), NEW a, NEW cs, NEW rs, PublishedRows(d, a, cs, rs), NEW x,
         NEW e, e = Publish(d, a, x)
  PROVE  PublishedRows(d, e, cs \cup {x}, rs \cup Replaced(d, x))
<1> DEFINE R == Replaced(d, x)
           a1 == Marked(a, R, "WITHHELD")
           a2 == Superseded(a1, R)
<1>1. e = Marked(a2, {x}, "PUBLISHED")
  BY DEF Publish
<1> HIDE DEF R
<1>2. DOMAIN a = Tables
  BY DEF PublishedRows, OnlyClaims
<1>3. MarksOnly(a, a1, R, "WITHHELD")
  BY <1>2, MarkedRows
<1>4. EndsOnly(a1, a2, R)
  <2> HIDE DEF a1
  <2> QED
    BY <1>3, SupersededRows DEF MarksOnly, OnlyClaims
<1>5. MarksOnly(a2, e, {x}, "PUBLISHED")
  <2> HIDE DEF a1, a2
  <2> QED
    BY <1>1, <1>4, MarkedRows DEF EndsOnly, OnlyClaims
<1> HIDE DEF a1, a2
<1>6. OnlyClaims(d, e)
  BY <1>3, <1>4, <1>5 DEF PublishedRows, OnlyClaims, MarksOnly, EndsOnly
<1>7. ASSUME NEW c \in DOMAIN d.claim
      PROVE  PublishedRow(d.claim[c], e.claim[c], c \in cs \cup {x}, c \in rs \cup R)
  <2> DEFINE k == d.claim[c]
  <2>1. c \in DOMAIN a.claim /\ c \in DOMAIN a1.claim /\ c \in DOMAIN a2.claim
    BY <1>3, <1>4, <1>5 DEF PublishedRows, OnlyClaims, MarksOnly, EndsOnly
  <2>2. DOMAIN k = ClaimFields
    BY TypedClaims
  <2>3. PICK s \in Statuses : \E l \in BOOLEAN :
          /\ a.claim[c] = Restated(k, s, l)
          /\ c \in rs => l = FALSE
          /\ c \notin rs => l = k.live
          /\ c \in cs /\ c \notin rs => s = "PUBLISHED"
          /\ c \in rs /\ c \notin cs => s = "WITHHELD"
          /\ c \in rs /\ c \in cs => s \in {"PUBLISHED", "WITHHELD"}
          /\ c \notin rs /\ c \notin cs => s = k.status
    BY DEF PublishedRows, PublishedRow
  <2>4. PICK l \in BOOLEAN :
          /\ a.claim[c] = Restated(k, s, l)
          /\ c \in rs => l = FALSE
          /\ c \notin rs => l = k.live
          /\ c \in cs /\ c \notin rs => s = "PUBLISHED"
          /\ c \in rs /\ c \notin cs => s = "WITHHELD"
          /\ c \in rs /\ c \in cs => s \in {"PUBLISHED", "WITHHELD"}
          /\ c \notin rs /\ c \notin cs => s = k.status
    BY <2>3
  <2> HIDE DEF k
  <2>5. a2.claim[c] = IF c \in R THEN Restated(k, "WITHHELD", FALSE) ELSE Restated(k, s, l)
    <3>1. a1.claim[c] = IF c \in R THEN Restated(k, "WITHHELD", l) ELSE Restated(k, s, l)
      <4>1. [Restated(k, s, l) EXCEPT !.status = "WITHHELD"] = Restated(k, "WITHHELD", l)
        BY <2>2, RestatedAgain
      <4> QED
        BY <1>3, <2>1, <2>4, <4>1 DEF MarksOnly
    <3>2. [Restated(k, "WITHHELD", l) EXCEPT !.live = FALSE] = Restated(k, "WITHHELD", FALSE)
      BY <2>2 DEF Restated, ClaimFields
    <3> QED
      BY <1>4, <2>1, <3>1, <3>2 DEF EndsOnly
  <2>6. e.claim[c] = IF c = x THEN (IF c \in R THEN Restated(k, "PUBLISHED", FALSE) ELSE Restated(k, "PUBLISHED", l))
                     ELSE a2.claim[c]
    <3>1. /\ [Restated(k, "WITHHELD", FALSE) EXCEPT !.status = "PUBLISHED"] = Restated(k, "PUBLISHED", FALSE)
          /\ [Restated(k, s, l) EXCEPT !.status = "PUBLISHED"] = Restated(k, "PUBLISHED", l)
      BY <2>2 DEF Restated, ClaimFields
    <3> QED
      BY <1>5, <2>1, <2>5, <3>1 DEF MarksOnly
  <2>7. "PUBLISHED" \in Statuses /\ "WITHHELD" \in Statuses
    BY DEF Statuses
  <2>8. CASE c = x /\ c \in R
    BY <2>6, <2>7, <2>8 DEF PublishedRow, k
  <2>9. CASE c = x /\ c \notin R
    <3>1. e.claim[c] = Restated(k, "PUBLISHED", l)
      BY <2>6, <2>9
    <3> QED
      BY <2>4, <2>7, <2>9, <3>1 DEF PublishedRow, k
  <2>10. CASE c # x /\ c \in R
    <3>1. e.claim[c] = Restated(k, "WITHHELD", FALSE)
      BY <2>6, <2>5, <2>10
    <3> QED
      BY <2>7, <2>10, <3>1 DEF PublishedRow, k
  <2>11. CASE c # x /\ c \notin R
    <3>1. e.claim[c] = Restated(k, s, l)
      BY <2>6, <2>5, <2>11
    <3> QED
      BY <2>4, <2>11, <3>1 DEF PublishedRow, k
  <2> QED
    BY <2>8, <2>9, <2>10, <2>11
<1> QED
  BY <1>6, <1>7 DEF PublishedRows, R

LEMMA PublishWrites ==
  ASSUME NEW d, Typed(d), NEW r, NEW cmd, Shape(cmd), cmd.action = "PUBLISH"
  PROVE  PublishedRows(d, Planned(d, r, cmd), Range(cmd.targets), Replacing(d, cmd))
<1> DEFINE n == Len(cmd.targets)
           t == cmd.targets
           C(k) == {t[i] : i \in 1 .. k}
           R(k) == UNION {Replaced(d, t[i]) : i \in 1 .. k}
<1>1. /\ n \in Nat
      /\ \A x : x \in Range(t) <=> \E i \in 1 .. n : x = t[i]
  BY TargetsOf
<1>2. PICK s : Way(s, d, r, cmd)
  BY <1>1, Ways
<1>3. /\ s[0] = d
      /\ \A i \in 1 .. n : s[i] = Publish(d, s[i - 1], t[i])
      /\ Planned(d, r, cmd) = s[n]
  <2>1. \A a, x : Effect(d, a, x, r, cmd) = Publish(d, a, x)
    BY DEF Effect, Reviewing
  <2> QED
    BY <1>2, <2>1 DEF Way
<1> DEFINE G == {i \in 0 .. n : PublishedRows(d, s[i], C(i), R(i))}
<1> HIDE DEF n, t
<1>4. 0 \in G
  <2>1. C(0) = {} /\ R(0) = {}
    OBVIOUS
  <2>2. OnlyClaims(d, d)
    BY DEF OnlyClaims, Typed, Tables, Function
  <2>3. ASSUME NEW c \in DOMAIN d.claim PROVE PublishedRow(d.claim[c], d.claim[c], c \in {}, c \in {})
    BY TypedClaims DEF PublishedRow
  <2>4. PublishedRows(d, d, {}, {})
    BY <2>2, <2>3 DEF PublishedRows
  <2> QED
    BY <1>1, <1>3, <2>1, <2>4
<1>5. ASSUME NEW i \in 1 .. n, i - 1 \in G PROVE i \in G
  <2>1. PublishedRows(d, s[i - 1], C(i - 1), R(i - 1))
    BY <1>5
  <2>2. C(i) = C(i - 1) \cup {t[i]} /\ R(i) = R(i - 1) \cup Replaced(d, t[i])
    <3>1. 1 .. i = 1 .. (i - 1) \cup {i}
      BY <1>1
    <3> QED
      BY <3>1
  <2>3. s[i] = Publish(d, s[i - 1], t[i])
    BY <1>3
  <2>4. i \in 0 .. n
    BY <1>1
  <2> HIDE DEF C, R
  <2>5. PublishedRows(d, s[i], C(i - 1) \cup {t[i]}, R(i - 1) \cup Replaced(d, t[i]))
    BY <2>1, <2>3, PublishStep
  <2> QED
    BY <2>2, <2>4, <2>5
<1>6. PublishedRows(d, s[n], C(n), R(n))
  <2>1. n \in 0 .. n
    BY <1>1
  <2>2. n \in G
    <3> HIDE DEF G
    <3> QED
      BY <1>1, <1>4, <1>5, <2>1, CountUp
  <2> QED
    BY <2>2
<1>7. C(n) = Range(t) /\ R(n) = Replacing(d, cmd)
  BY <1>1 DEF Replacing, t
<1> HIDE DEF C, R
<1> QED
  BY <1>3, <1>6, <1>7 DEF t

\* e is d with other reviews.
ReviewsOnly(d, e) ==
  /\ DOMAIN e = Tables
  /\ e.person = d.person /\ e.link = d.link /\ e.claim = d.claim
  /\ e.review \in [Rows -> States]

LEMMA ReviewStep ==
  ASSUME NEW d, NEW a, ReviewsOnly(d, a), NEW x, NEW state \in States
  PROVE  ReviewsOnly(d, Reviewed(a, {x}, state))
  BY DEF ReviewsOnly, Reviewed, Tables

LEMMA ReviewWrites ==
  ASSUME NEW d, Typed(d), NEW r, NEW cmd, Shape(cmd), cmd.action \in Reviewing
  PROVE  ReviewsOnly(d, Planned(d, r, cmd))
<1> DEFINE n == Len(cmd.targets)
<1>1. n \in Nat
  BY TargetsOf
<1>2. PICK s : Way(s, d, r, cmd)
  BY <1>1, Ways
<1>3. \A a, x : ReviewsOnly(d, a) => ReviewsOnly(d, Effect(d, a, x, r, cmd))
  <2> SUFFICES ASSUME NEW a, NEW x, ReviewsOnly(d, a) PROVE ReviewsOnly(d, Effect(d, a, x, r, cmd))
    OBVIOUS
  <2>1. "OPEN" \in States /\ "REJECTED" \in States
    BY DEF States
  <2>2. CASE cmd.action \in {"HOLD", "REOPEN"}
    <3>1. Effect(d, a, x, r, cmd) = Reviewed(a, {x}, "OPEN")
      BY <2>2 DEF Effect
    <3> QED
      BY <2>1, <3>1, ReviewStep
  <2>3. CASE cmd.action = "EXCLUDE"
    <3>1. Effect(d, a, x, r, cmd) = Reviewed(a, {x}, "REJECTED")
      BY <2>3 DEF Effect
    <3> QED
      BY <2>1, <3>1, ReviewStep
  <2> QED
    BY <2>2, <2>3 DEF Reviewing
<1>4. /\ s[0] = d
      /\ \A i \in 1 .. n : ReviewsOnly(d, s[i - 1]) => ReviewsOnly(d, s[i])
      /\ Planned(d, r, cmd) = s[n]
  <2>1. ASSUME NEW i \in 1 .. n, ReviewsOnly(d, s[i - 1]) PROVE ReviewsOnly(d, s[i])
    <3>1. s[i] = Effect(d, s[i - 1], cmd.targets[i], r, cmd)
      BY <1>2 DEF Way
    <3> QED
      BY <1>3, <2>1, <3>1
  <2> QED
    BY <1>2, <2>1 DEF Way
<1> DEFINE G == {i \in 0 .. n : ReviewsOnly(d, s[i])}
<1> HIDE DEF n
<1>5. 0 \in G
  BY <1>1, <1>4 DEF ReviewsOnly, Typed, Tables, States
<1>6. \A i \in 1 .. n : i - 1 \in G => i \in G
  BY <1>1, <1>4
<1>7. n \in G
  <2>1. n \in 0 .. n
    BY <1>1
  <2> HIDE DEF G
  <2> QED
    BY <1>1, <1>5, <1>6, <2>1, CountUp
<1> QED
  BY <1>4, <1>7

\* The ids a request gives to what it makes of some rows.
New(r, rows) == {<<r, row>> : row \in rows}
Person(name, status) == [name |-> name, aliases |-> {}, status |-> status, active |-> TRUE]

\* e is d with a person to each of the rows, and their link and draft.
Registered(d, e, r, rows) ==
  /\ DOMAIN e = Tables /\ Function(e.claim) /\ Function(e.person)
  /\ DOMAIN e.claim = DOMAIN d.claim \cup New(r, rows)
  /\ \A c \in DOMAIN d.claim : c \notin New(r, rows) => e.claim[c] = d.claim[c]
  /\ \A row \in rows : e.claim[<<r, row>>] = Draft("ROLE", <<r, row>>, row, None)
  /\ DOMAIN e.person = DOMAIN d.person \cup New(r, rows)
  /\ \A p \in DOMAIN d.person : p \notin New(r, rows) => e.person[p] = d.person[p]
  /\ \A row \in rows : e.person[<<r, row>>] = Person(NameOf[row], "RESOLVED")
  /\ e.link = d.link \cup {Link(<<r, row>>, <<r, row>>, row, "REVIEWED") : row \in rows}
  /\ e.review \in [Rows -> States]

LEMMA AttributedRows ==
  ASSUME NEW a, DOMAIN a = Tables, a.review \in [Rows -> States],
         NEW row, NEW p, NEW r, NEW how, NEW k, NEW e, e = Attributed(a, row, p, r, how, k)
  PROVE  /\ DOMAIN e = Tables
         /\ e.person = a.person
         /\ e.link = a.link \cup {Link(<<r, row>>, p, row, how)}
         /\ e.claim = Put(a.claim, <<r, row>>, k)
         /\ e.review \in [Rows -> States]
<1> DEFINE v == Reviewed(a, {row}, "RESOLVED")
<1>1. /\ DOMAIN v = Tables
      /\ v.person = a.person /\ v.claim = a.claim /\ v.link = a.link
      /\ v.review \in [Rows -> States]
  BY DEF Reviewed, Tables, States
<1>2. e = [v EXCEPT !.link = @ \cup {Link(<<r, row>>, p, row, how)}, !.claim = Put(@, <<r, row>>, k)]
  BY DEF Attributed
<1> HIDE DEF v
<1> QED
  BY <1>1, <1>2 DEF Tables

\* A table g that has, beyond those of f, rows v[row] under the ids of a request.
Grown(f, g, r, rows, v) ==
  /\ DOMAIN g = DOMAIN f \cup New(r, rows)
  /\ \A y \in DOMAIN f : y \notin New(r, rows) => g[y] = f[y]
  /\ \A row \in rows : g[<<r, row>>] = v[row]

LEMMA GrownMore ==
  ASSUME NEW f, NEW g, NEW r, NEW rows, NEW v, Grown(f, g, r, rows, v), NEW x, NEW h,
         h = Put(g, <<r, x>>, v[x])
  PROVE  Grown(f, h, r, rows \cup {x}, v)
<1>1. New(r, rows \cup {x}) = New(r, rows) \cup {<<r, x>>}
  BY DEF New
<1>2. /\ DOMAIN h = DOMAIN g \cup {<<r, x>>}
      /\ h[<<r, x>>] = v[x]
      /\ \A y \in DOMAIN g : y # <<r, x>> => h[y] = g[y]
  BY DEF Put
<1>3. ASSUME NEW y \in DOMAIN f, y \notin New(r, rows \cup {x}) PROVE h[y] = f[y]
  BY <1>1, <1>2, <1>3 DEF Grown
<1>4. ASSUME NEW row \in rows \cup {x} PROVE h[<<r, row>>] = v[row]
  <2>1. CASE row = x
    BY <1>2, <2>1
  <2>2. CASE row # x
    <3>1. row \in rows /\ <<r, row>> \in New(r, rows) /\ <<r, row>> # <<r, x>>
      BY <2>2 DEF New
    <3>2. <<r, row>> \in DOMAIN g /\ g[<<r, row>>] = v[row]
      BY <3>1 DEF Grown
    <3> QED
      BY <1>2, <3>1, <3>2
  <2> QED
    BY <2>1, <2>2
<1>5. DOMAIN h = DOMAIN f \cup New(r, rows \cup {x})
  BY <1>1, <1>2 DEF Grown
<1> QED
  BY <1>3, <1>4, <1>5 DEF Grown

LEMMA RegisterStep ==
  ASSUME NEW d, NEW a, NEW r, NEW rows, Registered(d, a, r, rows), NEW x, NEW e, e = Register(a, x, r)
  PROVE  Registered(d, e, r, rows \cup {x})
<1> DEFINE b == Attributed(a, x, <<r, x>>, r, "REVIEWED", Draft("ROLE", <<r, x>>, x, None))
           news == New(r, rows \cup {x})
<1>1. e = [b EXCEPT !.person = Put(@, <<r, x>>, Person(NameOf[x], "RESOLVED"))]
  BY DEF Register, Person
<1>2. /\ DOMAIN b = Tables
      /\ b.person = a.person
      /\ b.link = a.link \cup {Link(<<r, x>>, <<r, x>>, x, "REVIEWED")}
      /\ b.claim = Put(a.claim, <<r, x>>, Draft("ROLE", <<r, x>>, x, None))
      /\ b.review \in [Rows -> States]
  BY AttributedRows DEF Registered
<1> HIDE DEF b
<1>3. /\ DOMAIN e = Tables
      /\ e.person = Put(a.person, <<r, x>>, Person(NameOf[x], "RESOLVED"))
      /\ e.link = b.link /\ e.claim = b.claim /\ e.review = b.review
  BY <1>1, <1>2 DEF Tables
<1>4. news = New(r, rows) \cup {<<r, x>>}
  BY DEF New
<1>5. e.link = d.link \cup {Link(<<r, row>>, <<r, row>>, row, "REVIEWED") : row \in rows \cup {x}}
  BY <1>2, <1>3 DEF Registered
<1> HIDE DEF news
<1>6. Function(e.claim) /\ Function(e.person)
  BY <1>2, <1>3 DEF Put, Function
<1>7. /\ DOMAIN e.claim = DOMAIN d.claim \cup news
      /\ \A c \in DOMAIN d.claim : c \notin news => e.claim[c] = d.claim[c]
      /\ \A row \in rows \cup {x} : e.claim[<<r, row>>] = Draft("ROLE", <<r, row>>, row, None)
  <2> DEFINE v == [row \in rows \cup {x} |-> Draft("ROLE", <<r, row>>, row, None)]
  <2>1. e.claim = Put(a.claim, <<r, x>>, v[x])
    BY <1>2, <1>3
  <2>2. Grown(d.claim, a.claim, r, rows, v)
    BY DEF Grown, Registered
  <2> HIDE DEF v
  <2>3. Grown(d.claim, e.claim, r, rows \cup {x}, v)
    BY <2>1, <2>2, GrownMore
  <2> QED
    BY <2>3 DEF Grown, v, news
<1>8. /\ DOMAIN e.person = DOMAIN d.person \cup news
      /\ \A p \in DOMAIN d.person : p \notin news => e.person[p] = d.person[p]
      /\ \A row \in rows \cup {x} : e.person[<<r, row>>] = Person(NameOf[row], "RESOLVED")
  <2> DEFINE v == [row \in rows \cup {x} |-> Person(NameOf[row], "RESOLVED")]
  <2>1. e.person = Put(a.person, <<r, x>>, v[x])
    BY <1>3
  <2>2. Grown(d.person, a.person, r, rows, v)
    BY DEF Grown, Registered
  <2> HIDE DEF v
  <2>3. Grown(d.person, e.person, r, rows \cup {x}, v)
    BY <2>1, <2>2, GrownMore
  <2> QED
    BY <2>3 DEF Grown, v, news
<1> QED
  BY <1>2, <1>3, <1>5, <1>6, <1>7, <1>8 DEF Registered, news

LEMMA RegisterWrites ==
  ASSUME NEW d, Typed(d), NEW r, NEW cmd, Shape(cmd), cmd.action = "REGISTER_PERSON"
  PROVE  Registered(d, Planned(d, r, cmd), r, Range(cmd.targets))
<1> DEFINE n == Len(cmd.targets)
           t == cmd.targets
           C(k) == {t[i] : i \in 1 .. k}
<1>1. /\ n \in Nat
      /\ \A x : x \in Range(t) <=> \E i \in 1 .. n : x = t[i]
  BY TargetsOf
<1>2. PICK s : Way(s, d, r, cmd)
  BY <1>1, Ways
<1>3. /\ s[0] = d
      /\ \A i \in 1 .. n : s[i] = Register(s[i - 1], t[i], r)
      /\ Planned(d, r, cmd) = s[n]
  <2>1. \A a, x : Effect(d, a, x, r, cmd) = Register(a, x, r)
    BY DEF Effect, Reviewing
  <2> QED
    BY <1>2, <2>1 DEF Way
<1> DEFINE G == {i \in 0 .. n : Registered(d, s[i], r, C(i))}
<1> HIDE DEF n, t
<1>4. 0 \in G
  <2>1. C(0) = {}
    OBVIOUS
  <2>2. Registered(d, d, r, {})
    BY DEF Registered, New, Typed, Tables, States, Function
  <2> QED
    BY <1>1, <1>3, <2>1, <2>2
<1>5. ASSUME NEW i \in 1 .. n, i - 1 \in G PROVE i \in G
  <2>1. Registered(d, s[i - 1], r, C(i - 1))
    BY <1>5
  <2>2. C(i) = C(i - 1) \cup {t[i]}
    <3>1. 1 .. i = 1 .. (i - 1) \cup {i}
      BY <1>1
    <3> QED
      BY <3>1
  <2>3. s[i] = Register(s[i - 1], t[i], r)
    BY <1>3
  <2>4. i \in 0 .. n
    BY <1>1
  <2> HIDE DEF C
  <2>5. Registered(d, s[i], r, C(i - 1) \cup {t[i]})
    BY <2>1, <2>3, RegisterStep
  <2> QED
    BY <2>2, <2>4, <2>5
<1>6. Registered(d, s[n], r, C(n))
  <2>1. n \in 0 .. n
    BY <1>1
  <2>2. n \in G
    <3> HIDE DEF G
    <3> QED
      BY <1>1, <1>4, <1>5, <2>1, CountUp
  <2> QED
    BY <2>2
<1>7. C(n) = Range(t)
  BY <1>1
<1> HIDE DEF C
<1> QED
  BY <1>3, <1>6, <1>7 DEF t

-----------------------------------------------------------------------------
(* What each action keeps consistent.                                      *)

Claims(people, ids) ==
  [kind : {"LIST", "ROLE", "LINKED", "CORRECTION"}, subject : people \cup {Org},
   row : Rows, origin : ids \cup {None}, status : Statuses, live : BOOLEAN]

\* What is consistent of a database whatever the status of its claims.
Built(d) == Typed(d) /\ Grounded(d) /\ OneOwnerPerRow(d) /\ NamesDistinct(d)

Sound(d) == Backed(d) /\ SourcesStand(d)

LEMMA Parts ==
  ASSUME NEW d
  PROVE  Consistent(d) <=> Built(d) /\ Sound(d)
  BY DEF Consistent, Built, Sound

\* e has the claims of d, each in some status.
Restates(d, e) ==
  \A c \in DOMAIN d.claim : \E s \in Statuses, l \in BOOLEAN : e.claim[c] = Restated(d.claim[c], s, l)

LEMMA RestatedTyped ==
  ASSUME NEW people, NEW ids, NEW k \in Claims(people, ids), NEW s \in Statuses, NEW l \in BOOLEAN
  PROVE  Restated(k, s, l) \in Claims(people, ids)
  BY DEF Restated, Claims

LEMMA ClaimsTyped ==
  ASSUME NEW d, Typed(d)
  PROVE  d.claim \in [DOMAIN d.claim -> Claims(DOMAIN d.person, DOMAIN d.claim)]
  BY DEF Typed, Claims

LEMMA RestatesBuilt ==
  ASSUME NEW d, Built(d), NEW e, OnlyClaims(d, e), Restates(d, e)
  PROVE  Built(e) /\ Ids(e) = Ids(d)
<1>1. /\ DOMAIN e = Tables /\ Function(e.claim)
      /\ e.person = d.person /\ e.link = d.link /\ e.review = d.review
      /\ DOMAIN e.claim = DOMAIN d.claim
  BY DEF OnlyClaims
<1>2. ASSUME NEW c \in DOMAIN e.claim
      PROVE  /\ e.claim[c] \in Claims(DOMAIN e.person, DOMAIN e.claim)
             /\ e.claim[c].kind = d.claim[c].kind /\ e.claim[c].subject = d.claim[c].subject
             /\ e.claim[c].row = d.claim[c].row /\ e.claim[c].origin = d.claim[c].origin
  <2>1. PICK s \in Statuses : \E l \in BOOLEAN : e.claim[c] = Restated(d.claim[c], s, l)
    BY <1>1 DEF Restates
  <2>2. PICK l \in BOOLEAN : e.claim[c] = Restated(d.claim[c], s, l)
    BY <2>1
  <2>3. d.claim[c] \in Claims(DOMAIN e.person, DOMAIN e.claim)
    BY <1>1, ClaimsTyped DEF Built
  <2>4. DOMAIN d.claim[c] = ClaimFields
    BY <2>3 DEF Claims, ClaimFields
  <2>5. e.claim[c] \in Claims(DOMAIN e.person, DOMAIN e.claim)
    BY <2>2, <2>3, RestatedTyped
  <2> QED
    BY <2>2, <2>4, <2>5, RestatedFields
<1>3. Typed(e)
  <2>1. e.claim \in [DOMAIN e.claim -> Claims(DOMAIN e.person, DOMAIN e.claim)]
    BY <1>1, <1>2 DEF Function
  <2> QED
    BY <1>1, <2>1 DEF Built, Typed, Claims, Tables
<1>4. Grounded(e)
  BY <1>1, <1>2 DEF Built, Grounded, Ids
<1>5. OneOwnerPerRow(e) /\ NamesDistinct(e)
  BY <1>1 DEF Built, OneOwnerPerRow, NamesDistinct, Active
<1> QED
  BY <1>1, <1>3, <1>4, <1>5 DEF Built, Ids

LEMMA MarksRestate ==
  ASSUME NEW d, Typed(d), NEW e, NEW cs, NEW status \in Statuses, MarksOnly(d, e, cs, status)
  PROVE  /\ OnlyClaims(d, e) /\ Restates(d, e)
         /\ \A c \in DOMAIN d.claim :
              /\ c \notin cs => e.claim[c] = d.claim[c]
              /\ c \in cs => e.claim[c].status = status
              /\ e.claim[c].live = d.claim[c].live /\ e.claim[c].kind = d.claim[c].kind
              /\ e.claim[c].subject = d.claim[c].subject /\ e.claim[c].row = d.claim[c].row
              /\ e.claim[c].origin = d.claim[c].origin
<1>1. ASSUME NEW c \in DOMAIN d.claim
      PROVE  /\ \E s \in Statuses, l \in BOOLEAN : e.claim[c] = Restated(d.claim[c], s, l)
             /\ c \notin cs => e.claim[c] = d.claim[c]
             /\ c \in cs => e.claim[c].status = status
             /\ e.claim[c].live = d.claim[c].live /\ e.claim[c].kind = d.claim[c].kind
             /\ e.claim[c].subject = d.claim[c].subject /\ e.claim[c].row = d.claim[c].row
             /\ e.claim[c].origin = d.claim[c].origin
  <2> DEFINE k == d.claim[c]
  <2>1. /\ DOMAIN k = ClaimFields /\ k.status \in Statuses /\ k.live \in BOOLEAN
        /\ Restated(k, k.status, k.live) = k
    BY TypedClaims
  <2>2. e.claim[c] = IF c \in cs THEN [k EXCEPT !.status = status] ELSE k
    BY DEF MarksOnly
  <2> HIDE DEF k
  <2>3. [k EXCEPT !.status = status] = Restated(k, status, k.live)
    BY <2>1 DEF Restated, ClaimFields
  <2>4. CASE c \in cs
    BY <2>1, <2>2, <2>3, <2>4, RestatedFields DEF k
  <2>5. CASE c \notin cs
    BY <2>1, <2>2, <2>5 DEF k
  <2> QED
    BY <2>4, <2>5
<1> QED
  BY <1>1 DEF MarksOnly, Restates

(* Claims that leave the public take nothing away from those that stay.    *)
LEMMA MarksBacked ==
  ASSUME NEW d, Consistent(d), NEW e, NEW cs, NEW status \in Statuses \ {"PUBLISHED"},
         MarksOnly(d, e, cs, status)
  PROVE  Built(e) /\ Ids(e) = Ids(d) /\ Backed(e)
<1>1. Built(d) /\ Typed(d) /\ Backed(d)
  BY DEF Consistent, Built
<1>2. /\ OnlyClaims(d, e) /\ Restates(d, e)
      /\ \A c \in DOMAIN d.claim :
              /\ c \notin cs => e.claim[c] = d.claim[c]
              /\ c \in cs => e.claim[c].status = status
  BY <1>1, MarksRestate
<1>3. Built(e) /\ Ids(e) = Ids(d)
  BY <1>1, <1>2, RestatesBuilt
<1>4. ASSUME NEW c \in Public(e) PROVE c \in Public(d) /\ e.claim[c] = d.claim[c]
  BY <1>2 DEF Public, Live, OnlyClaims
<1>5. Backed(e)
  BY <1>1, <1>2, <1>4 DEF Backed, OnlyClaims, Resolved, Active, Linked, LinksOn
<1> QED
  BY <1>3, <1>5

LEMMA SubmitKeeps ==
  ASSUME NEW d, Consistent(d), NEW r, NEW cmd, Shape(cmd), Permitted(d, cmd),
         cmd.action = "SUBMIT_REVIEW"
  PROVE  Consistent(Planned(d, r, cmd)) /\ Ids(Planned(d, r, cmd)) = Ids(d)
<1> DEFINE e == Planned(d, r, cmd)
           cs == Range(cmd.targets)
<1>1. Typed(d) /\ SourcesStand(d) /\ Grounded(d)
  BY DEF Consistent
<1>2. MarksOnly(d, e, cs, "REVIEW")
  BY <1>1, SubmitWrites
<1>3. \A x \in cs : d.claim[x].status \in {"DRAFT", "WITHHELD"}
  <2>1. \A x : Accepts(d, cmd, x) <=> MaySubmit(d, x)
    BY DEF Accepts, Reviewing
  <2> QED
    BY <2>1 DEF Permitted, MaySubmit
<1> HIDE DEF e, cs
<1>4. "REVIEW" \in Statuses \ {"PUBLISHED"}
  BY DEF Statuses
<1>5. Built(e) /\ Ids(e) = Ids(d) /\ Backed(e)
  BY <1>2, <1>4, MarksBacked
<1>6. /\ OnlyClaims(d, e)
      /\ \A c \in DOMAIN d.claim :
              /\ c \notin cs => e.claim[c] = d.claim[c]
              /\ c \in cs => e.claim[c].status = "REVIEW"
              /\ e.claim[c].live = d.claim[c].live
  BY <1>1, <1>2, <1>4, MarksRestate
<1>7. SourcesStand(e)
  <2> SUFFICES ASSUME NEW c \in Public(e), e.claim[c].kind = "LINKED", e.claim[e.claim[c].origin].live
               PROVE  e.claim[c].origin \in Public(e)
    BY DEF SourcesStand
  <2>1. c \in Public(d) /\ e.claim[c] = d.claim[c]
    BY <1>6 DEF Public, Live, OnlyClaims
  <2>2. d.claim[c].origin \in DOMAIN d.claim
    BY <1>1, <2>1 DEF Grounded, Public, Live
  <2>3. d.claim[c].origin \in Public(d)
    BY <1>1, <1>6, <2>1, <2>2 DEF SourcesStand
  <2>4. d.claim[c].origin \notin cs
    BY <1>3, <2>3 DEF Public
  <2> QED
    BY <1>6, <2>1, <2>2, <2>3, <2>4 DEF Public, Live, OnlyClaims
<1> QED
  BY <1>5, <1>7, Parts DEF Sound, e

LEMMA WithdrawKeeps ==
  ASSUME NEW d, Consistent(d), NEW r, NEW cmd, Shape(cmd), Permitted(d, cmd),
         cmd.action = "WITHDRAW"
  PROVE  Consistent(Planned(d, r, cmd)) /\ Ids(Planned(d, r, cmd)) = Ids(d)
<1> DEFINE e == Planned(d, r, cmd)
           cs == Taken(d, cmd)
<1>1. Typed(d) /\ SourcesStand(d) /\ Grounded(d)
  BY DEF Consistent
<1>2. MarksOnly(d, e, cs, "WITHHELD")
  BY <1>1, WithdrawWrites
<1> HIDE DEF e
<1>4. "WITHHELD" \in Statuses \ {"PUBLISHED"}
  BY DEF Statuses
<1>5. Built(e) /\ Ids(e) = Ids(d) /\ Backed(e)
  <2> HIDE DEF cs
  <2> QED BY <1>2, <1>4, MarksBacked
<1>6. /\ OnlyClaims(d, e)
      /\ \A c \in DOMAIN d.claim :
              /\ c \notin cs => e.claim[c] = d.claim[c]
              /\ c \in cs => e.claim[c].status = "WITHHELD"
              /\ e.claim[c].live = d.claim[c].live
  <2> HIDE DEF cs
  <2> QED BY <1>1, <1>2, <1>4, MarksRestate
<1>7. SourcesStand(e)
  <2> SUFFICES ASSUME NEW c \in Public(e), e.claim[c].kind = "LINKED", e.claim[e.claim[c].origin].live
               PROVE  e.claim[c].origin \in Public(e)
    BY DEF SourcesStand
  <2> DEFINE o == d.claim[c].origin
  <2>1. c \in Public(d) /\ e.claim[c] = d.claim[c] /\ c \notin cs
    <3> HIDE DEF cs
    <3> QED BY <1>6 DEF Public, Live, OnlyClaims
  <2>2. o \in DOMAIN d.claim /\ d.claim[o].kind = "LIST" /\ d.claim[o].row \in WitnessRows
    BY <1>1, <2>1 DEF Grounded, Public, Live
  <2>3. o \in Public(d)
    BY <1>1, <1>6, <2>1, <2>2 DEF SourcesStand
  <2>4. o \notin cs
    <3>1. SUFFICES ASSUME NEW x \in Range(cmd.targets), o \in {x} \cup Restating(d, x) PROVE FALSE
      BY DEF Taken
    <3>2. o \notin Restating(d, x)
      BY <2>2 DEF Restating
    <3>3. c \in Restating(d, o)
      BY <2>1, <2>2 DEF Restating, Public
    <3>4. c \in cs
      BY <3>1, <3>2, <3>3 DEF Taken
    <3> QED
      BY <2>1, <3>4
  <2> HIDE DEF cs, o
  <2>5. e.claim[c].origin = o
    BY <2>1 DEF o
  <2> QED
    BY <1>6, <2>2, <2>3, <2>4, <2>5 DEF Public, Live, OnlyClaims
<1> QED
  BY <1>5, <1>7, Parts DEF Sound, e

\* What a publication leaves of each claim.
LEMMA PublishedClaims ==
  ASSUME NEW d, Typed(d), NEW e, NEW cs, NEW rs, PublishedRows(d, e, cs, rs)
  PROVE  /\ OnlyClaims(d, e) /\ Restates(d, e)
         /\ \A c \in DOMAIN d.claim :
              /\ e.claim[c].live <=> d.claim[c].live /\ c \notin rs
              /\ c \in cs /\ c \notin rs => e.claim[c].status = "PUBLISHED"
              /\ c \notin cs /\ c \in rs => e.claim[c].status = "WITHHELD"
              /\ c \notin cs /\ c \notin rs => e.claim[c].status = d.claim[c].status
              /\ e.claim[c].kind = d.claim[c].kind
              /\ e.claim[c].subject = d.claim[c].subject /\ e.claim[c].row = d.claim[c].row
              /\ e.claim[c].origin = d.claim[c].origin
<1>1. ASSUME NEW c \in DOMAIN d.claim
      PROVE  /\ \E s \in Statuses, l \in BOOLEAN : e.claim[c] = Restated(d.claim[c], s, l)
             /\ e.claim[c].live <=> d.claim[c].live /\ c \notin rs
             /\ c \in cs /\ c \notin rs => e.claim[c].status = "PUBLISHED"
             /\ c \notin cs /\ c \in rs => e.claim[c].status = "WITHHELD"
             /\ c \notin cs /\ c \notin rs => e.claim[c].status = d.claim[c].status
             /\ e.claim[c].kind = d.claim[c].kind
             /\ e.claim[c].subject = d.claim[c].subject /\ e.claim[c].row = d.claim[c].row
             /\ e.claim[c].origin = d.claim[c].origin
  <2> DEFINE k == d.claim[c]
  <2>1. PublishedRow(k, e.claim[c], c \in cs, c \in rs)
    BY DEF PublishedRows
  <2>2. DOMAIN k = ClaimFields /\ k.live \in BOOLEAN
    BY TypedClaims
  <2>3. PICK s \in Statuses : \E l \in BOOLEAN :
          /\ e.claim[c] = Restated(k, s, l)
          /\ c \in rs => l = FALSE
          /\ c \notin rs => l = k.live
          /\ c \in cs /\ c \notin rs => s = "PUBLISHED"
          /\ c \in rs /\ c \notin cs => s = "WITHHELD"
          /\ c \notin rs /\ c \notin cs => s = k.status
    BY <2>1 DEF PublishedRow
  <2>4. PICK l \in BOOLEAN :
          /\ e.claim[c] = Restated(k, s, l)
          /\ c \in rs => l = FALSE
          /\ c \notin rs => l = k.live
          /\ c \in cs /\ c \notin rs => s = "PUBLISHED"
          /\ c \in rs /\ c \notin cs => s = "WITHHELD"
          /\ c \notin rs /\ c \notin cs => s = k.status
    BY <2>3
  <2> HIDE DEF k
  <2> DEFINE h == Restated(k, s, l)
  <2>5. /\ h.kind = k.kind /\ h.subject = k.subject /\ h.row = k.row /\ h.origin = k.origin
        /\ h.status = s /\ h.live = l
    BY <2>2, RestatedFields
  <2>6. e.claim[c] = h /\ \E i \in Statuses, j \in BOOLEAN : h = Restated(k, i, j)
    BY <2>4
  <2> HIDE DEF h
  <2> QED
    BY <2>2, <2>4, <2>5, <2>6 DEF k
<1>2. OnlyClaims(d, e)
  BY DEF PublishedRows
<1>3. Restates(d, e)
  BY <1>1 DEF Restates
<1> QED
  BY <1>1, <1>2, <1>3

LEMMA PublishKeeps ==
  ASSUME NEW d, Consistent(d), NEW r, NEW cmd, Shape(cmd), Permitted(d, cmd),
         cmd.action = "PUBLISH"
  PROVE  Consistent(Planned(d, r, cmd)) /\ Ids(Planned(d, r, cmd)) = Ids(d)
<1> DEFINE e == Planned(d, r, cmd)
           cs == Range(cmd.targets)
           rs == Replacing(d, cmd)
<1>1. Typed(d) /\ SourcesStand(d) /\ Grounded(d) /\ Built(d) /\ Backed(d)
  BY DEF Consistent, Built
<1>2. PublishedRows(d, e, cs, rs)
  BY <1>1, PublishWrites
<1>3. \A x \in cs : MayPublish(d, x)
  <2>1. \A x : Accepts(d, cmd, x) <=> MayPublish(d, x)
    BY DEF Accepts, Reviewing
  <2> QED
    BY <2>1 DEF Permitted
<1> HIDE DEF e, cs, rs
<1>4. /\ OnlyClaims(d, e) /\ Restates(d, e)
      /\ \A c \in DOMAIN d.claim :
              /\ e.claim[c].live <=> d.claim[c].live /\ c \notin rs
              /\ c \in cs /\ c \notin rs => e.claim[c].status = "PUBLISHED"
              /\ c \notin cs /\ c \in rs => e.claim[c].status = "WITHHELD"
              /\ c \notin cs /\ c \notin rs => e.claim[c].status = d.claim[c].status
              /\ e.claim[c].kind = d.claim[c].kind
              /\ e.claim[c].subject = d.claim[c].subject /\ e.claim[c].row = d.claim[c].row
              /\ e.claim[c].origin = d.claim[c].origin
  BY <1>1, <1>2, PublishedClaims
<1>5. Built(e) /\ Ids(e) = Ids(d)
  BY <1>1, <1>4, RestatesBuilt
<1>6. \A c \in Public(e) : c \in cs \/ c \in Public(d)
  BY <1>4 DEF Public, Live, OnlyClaims
<1>7. Backed(e)
  <2> SUFFICES ASSUME NEW c \in Public(e), e.claim[c].subject # Org
               PROVE  /\ e.claim[c].subject \in Resolved(e)
                      /\ e.claim[c].kind \in {"ROLE", "LINKED"} => Linked(e, e.claim[c].subject, e.claim[c].row)
    BY DEF Backed
  <2>1. c \in DOMAIN d.claim
    BY <1>4 DEF Public, Live, OnlyClaims
  <2>2. /\ d.claim[c].subject \in Resolved(d)
        /\ d.claim[c].kind \in {"ROLE", "LINKED"} => Linked(d, d.claim[c].subject, d.claim[c].row)
    BY <1>1, <1>3, <1>4, <1>6, <2>1 DEF MayPublish, BindingHolds, Backed
  <2> QED
    BY <1>4, <2>1, <2>2 DEF OnlyClaims, Resolved, Active, Linked, LinksOn
<1>8. SourcesStand(e)
  <2> SUFFICES ASSUME NEW c \in Public(e), e.claim[c].kind = "LINKED", e.claim[e.claim[c].origin].live
               PROVE  e.claim[c].origin \in Public(e)
    BY DEF SourcesStand
  <2> DEFINE o == d.claim[c].origin
  <2>1. c \in DOMAIN d.claim /\ d.claim[c].kind = "LINKED" /\ e.claim[c].origin = o
    BY <1>4 DEF Public, Live, OnlyClaims
  <2>2. o \in DOMAIN d.claim
    BY <1>1, <2>1 DEF Grounded
  <2>3. o \in Public(d)
    <3>1. CASE c \in cs
      BY <1>3, <2>1, <3>1 DEF MayPublish, BindingHolds, Listing, Public
    <3>2. CASE c \in Public(d)
      BY <1>1, <1>4, <2>1, <2>2, <3>2 DEF SourcesStand
    <3> QED
      BY <1>6, <3>1, <3>2
  <2> HIDE DEF o
  <2> QED
    BY <1>4, <2>1, <2>2, <2>3 DEF Public, Live, OnlyClaims
<1> QED
  BY <1>5, <1>7, <1>8, Parts DEF Sound, e

LEMMA ReviewKeeps ==
  ASSUME NEW d, Consistent(d), NEW r, NEW cmd, Shape(cmd), cmd.action \in Reviewing
  PROVE  Consistent(Planned(d, r, cmd)) /\ Ids(Planned(d, r, cmd)) = Ids(d)
<1> DEFINE e == Planned(d, r, cmd)
<1>1. Typed(d) /\ Grounded(d)
  BY DEF Consistent
<1>2. ReviewsOnly(d, e)
  BY <1>1, ReviewWrites
<1> HIDE DEF e
<1>3. Typed(e)
  BY <1>1, <1>2 DEF Typed, ReviewsOnly, Tables, States
<1>4. /\ e.person = d.person /\ e.link = d.link /\ e.claim = d.claim
  BY <1>2 DEF ReviewsOnly
<1>5. Grounded(e)
  BY <1>1, <1>4 DEF Grounded, Ids
<1>6. OneOwnerPerRow(e) /\ NamesDistinct(e) /\ Backed(e) /\ SourcesStand(e)
  BY <1>4 DEF Consistent, OneOwnerPerRow, NamesDistinct, Backed, SourcesStand, Active, Public, Live,
              Resolved, Linked, LinksOn
<1> QED
  BY <1>3, <1>4, <1>5, <1>6 DEF Consistent, Ids, e

People == [name : Names, aliases : SUBSET Names, status : {"REVIEW", "RESOLVED"}, active : BOOLEAN]

\* e has what d has, and more.
Extends(d, e) ==
  /\ DOMAIN e = Tables /\ Function(e.claim) /\ Function(e.person)
  /\ DOMAIN d.claim \subseteq DOMAIN e.claim
  /\ \A c \in DOMAIN d.claim : e.claim[c] = d.claim[c]
  /\ DOMAIN d.person \subseteq DOMAIN e.person
  /\ \A p \in DOMAIN d.person : e.person[p] = d.person[p]
  /\ d.link \subseteq e.link
  /\ e.review \in [Rows -> States]

\* A draft that can be added, and a link.
NewClaim(d, e, k) ==
  /\ k \in Claims(DOMAIN e.person, DOMAIN e.claim)
  /\ k.status = "DRAFT" /\ k.kind # "LIST"
  /\ k.kind \in {"LINKED", "CORRECTION"} => k.origin \in DOMAIN d.claim
  /\ k.kind = "LINKED" => d.claim[k.origin].kind = "LIST" /\ d.claim[k.origin].row \in WitnessRows

NewLink(d, e, l) ==
  /\ DOMAIN l = {"id", "person", "row", "how", "live"}
  /\ l.person \in DOMAIN e.person /\ l.row \in Rows
  /\ l.how \in {"CONTEXT", "REVIEWED"} /\ l.live
  /\ LinksOn(d, l.row) = {}
  /\ l.id \notin Ids(d)

\* All that is new among the claims of e are drafts of some kinds.
Adds(d, e, kinds) ==
  /\ Extends(d, e)
  /\ \A c \in DOMAIN e.claim \ DOMAIN d.claim : NewClaim(d, e, e.claim[c]) /\ e.claim[c].kind \in kinds

BatchWhole(d) == \A row \in AlioRows : <<Batch, row>> \in Ids(d) => <<Batch, row>> \in DOMAIN d.person

LEMMA ExtendsKeeps ==
  ASSUME NEW d, Consistent(d), NEW e, Extends(d, e),
         \A c \in DOMAIN e.claim \ DOMAIN d.claim : NewClaim(d, e, e.claim[c]),
         \A p \in DOMAIN e.person \ DOMAIN d.person : e.person[p] \in People /\ p # Org,
         \A l \in e.link \ d.link : NewLink(d, e, l),
         \A l, m \in e.link \ d.link : l.id = m.id \/ l.row = m.row => l = m,
         BatchWhole(e), NamesDistinct(e)
  PROVE  Consistent(e)
<1>1. Typed(d) /\ Grounded(d) /\ OneOwnerPerRow(d) /\ Backed(d) /\ SourcesStand(d)
  BY DEF Consistent
<1>2. \A c \in DOMAIN d.claim : d.claim[c] \in Claims(DOMAIN d.person, DOMAIN d.claim)
  BY <1>1, ClaimsTyped
<1>3. ASSUME NEW c \in DOMAIN e.claim
      PROVE  e.claim[c] \in Claims(DOMAIN e.person, DOMAIN e.claim)
  <2>1. CASE c \in DOMAIN d.claim
    BY <1>2, <2>1 DEF Claims, Extends
  <2>2. CASE c \notin DOMAIN d.claim
    BY <2>2 DEF NewClaim
  <2> QED
    BY <2>1, <2>2
<1>4. Typed(e)
  <2>1. e.claim \in [DOMAIN e.claim -> Claims(DOMAIN e.person, DOMAIN e.claim)]
    BY <1>3 DEF Function, Extends
  <2>2. e.person \in [DOMAIN e.person -> People]
    <3>1. \A p \in DOMAIN e.person : e.person[p] \in People
      BY <1>1 DEF Typed, People, Extends
    <3> QED
      BY <3>1 DEF Function, Extends
  <2>3. \A l \in e.link : /\ DOMAIN l = {"id", "person", "row", "how", "live"}
                       /\ l.person \in DOMAIN e.person /\ l.row \in Rows
                       /\ l.how \in {"CONTEXT", "REVIEWED"} /\ l.live \in BOOLEAN
    BY <1>1 DEF Typed, NewLink, Extends
  <2>4. DOMAIN e = Tables /\ e.review \in [Rows -> States]
    BY DEF Extends
  <2> QED
    BY <2>1, <2>2, <2>3, <2>4 DEF Typed, Claims, People, Tables, States
<1>5. Grounded(e)
  <2>1. Org \notin DOMAIN e.person
    BY <1>1 DEF Grounded
  <2>2. ASSUME NEW c \in DOMAIN e.claim
        PROVE LET k == e.claim[c] IN
       /\ k.kind = "LIST" => k.subject = Org /\ k.row \notin NecRows
       /\ k.kind \in {"LINKED", "CORRECTION"} => k.origin \in DOMAIN e.claim
       /\ k.kind = "LINKED" => e.claim[k.origin].kind = "LIST" /\ e.claim[k.origin].row \in WitnessRows
    <3>1. CASE c \in DOMAIN d.claim
      BY <1>1, <3>1 DEF Grounded, Extends
    <3>2. CASE c \notin DOMAIN d.claim
      BY <3>2 DEF NewClaim, Extends
    <3> QED
      BY <3>1, <3>2
  <2>3. \A l, m \in e.link : l.id = m.id => l = m
    <3>1. \A l, m \in d.link : l.id = m.id => l = m
      BY <1>1 DEF Grounded
    <3>2. \A l \in e.link \ d.link : l.id \notin Ids(d)
      BY DEF NewLink
    <3>3. \A l \in d.link : l.id \in Ids(d)
      BY DEF Ids
    <3> QED
      BY <3>1, <3>2, <3>3
  <2> QED
    BY <2>1, <2>2, <2>3 DEF Grounded, BatchWhole
<1>6. OneOwnerPerRow(e)
  <2>1. \A l, m \in d.link : l.live /\ m.live /\ l.row = m.row => l = m
    BY <1>1 DEF OneOwnerPerRow
  <2>2. \A l \in e.link \ d.link : \A m \in d.link : m.live => m.row # l.row
    BY DEF NewLink, LinksOn
  <2> QED
    BY <2>1, <2>2 DEF OneOwnerPerRow
<1>7. \A c \in Public(e) : c \in Public(d) /\ e.claim[c] = d.claim[c]
  BY DEF Public, Live, Extends, NewClaim
<1>8. Backed(e)
  <2>1. \A p \in Resolved(d) : p \in Resolved(e)
    BY DEF Resolved, Active, Extends
  <2>2. \A p, row : Linked(d, p, row) => Linked(e, p, row)
    BY DEF Linked, LinksOn, Extends
  <2> QED
    BY <1>1, <1>7, <2>1, <2>2 DEF Backed
<1>9. SourcesStand(e)
  <2> SUFFICES ASSUME NEW c \in Public(e), e.claim[c].kind = "LINKED", e.claim[e.claim[c].origin].live
               PROVE  e.claim[c].origin \in Public(e)
    BY DEF SourcesStand
  <2>1. c \in Public(d) /\ e.claim[c] = d.claim[c]
    BY <1>7
  <2>2. d.claim[c].origin \in DOMAIN d.claim
    BY <1>1, <2>1 DEF Grounded, Public, Live
  <2>3. e.claim[d.claim[c].origin] = d.claim[d.claim[c].origin]
    BY <2>2 DEF Extends
  <2>4. d.claim[c].origin \in Public(d)
    BY <1>1, <2>1, <2>3 DEF SourcesStand
  <2> QED
    BY <2>1, <2>2, <2>3, <2>4 DEF Public, Live, Extends
<1> QED
  BY <1>4, <1>5, <1>6, <1>8, <1>9 DEF Consistent

\* Nothing is named after a request that has not been committed.
Fresh(d, r) == \A i \in Ids(d) : i[1] # r

\* What is new in e is named after r.
NamedAfter(d, e, r) == \A i \in Ids(e) : i \in Ids(d) \/ i[1] = r

LEMMA BatchStays ==
  ASSUME NEW d, Grounded(d), NEW e, NEW r, r # Batch, NamedAfter(d, e, r),
         DOMAIN d.person \subseteq DOMAIN e.person
  PROVE  BatchWhole(e)
<1>1. \A row : <<Batch, row>>[1] # r
  OBVIOUS
<1> QED
  BY <1>1 DEF Grounded, BatchWhole, NamedAfter

LEMMA SingleTarget ==
  ASSUME NEW d, NEW r, NEW cmd, Shape(cmd), cmd.action \notin Batched, Permitted(d, cmd)
  PROVE  /\ Planned(d, r, cmd) = Effect(d, d, cmd.targets[1], r, cmd)
         /\ Accepts(d, cmd, cmd.targets[1])
         /\ Range(cmd.targets) = {cmd.targets[1]}
<1>1. Len(cmd.targets) = 1 /\ DOMAIN cmd.targets = 1 .. 1
  BY DEF Shape
<1>2. Range(cmd.targets) = {cmd.targets[1]}
  BY <1>1 DEF Range
<1> QED
  BY <1>1, <1>2, OneTarget DEF Permitted

LEMMA DraftTyped ==
  ASSUME NEW kind \in {"LIST", "ROLE", "LINKED", "CORRECTION"}, NEW people, NEW ids,
         NEW p \in people \cup {Org}, NEW row \in Rows, NEW origin \in ids \cup {None}
  PROVE  LET k == Draft(kind, p, row, origin) IN
         k \in Claims(people, ids) /\ k.status = "DRAFT" /\ k.kind = kind /\ k.origin = origin
  BY DEF Draft, Claims, Statuses

LEMMA RoleTyped ==
  ASSUME NEW people, NEW ids, NEW p \in people, NEW row \in Rows
  PROVE  LET k == Draft("ROLE", p, row, None) IN
         k \in Claims(people, ids) /\ k.status = "DRAFT" /\ k.kind = "ROLE"
  BY DEF Draft, Claims, Statuses

LEMMA CorrectKeeps ==
  ASSUME NEW d, Consistent(d), NEW r, r # Batch, Fresh(d, r), NEW x, x \in Live(d), NEW e, e = Correct(d, d, x, r)
  PROVE  Consistent(e) /\ NamedAfter(d, e, r) /\ Adds(d, e, {"CORRECTION"})
<1>1. Typed(d) /\ Grounded(d) /\ NamesDistinct(d)
  BY DEF Consistent
<1> DEFINE k == Draft("CORRECTION", d.claim[x].subject, d.claim[x].row, x)
<1>2. /\ DOMAIN e = Tables
      /\ e.person = d.person /\ e.link = d.link /\ e.review = d.review
      /\ e.claim = Put(d.claim, <<r, x>>, k)
  BY <1>1 DEF Typed, Correct, Tables
<1>3. <<r, x>> \notin DOMAIN d.claim
  BY DEF Fresh, Ids
<1> HIDE DEF k
<1>4. /\ DOMAIN e.claim = DOMAIN d.claim \cup {<<r, x>>}
      /\ e.claim[<<r, x>>] = k
      /\ \A y \in DOMAIN d.claim : e.claim[y] = d.claim[y]
  BY <1>2, <1>3 DEF Put
<1>5. Extends(d, e)
  <2>1. Function(e.claim) /\ Function(e.person)
    BY <1>1, <1>2 DEF Put, Function, Typed
  <2>2. e.review \in [Rows -> States]
    BY <1>1, <1>2 DEF Typed, States
  <2> QED
    BY <1>2, <1>4, <2>1, <2>2 DEF Extends
<1>6. NewClaim(d, e, k)
  <2>1. x \in DOMAIN d.claim
    BY DEF Live
  <2>2. d.claim[x] \in Claims(DOMAIN d.person, DOMAIN d.claim)
    BY <1>1, <2>1, ClaimsTyped
  <2>3. k \in Claims(DOMAIN e.person, DOMAIN e.claim)
    BY <1>2, <1>4, <2>1, <2>2 DEF k, Draft, Claims, Statuses
  <2> QED
    BY <2>1, <2>3 DEF NewClaim, k, Draft
<1>7. NamedAfter(d, e, r)
  BY <1>2, <1>4 DEF NamedAfter, Ids
<1>8. BatchWhole(e)
  BY <1>1, <1>2, <1>7, BatchStays
<1>9. NamesDistinct(e)
  BY <1>1, <1>2 DEF NamesDistinct, Active
<1>10. \A c \in DOMAIN e.claim \ DOMAIN d.claim : NewClaim(d, e, e.claim[c])
  BY <1>4, <1>6
<1>11. e.link \ d.link = {} /\ DOMAIN e.person \ DOMAIN d.person = {}
  BY <1>2
<1>12. Consistent(e)
  BY <1>5, <1>8, <1>9, <1>10, <1>11, ExtendsKeeps
<1>13. k.kind = "CORRECTION"
  BY DEF k, Draft
<1>14. Adds(d, e, {"CORRECTION"})
  BY <1>4, <1>5, <1>10, <1>13 DEF Adds
<1> QED
  BY <1>7, <1>12, <1>14

LEMMA LinkKeeps ==
  ASSUME NEW d, Consistent(d), NEW r, r # Batch, Fresh(d, r), NEW x, NEW p, NEW b, MayLink(d, x, p, b),
         NEW e, e = LinkPerson(d, d, x, p, r)
  PROVE  Consistent(e) /\ NamedAfter(d, e, r) /\ Adds(d, e, {"ROLE", "LINKED"})
<1>1. Typed(d) /\ Grounded(d) /\ NamesDistinct(d)
  BY DEF Consistent
<1> DEFINE k == IF x \in AlioRows THEN Draft("ROLE", p, x, None)
                ELSE Draft("LINKED", p, x, CHOOSE c \in Listing(d, x) : TRUE)
           l == Link(<<r, x>>, p, x, "REVIEWED")
<1>2. /\ DOMAIN e = Tables
      /\ e.person = d.person
      /\ e.link = d.link \cup {l}
      /\ e.claim = Put(d.claim, <<r, x>>, k)
      /\ e.review \in [Rows -> States]
  <2>1. e = Attributed(d, x, p, r, "REVIEWED", k)
    BY DEF LinkPerson
  <2>2. DOMAIN d = Tables /\ d.review \in [Rows -> States]
    BY <1>1 DEF Typed, Tables, States
  <2> HIDE DEF k
  <2> QED
    BY <2>1, <2>2, AttributedRows
<1>3. <<r, x>> \notin Ids(d)
  BY DEF Fresh
<1>4. p \in DOMAIN d.person /\ LinksOn(d, x) = {}
  BY DEF MayLink, Resolved, Active
<1>5. PICK c \in Listing(d, x) : c = CHOOSE y \in Listing(d, x) : TRUE
  <2>1. Listing(d, x) # {}
    BY FS_EmptySet DEF MayLink, Listed
  <2> QED
    BY <2>1
<1>6. /\ c \in DOMAIN d.claim /\ d.claim[c].kind = "LIST" /\ d.claim[c].row = x
      /\ d.claim[c] \in Claims(DOMAIN d.person, DOMAIN d.claim)
  BY <1>1, ClaimsTyped DEF Listing, Live, ClaimsAt
<1>7. x \in Rows /\ x \notin NecRows
  BY <1>1, <1>6 DEF Grounded, Claims
<1>8. k = Draft("ROLE", p, x, None) \/ (x \in WitnessRows /\ k = Draft("LINKED", p, x, c))
  BY <1>5, <1>7 DEF Rows
<1> HIDE DEF k
<1>9. /\ DOMAIN e.claim = DOMAIN d.claim \cup {<<r, x>>}
      /\ e.claim[<<r, x>>] = k
      /\ \A y \in DOMAIN d.claim : e.claim[y] = d.claim[y]
  <2>1. <<r, x>> \notin DOMAIN d.claim
    BY <1>3 DEF Ids
  <2> QED
    BY <1>2, <2>1 DEF Put
<1>10. Extends(d, e)
  <2>1. Function(e.claim) /\ Function(e.person)
    BY <1>1, <1>2 DEF Put, Function, Typed
  <2> QED
    BY <1>2, <1>9, <2>1 DEF Extends
<1>11. NewClaim(d, e, k)
  <2>1. CASE k = Draft("ROLE", p, x, None)
    BY <1>2, <1>4, <1>7, <2>1 DEF NewClaim, Draft, Claims, Statuses
  <2>2. CASE x \in WitnessRows /\ k = Draft("LINKED", p, x, c)
    <3>1. /\ k.status = "DRAFT" /\ k.kind = "LINKED" /\ k.origin = c
          /\ k \in Claims(DOMAIN e.person, DOMAIN e.claim)
      BY <1>2, <1>4, <1>6, <1>7, <1>9, <2>2, DraftTyped
    <3> QED
      BY <1>6, <2>2, <3>1 DEF NewClaim
  <2> QED
    BY <1>8, <2>1, <2>2
<1>12. NewLink(d, e, l)
  BY <1>2, <1>3, <1>4, <1>7 DEF NewLink, Link
<1>13. l.id = <<r, x>>
  BY DEF Link
<1> HIDE DEF l
<1>14. NamedAfter(d, e, r)
  BY <1>2, <1>9, <1>13 DEF NamedAfter, Ids
<1>15. BatchWhole(e)
  BY <1>1, <1>2, <1>14, BatchStays
<1>16. NamesDistinct(e)
  BY <1>1, <1>2 DEF NamesDistinct, Active
<1>17. \A y \in DOMAIN e.claim \ DOMAIN d.claim : NewClaim(d, e, e.claim[y])
  BY <1>9, <1>11
<1>18. e.link \ d.link \subseteq {l} /\ DOMAIN e.person \ DOMAIN d.person = {}
  BY <1>2
<1>19. /\ \A m \in e.link \ d.link : NewLink(d, e, m)
       /\ \A m, n \in e.link \ d.link : m.id = n.id \/ m.row = n.row => m = n
       /\ \A q \in DOMAIN e.person \ DOMAIN d.person : e.person[q] \in People /\ q # Org
  BY <1>12, <1>18
<1>20. Consistent(e)
  BY <1>10, <1>15, <1>16, <1>17, <1>19, ExtendsKeeps
<1>21. k.kind \in {"ROLE", "LINKED"}
  BY <1>8 DEF Draft
<1>22. Adds(d, e, {"ROLE", "LINKED"})
  BY <1>9, <1>10, <1>17, <1>21 DEF Adds
<1> QED
  BY <1>14, <1>20, <1>22

LEMMA RegisterKeeps ==
  ASSUME NEW d, Consistent(d), NEW r \in Requests, Fresh(d, r), NEW cmd, Shape(cmd), Permitted(d, cmd),
         cmd.action = "REGISTER_PERSON"
  PROVE  /\ Consistent(Planned(d, r, cmd)) /\ NamedAfter(d, Planned(d, r, cmd), r)
         /\ Adds(d, Planned(d, r, cmd), {"ROLE", "LINKED"})
<1> DEFINE e == Planned(d, r, cmd)
           rows == Range(cmd.targets)
<1>1. Typed(d) /\ Grounded(d) /\ NamesDistinct(d)
  BY DEF Consistent
<1>2. Registered(d, e, r, rows)
  BY <1>1, RegisterWrites
<1>3. \A row \in rows : row \in AlioRows /\ LinksOn(d, row) = {} /\ NameFree(d, NameOf[row])
  <2>1. \A x : Accepts(d, cmd, x) <=> MayRegister(d, x)
    BY DEF Accepts, Reviewing
  <2> QED
    BY <2>1 DEF Permitted, MayRegister
<1>4. \A row, other \in rows : NameOf[row] = NameOf[other] => row = other
  <2>1. \A i, j \in DOMAIN cmd.targets : NameOf[cmd.targets[i]] = NameOf[cmd.targets[j]] => i = j
    BY DEF Permitted, IsInjective
  <2> QED
    BY <2>1 DEF Range
<1>5. \A row \in rows : row \in Rows /\ NameOf[row] \in Names
  BY <1>3, NamesAssumption DEF Rows
<1>6. \A row : <<r, row>> \notin Ids(d) /\ <<r, row>>[1] = r
  BY DEF Fresh
<1>7. \A row \in rows : <<r, row>> # Org
  BY <1>5, IdsAssumption
<1> HIDE DEF e, rows
<1>8. /\ DOMAIN e = Tables /\ Function(e.claim) /\ Function(e.person)
      /\ DOMAIN e.claim = DOMAIN d.claim \cup New(r, rows)
      /\ \A c \in DOMAIN d.claim : e.claim[c] = d.claim[c]
      /\ \A row \in rows : e.claim[<<r, row>>] = Draft("ROLE", <<r, row>>, row, None)
      /\ DOMAIN e.person = DOMAIN d.person \cup New(r, rows)
      /\ \A p \in DOMAIN d.person : e.person[p] = d.person[p]
      /\ \A row \in rows : e.person[<<r, row>>] = Person(NameOf[row], "RESOLVED")
      /\ e.review \in [Rows -> States]
  <2>1. \A i \in New(r, rows) : i \notin DOMAIN d.claim /\ i \notin DOMAIN d.person
    BY <1>6 DEF New, Ids
  <2> QED
    BY <1>2, <2>1 DEF Registered
<1>9. Extends(d, e)
  <2>1. d.link \subseteq e.link
    BY <1>2 DEF Registered
  <2> QED
    BY <1>8, <2>1 DEF Extends
<1>10. \A l \in e.link \ d.link : \E row \in rows : l = Link(<<r, row>>, <<r, row>>, row, "REVIEWED")
  BY <1>2 DEF Registered
<1>11. \A c \in DOMAIN e.claim \ DOMAIN d.claim : NewClaim(d, e, e.claim[c]) /\ e.claim[c].kind = "ROLE"
  <2> SUFFICES ASSUME NEW row \in rows, NEW i, i = <<r, row>>
               PROVE  NewClaim(d, e, e.claim[i]) /\ e.claim[i].kind = "ROLE"
    BY <1>8 DEF New
  <2>1. i \in DOMAIN e.person /\ row \in Rows /\ e.claim[i] = Draft("ROLE", i, row, None)
    BY <1>5, <1>8 DEF New
  <2>2. LET k == e.claim[i] IN
        k \in Claims(DOMAIN e.person, DOMAIN e.claim) /\ k.status = "DRAFT" /\ k.kind = "ROLE"
    BY <2>1, RoleTyped
  <2> QED
    BY <2>2 DEF NewClaim
<1>12. \A p \in DOMAIN e.person \ DOMAIN d.person : e.person[p] \in People /\ p # Org
  <2>1. \A row \in rows : Person(NameOf[row], "RESOLVED") \in People
    BY <1>5 DEF Person, People
  <2> QED
    BY <1>7, <1>8, <2>1 DEF New
<1>13. ASSUME NEW l \in e.link \ d.link PROVE NewLink(d, e, l)
  <2>1. PICK row \in rows : l = Link(<<r, row>>, <<r, row>>, row, "REVIEWED")
    BY <1>10
  <2>2. <<r, row>> \in DOMAIN e.person /\ <<r, row>> \notin Ids(d)
    BY <1>6, <1>8 DEF New
  <2> QED
    BY <1>3, <1>5, <2>1, <2>2 DEF NewLink, Link
<1>14. \A l, m \in e.link \ d.link : l.id = m.id \/ l.row = m.row => l = m
  <2>1. \A l \in e.link \ d.link : l.id[2] = l.row /\ l = Link(<<r, l.row>>, <<r, l.row>>, l.row, "REVIEWED")
    BY <1>10 DEF Link
  <2>2. \A l, m \in e.link \ d.link : l.id = m.id => l.row = m.row
    BY <2>1
  <2> QED
    BY <2>1, <2>2
<1>15. NamedAfter(d, e, r)
  <2>1. \A l \in e.link : l \in d.link \/ l.id[1] = r
    BY <1>6, <1>10 DEF Link
  <2>2. \A i \in New(r, rows) : i[1] = r
    BY DEF New
  <2> QED
    BY <1>8, <2>1, <2>2 DEF NamedAfter, Ids
<1>16. BatchWhole(e)
  BY <1>1, <1>8, <1>15, BatchStays, IdsAssumption
<1>17. NamesDistinct(e)
  <2> SUFFICES ASSUME NEW p \in Active(e), NEW q \in Active(e), e.person[p].name = e.person[q].name
               PROVE  p = q
    BY DEF NamesDistinct
  <2>1. \A i \in Active(e) : \/ i \in Active(d) /\ e.person[i] = d.person[i]
                             \/ \E row \in rows : i = <<r, row>> /\ e.person[i].name = NameOf[row]
    <3> SUFFICES ASSUME NEW i \in Active(e), i \notin DOMAIN d.person
                 PROVE  \E row \in rows : i = <<r, row>> /\ e.person[i].name = NameOf[row]
      BY <1>8 DEF Active
    <3>1. PICK row \in rows : i = <<r, row>> /\ i \in New(r, rows)
      BY <1>8 DEF Active, New
    <3>2. e.person[i].name = NameOf[row]
      <4>1. e.person[i] = Person(NameOf[row], "RESOLVED")
        BY <1>8, <3>1
      <4> QED
        BY <4>1 DEF Person
    <3> QED
      BY <3>1, <3>2
  <2>2. \A i \in Active(d), row \in rows : d.person[i].name # NameOf[row]
    BY <1>3 DEF NameFree, CalledBy
  <2> QED
    BY <1>1, <1>4, <2>1, <2>2 DEF NamesDistinct
<1>18. Consistent(e)
  BY <1>9, <1>11, <1>12, <1>13, <1>14, <1>16, <1>17, ExtendsKeeps
<1>19. Adds(d, e, {"ROLE", "LINKED"})
  BY <1>9, <1>11 DEF Adds
<1> QED
  BY <1>15, <1>18, <1>19 DEF e

\* e is d after the batch has made a person of each of the rows.
Materialized(d, e, rows) ==
  e = LET ids == {<<Batch, row>> : row \in rows} IN
      [d EXCEPT
          !.person = PutAll(@, [i \in ids |-> [name |-> NameOf[i[2]], aliases |-> {},
                                                status |-> "REVIEW", active |-> TRUE]]),
          !.claim = PutAll(@, [i \in ids |-> Draft("ROLE", i, i[2], None)]),
          !.link = @ \cup {Link(i, i, i[2], "CONTEXT") : i \in ids}]

LEMMA MaterializeKeeps ==
  ASSUME NEW d, Consistent(d), NEW e, Materialized(d, e, Creatable(d))
  PROVE  Consistent(e) /\ NamedAfter(d, e, Batch) /\ Adds(d, e, {"ROLE", "LINKED"})
<1> DEFINE rows == Creatable(d)
           ids == New(Batch, rows)
           made == [i \in ids |-> Person(NameOf[i[2]], "REVIEW")]
           drafts == [i \in ids |-> Draft("ROLE", i, i[2], None)]
<1>1. Typed(d) /\ Grounded(d) /\ NamesDistinct(d)
  BY DEF Consistent
<1>2. /\ DOMAIN e = Tables
      /\ e.person = PutAll(d.person, made)
      /\ e.claim = PutAll(d.claim, drafts)
      /\ e.link = d.link \cup {Link(i, i, i[2], "CONTEXT") : i \in ids}
      /\ e.review = d.review
  BY <1>1 DEF Typed, Tables, Materialized, Person, New
<1>3. \A row \in rows : /\ row \in AlioRows /\ LinksOn(d, row) = {}
                        /\ <<Batch, row>> \notin DOMAIN d.person
                        /\ ~ Collides(d, NameOf[row])
                        /\ \A other \in rows : NameOf[other] = NameOf[row] => other = row
  BY DEF Creatable
<1> HIDE DEF rows
<1>4. \A i \in ids : i \notin Ids(d)
  BY <1>1, <1>3 DEF Grounded, New
<1>5. \A row \in rows : row \in Rows /\ NameOf[row] \in Names /\ <<Batch, row>> # Org
  BY <1>3, NamesAssumption, IdsAssumption DEF Rows
<1>6. \A i \in ids : i = <<Batch, i[2]>> /\ i[1] = Batch /\ i[2] \in rows
  BY DEF New
<1> HIDE DEF ids, made, drafts
<1>7. /\ Function(e.claim) /\ Function(e.person)
      /\ DOMAIN e.claim = DOMAIN d.claim \cup ids
      /\ \A c \in DOMAIN d.claim : e.claim[c] = d.claim[c]
      /\ \A i \in ids : e.claim[i] = Draft("ROLE", i, i[2], None)
      /\ DOMAIN e.person = DOMAIN d.person \cup ids
      /\ \A p \in DOMAIN d.person : e.person[p] = d.person[p]
      /\ \A i \in ids : e.person[i] = Person(NameOf[i[2]], "REVIEW")
  <2>1. \A i \in ids : i \notin DOMAIN d.claim /\ i \notin DOMAIN d.person
    BY <1>4 DEF Ids
  <2> QED
    BY <1>2, <2>1 DEF PutAll, made, drafts, Function
<1>8. Extends(d, e)
  BY <1>1, <1>2, <1>7 DEF Extends, Typed, States
<1>9. \A l \in e.link \ d.link : \E i \in ids : l = Link(i, i, i[2], "CONTEXT")
  BY <1>2
<1>10. \A c \in DOMAIN e.claim \ DOMAIN d.claim : NewClaim(d, e, e.claim[c]) /\ e.claim[c].kind = "ROLE"
  <2> SUFFICES ASSUME NEW i \in ids PROVE NewClaim(d, e, e.claim[i]) /\ e.claim[i].kind = "ROLE"
    BY <1>7
  <2>1. i \in DOMAIN e.person /\ i[2] \in Rows
    BY <1>5, <1>6, <1>7
  <2>2. LET k == e.claim[i] IN
        k \in Claims(DOMAIN e.person, DOMAIN e.claim) /\ k.status = "DRAFT" /\ k.kind = "ROLE"
    <3>1. e.claim[i] = Draft("ROLE", i, i[2], None)
      BY <1>7
    <3> QED
      BY <2>1, <3>1, RoleTyped
  <2> QED
    BY <2>2 DEF NewClaim
<1>11. \A p \in DOMAIN e.person \ DOMAIN d.person : e.person[p] \in People /\ p # Org
  <2>1. \A row \in rows : Person(NameOf[row], "REVIEW") \in People
    BY <1>5 DEF Person, People
  <2> QED
    BY <1>5, <1>6, <1>7, <2>1
<1>12. ASSUME NEW l \in e.link \ d.link PROVE NewLink(d, e, l)
  <2>1. PICK i \in ids : l = Link(i, i, i[2], "CONTEXT")
    BY <1>9
  <2>2. i \in DOMAIN e.person /\ i \notin Ids(d) /\ i[2] \in rows
    BY <1>4, <1>6, <1>7
  <2> QED
    BY <1>3, <1>5, <2>1, <2>2 DEF NewLink, Link
<1>13. \A l, m \in e.link \ d.link : l.id = m.id \/ l.row = m.row => l = m
  <2>1. \A l \in e.link \ d.link : /\ l.id[2] = l.row
                                   /\ l = Link(<<Batch, l.row>>, <<Batch, l.row>>, l.row, "CONTEXT")
    BY <1>6, <1>9 DEF Link
  <2>2. \A l, m \in e.link \ d.link : l.id = m.id => l.row = m.row
    BY <2>1
  <2> QED
    BY <2>1, <2>2
<1>14. NamedAfter(d, e, Batch)
  <2>1. \A l \in e.link : l \in d.link \/ l.id[1] = Batch
    BY <1>6, <1>9 DEF Link
  <2> QED
    BY <1>6, <1>7, <2>1 DEF NamedAfter, Ids
<1>15. BatchWhole(e)
  <2> SUFFICES ASSUME NEW row \in AlioRows, <<Batch, row>> \in Ids(e) PROVE <<Batch, row>> \in DOMAIN e.person
    BY DEF BatchWhole
  <2>1. \A l \in e.link : l \in d.link \/ l.id \in ids
    BY <1>9 DEF Link
  <2>2. <<Batch, row>> \in Ids(d) \/ <<Batch, row>> \in ids
    BY <1>7, <2>1 DEF Ids
  <2> QED
    BY <1>1, <1>7, <2>2 DEF Grounded
<1>16. NamesDistinct(e)
  <2> SUFFICES ASSUME NEW p \in Active(e), NEW q \in Active(e), e.person[p].name = e.person[q].name
               PROVE  p = q
    BY DEF NamesDistinct
  <2>1. \A i \in Active(e) : \/ i \in Active(d) /\ e.person[i] = d.person[i]
                             \/ \E row \in rows : i = <<Batch, row>> /\ e.person[i].name = NameOf[row]
    <3> SUFFICES ASSUME NEW i \in Active(e), i \notin DOMAIN d.person
                 PROVE  \E row \in rows : i = <<Batch, row>> /\ e.person[i].name = NameOf[row]
      BY <1>6, <1>7 DEF Active
    <3>1. PICK row \in rows : i = <<Batch, row>> /\ i \in ids
      BY <1>6, <1>7 DEF Active, New
    <3>2. e.person[i].name = NameOf[row]
      <4>1. e.person[i] = Person(NameOf[i[2]], "REVIEW") /\ i[2] = row
        BY <1>7, <3>1
      <4> QED
        BY <4>1 DEF Person
    <3> QED
      BY <3>1, <3>2
  <2>2. \A i \in Active(d), row \in rows : d.person[i].name # NameOf[row]
    BY <1>3 DEF Collides
  <2> QED
    BY <1>1, <1>3, <2>1, <2>2 DEF NamesDistinct
<1>17. Consistent(e)
  BY <1>8, <1>10, <1>11, <1>12, <1>13, <1>15, <1>16, ExtendsKeeps
<1>18. Adds(d, e, {"ROLE", "LINKED"})
  BY <1>8, <1>10 DEF Adds
<1> QED
  BY <1>14, <1>17, <1>18

\* e has the people of d, some of them changed.
PeopleOnly(d, e) ==
  /\ DOMAIN e = Tables
  /\ e.claim = d.claim /\ e.link = d.link /\ e.review = d.review
  /\ DOMAIN e.person = DOMAIN d.person
  /\ e.person \in [DOMAIN e.person -> People]
  /\ \A p \in DOMAIN d.person : /\ e.person[p].active = d.person[p].active
                                /\ d.person[p].status = "RESOLVED" => e.person[p].status = "RESOLVED"

LEMMA PeopleKeep ==
  ASSUME NEW d, Consistent(d), NEW e, PeopleOnly(d, e), NamesDistinct(e)
  PROVE  Consistent(e) /\ Ids(e) = Ids(d)
<1>1. Typed(d) /\ Grounded(d)
  BY DEF Consistent
<1>2. Typed(e)
  BY <1>1 DEF Typed, PeopleOnly, People, Tables
<1>3. Grounded(e)
  BY <1>1 DEF Grounded, Ids, PeopleOnly
<1>4. OneOwnerPerRow(e) /\ SourcesStand(e)
  BY DEF Consistent, OneOwnerPerRow, SourcesStand, Public, Live, PeopleOnly
<1>5. Resolved(d) \subseteq Resolved(e)
  BY DEF Resolved, Active, PeopleOnly
<1>6. Backed(e)
  BY <1>5 DEF Consistent, Backed, Public, Live, Linked, LinksOn, PeopleOnly
<1> QED
  BY <1>2, <1>3, <1>4, <1>6 DEF Consistent, Ids, PeopleOnly

LEMMA TypedPeople ==
  ASSUME NEW d, Typed(d)
  PROVE  d.person \in [DOMAIN d.person -> People]
  BY DEF Typed, People

LEMMA ResolveKeeps ==
  ASSUME NEW d, Consistent(d), NEW x, x \in Active(d),
         NEW e, e = [d EXCEPT !.person[x].status = "RESOLVED"]
  PROVE  Consistent(e) /\ Ids(e) = Ids(d)
<1>1. DOMAIN d = Tables /\ NamesDistinct(d)
  BY DEF Consistent, Typed, Tables
<1>2. d.person \in [DOMAIN d.person -> People]
  BY TypedPeople DEF Consistent
<1>3. /\ DOMAIN e = Tables
      /\ e.claim = d.claim /\ e.link = d.link /\ e.review = d.review
      /\ e.person = [d.person EXCEPT ![x].status = "RESOLVED"]
  BY <1>1 DEF Tables
<1>4. /\ DOMAIN e.person = DOMAIN d.person
      /\ e.person \in [DOMAIN e.person -> People]
      /\ \A p \in DOMAIN d.person : /\ e.person[p].active = d.person[p].active
                                    /\ e.person[p].name = d.person[p].name
                                    /\ d.person[p].status = "RESOLVED" => e.person[p].status = "RESOLVED"
  <2> DEFINE h == d.person[x]
             g == [h EXCEPT !.status = "RESOLVED"]
  <2>1. x \in DOMAIN d.person /\ h \in People
    BY <1>2 DEF Active
  <2>2. g \in People /\ g.active = h.active /\ g.name = h.name /\ g.status = "RESOLVED"
    <3> HIDE DEF h
    <3> QED
      BY <2>1 DEF People
  <2>3. e.person = [d.person EXCEPT ![x] = g]
    BY <1>3
  <2> HIDE DEF g
  <2> QED
    BY <1>2, <2>1, <2>2, <2>3
<1>5. PeopleOnly(d, e)
  BY <1>3, <1>4 DEF PeopleOnly
<1>6. NamesDistinct(e)
  BY <1>1, <1>4 DEF NamesDistinct, Active
<1> QED
  BY <1>5, <1>6, PeopleKeep

LEMMA RenameKeeps ==
  ASSUME NEW d, Consistent(d), NEW x, NEW name \in Names, MayRename(d, x, name),
         NEW e, e = Rename(d, d, x, name)
  PROVE  Consistent(e) /\ Ids(e) = Ids(d)
<1>1. DOMAIN d = Tables /\ NamesDistinct(d)
  BY DEF Consistent, Typed, Tables
<1>2. d.person \in [DOMAIN d.person -> People] /\ x \in DOMAIN d.person
  BY TypedPeople DEF Consistent, MayRename, Active
<1>3. /\ DOMAIN e = Tables
      /\ e.claim = d.claim /\ e.link = d.link /\ e.review = d.review
      /\ e.person = [d.person EXCEPT ![x].name = name, ![x].aliases = @ \cup {d.person[x].name}]
  BY <1>1 DEF Rename, Tables
<1>4. /\ DOMAIN e.person = DOMAIN d.person
      /\ e.person \in [DOMAIN e.person -> People]
      /\ \A p \in DOMAIN d.person : /\ e.person[p].active = d.person[p].active
                                    /\ e.person[p].name = IF p = x THEN name ELSE d.person[p].name
                                    /\ e.person[p].status = d.person[p].status
  <2> DEFINE h == d.person[x]
             g == [h EXCEPT !.name = name, !.aliases = @ \cup {h.name}]
  <2>1. h \in People
    BY <1>2
  <2>2. g \in People /\ g.active = h.active /\ g.name = name /\ g.status = h.status
    <3> HIDE DEF h
    <3> QED
      BY <2>1 DEF People
  <2>3. e.person = [d.person EXCEPT ![x] = g]
    BY <1>2, <1>3
  <2> HIDE DEF g
  <2> QED
    BY <1>2, <2>1, <2>2, <2>3
<1>5. PeopleOnly(d, e)
  BY <1>3, <1>4 DEF PeopleOnly
<1>6. NamesDistinct(e)
  BY <1>1, <1>4 DEF NamesDistinct, Active, MayRename
<1> QED
  BY <1>5, <1>6, PeopleKeep

\* A link that has ended.
Ended(l) == [l EXCEPT !.live = FALSE]

LEMMA EndedLinks ==
  ASSUME NEW d, Typed(d), NEW l \in d.link, NEW h, h = Ended(l)
  PROVE  /\ DOMAIN h = {"id", "person", "row", "how", "live"}
         /\ h.id = l.id /\ h.person = l.person /\ h.row = l.row /\ h.how = l.how /\ ~ h.live
<1>1. DOMAIN l = {"id", "person", "row", "how", "live"}
  BY DEF Typed
<1> QED
  BY <1>1 DEF Ended

\* The links of a database after those of a person have ended.
Without(d, p) == (d.link \ LinksOf(d, p)) \cup {Ended(l) : l \in LinksOf(d, p)}

\* The claims of e, in the database that d is otherwise.
OtherClaims(d, e) == [e EXCEPT !.person = d.person, !.link = d.link, !.review = d.review]

\* e is d after p has been deactivated.
Deactivated(d, e, p) ==
  /\ MarksOnly(d, OtherClaims(d, e), ClaimsOf(d, p), "WITHHELD")
  /\ DOMAIN e = Tables
  /\ e.link = Without(d, p)
  /\ e.person = [d.person EXCEPT ![p] = [d.person[p] EXCEPT !.active = FALSE]]
  /\ DOMAIN e.review = Rows /\ e.review \in [Rows -> States]
  /\ \A row \in Rows : e.review[row] = IF row \in {l.row : l \in LinksOf(d, p)} THEN "REJECTED"
                                       ELSE d.review[row]

LEMMA DeactivateWrites ==
  ASSUME NEW d, Typed(d), NEW p \in DOMAIN d.person, NEW e, e = Deactivate(d, d, p)
  PROVE  Deactivated(d, e, p)
<1> DEFINE cs == ClaimsOf(d, p)
           ls == LinksOf(d, p)
           rows == {l.row : l \in ls}
           a == Marked(d, cs, "WITHHELD")
           b == Unlinked(a, ls)
           c == Reviewed(b, rows, "REJECTED")
<1>1. e = [c EXCEPT !.person[p].active = FALSE]
  BY DEF Deactivate
<1>2. DOMAIN d = Tables /\ d.review \in [Rows -> States] /\ d.person \in [DOMAIN d.person -> People]
  BY DEF Typed, Tables, States, People
<1> HIDE DEF cs, ls, rows
<1>3. /\ DOMAIN a = Tables /\ a.person = d.person /\ a.link = d.link /\ a.review = d.review
      /\ a.claim = [x \in DOMAIN d.claim |->
                      IF x \in cs THEN [d.claim[x] EXCEPT !.status = "WITHHELD"] ELSE d.claim[x]]
  BY <1>2 DEF Marked, Tables
<1> HIDE DEF a
<1>4. /\ DOMAIN b = Tables /\ b.person = d.person /\ b.review = d.review /\ b.claim = a.claim
      /\ b.link = (d.link \ ls) \cup {Ended(l) : l \in ls}
  BY <1>3 DEF Unlinked, Tables, Ended
<1> HIDE DEF b
<1>5. /\ DOMAIN c = Tables /\ c.person = d.person /\ c.link = b.link /\ c.claim = a.claim
      /\ c.review \in [Rows -> States] /\ DOMAIN c.review = Rows
      /\ \A row \in Rows : c.review[row] = IF row \in rows THEN "REJECTED" ELSE d.review[row]
  BY <1>2, <1>4 DEF Reviewed, Tables, States
<1> HIDE DEF c
<1>6. /\ DOMAIN e = Tables /\ e.link = b.link /\ e.claim = a.claim /\ e.review = c.review
      /\ e.person = [d.person EXCEPT ![p] = [d.person[p] EXCEPT !.active = FALSE]]
  BY <1>1, <1>2, <1>5 DEF Tables
<1> DEFINE f == [e EXCEPT !.person = d.person, !.link = d.link, !.review = d.review]
<1>7. /\ DOMAIN f = Tables /\ f.person = d.person /\ f.link = d.link /\ f.review = d.review /\ f.claim = a.claim
  BY <1>6 DEF Tables
<1> HIDE DEF f
<1>8. MarksOnly(d, f, cs, "WITHHELD")
  BY <1>3, <1>7 DEF MarksOnly, OnlyClaims, Function
<1> QED
  BY <1>4, <1>5, <1>6, <1>8 DEF f, cs, ls, rows, Deactivated, OtherClaims, Without

(* They are the same links, and those still live have not been touched.    *)
LEMMA WithoutLinks ==
  ASSUME NEW d, Typed(d), Grounded(d), NEW p
  PROVE  LET L == Without(d, p) IN
         /\ \A l \in L : \E m \in d.link :
              /\ DOMAIN l = DOMAIN m
              /\ l.id = m.id /\ l.person = m.person /\ l.row = m.row /\ l.how = m.how
              /\ l.live \in BOOLEAN
              /\ l.live => l = m /\ m.person # p
         /\ \A m \in d.link : m.person # p => m \in L
         /\ {l.id : l \in L} = {l.id : l \in d.link}
         /\ \A l, m \in L : l.id = m.id => l = m
<1> DEFINE L == Without(d, p)
           ls == LinksOf(d, p)
<1>1. L = (d.link \ ls) \cup {Ended(l) : l \in ls}
  BY DEF Without
<1>2. \A l \in ls : l \in d.link /\ l.live /\ l.person = p
  BY DEF LinksOf
<1>3. \A l \in d.link : l.live \in BOOLEAN /\ (l \notin ls => ~ l.live \/ l.person # p)
  BY DEF Typed, LinksOf
<1>4. \A m \in d.link : LET l == Ended(m) IN
         /\ DOMAIN l = DOMAIN m /\ l.id = m.id /\ l.person = m.person /\ l.row = m.row
         /\ l.how = m.how /\ l.live = FALSE
  <2> SUFFICES ASSUME NEW m \in d.link, NEW l, l = Ended(m)
               PROVE  /\ DOMAIN l = DOMAIN m /\ l.id = m.id /\ l.person = m.person /\ l.row = m.row
                      /\ l.how = m.how /\ l.live = FALSE
    OBVIOUS
  <2>1. DOMAIN m = {"id", "person", "row", "how", "live"}
    BY DEF Typed
  <2> QED
    BY <2>1 DEF Ended
<1> HIDE DEF ls, L
<1>5. ASSUME NEW l \in L
      PROVE  \E m \in d.link :
              /\ DOMAIN l = DOMAIN m
              /\ l.id = m.id /\ l.person = m.person /\ l.row = m.row /\ l.how = m.how
              /\ l.live \in BOOLEAN
              /\ l.live => l = m /\ m.person # p
  <2>1. CASE l \in d.link \ ls
    BY <1>3, <2>1
  <2>2. CASE l \notin d.link \ ls
    <3>1. PICK m \in ls : l = Ended(m)
      BY <1>1, <2>2
    <3> QED
      BY <1>2, <1>4, <3>1
  <2> QED
    BY <2>1, <2>2
<1>6. \A m \in d.link : m.person # p => m \in L
  BY <1>1, <1>2
<1>7. \A m \in d.link : m \in L \/ Ended(m) \in L
  BY <1>1
<1>8. {l.id : l \in L} = {l.id : l \in d.link}
  BY <1>4, <1>5, <1>7
<1>9. \A l, m \in d.link : l.id = m.id => l = m
  BY DEF Grounded
<1>10. ASSUME NEW l \in L, NEW m \in L, l.id = m.id PROVE l = m
  <2>1. \A k \in L : \/ k \in d.link \ ls
                      \/ \E h \in ls : h \in d.link /\ k = Ended(h) /\ k.id = h.id
    BY <1>1, <1>2, <1>4
  <2> QED
    BY <1>9, <1>10, <2>1
<1> QED
  BY <1>5, <1>6, <1>8, <1>10 DEF L

LEMMA DeactivateKeeps ==
  ASSUME NEW d, Consistent(d), NEW p, p \in Active(d), NEW e, e = Deactivate(d, d, p)
  PROVE  Consistent(e) /\ Ids(e) = Ids(d)
<1> DEFINE cs == ClaimsOf(d, p)
           f == OtherClaims(d, e)
<1>1. Typed(d) /\ Grounded(d) /\ NamesDistinct(d) /\ OneOwnerPerRow(d) /\ Backed(d) /\ SourcesStand(d)
  BY DEF Consistent
<1>2. p \in DOMAIN d.person
  BY DEF Active
<1>3. /\ MarksOnly(d, f, cs, "WITHHELD")
      /\ DOMAIN e = Tables
      /\ e.link = Without(d, p)
      /\ e.person = [d.person EXCEPT ![p] = [d.person[p] EXCEPT !.active = FALSE]]
      /\ e.review \in [Rows -> States]
  <2>1. Deactivated(d, e, p)
    BY <1>1, <1>2, DeactivateWrites
  <2> QED
    BY <2>1 DEF Deactivated
<1>4. /\ e.claim = f.claim
  BY <1>3 DEF Tables, OtherClaims
<1> HIDE DEF f, cs
<1>5. "WITHHELD" \in Statuses \ {"PUBLISHED"}
  BY DEF Statuses
<1>6. Built(f) /\ Ids(f) = Ids(d)
  BY <1>3, <1>5, MarksBacked
<1>7. /\ OnlyClaims(d, f)
      /\ \A c \in DOMAIN d.claim :
              /\ c \notin cs => f.claim[c] = d.claim[c]
              /\ c \in cs => f.claim[c].status = "WITHHELD"
              /\ f.claim[c].live = d.claim[c].live
              /\ f.claim[c].subject = d.claim[c].subject
  BY <1>1, <1>3, <1>5, MarksRestate
<1>8. /\ DOMAIN f.person = DOMAIN d.person /\ f.link = d.link /\ DOMAIN f.claim = DOMAIN d.claim
      /\ f.person = d.person
  BY <1>7 DEF OnlyClaims
<1>9. /\ DOMAIN e.person = DOMAIN d.person /\ e.person \in [DOMAIN e.person -> People]
      /\ \A q \in DOMAIN d.person : q # p => e.person[q] = d.person[q]
      /\ e.person[p].active = FALSE
  <2> DEFINE h == d.person[p]
             g == [h EXCEPT !.active = FALSE]
  <2>1. h \in People /\ d.person \in [DOMAIN d.person -> People]
    BY <1>1, <1>2, TypedPeople
  <2>2. g \in People /\ g.active = FALSE
    <3> HIDE DEF h
    <3> QED BY <2>1 DEF People
  <2>3. e.person = [d.person EXCEPT ![p] = g]
    BY <1>3
  <2> HIDE DEF g
  <2> QED
    BY <1>2, <2>1, <2>2, <2>3
<1>10. /\ \A l \in e.link : \E m \in d.link :
              /\ DOMAIN l = DOMAIN m
              /\ l.id = m.id /\ l.person = m.person /\ l.row = m.row /\ l.how = m.how
              /\ l.live \in BOOLEAN
              /\ l.live => l = m /\ m.person # p
       /\ \A m \in d.link : m.person # p => m \in e.link
       /\ {l.id : l \in e.link} = {l.id : l \in d.link}
       /\ \A l, m \in e.link : l.id = m.id => l = m
  BY <1>1, <1>3, WithoutLinks
<1>13. Typed(e)
  <2>1. e.claim \in [DOMAIN e.claim -> Claims(DOMAIN e.person, DOMAIN e.claim)]
    BY <1>4, <1>6, <1>8, <1>9, ClaimsTyped DEF Built
  <2>2. \A l \in e.link : /\ DOMAIN l = {"id", "person", "row", "how", "live"}
                       /\ l.person \in DOMAIN e.person /\ l.row \in Rows
                       /\ l.how \in {"CONTEXT", "REVIEWED"} /\ l.live \in BOOLEAN
    <3>1. \A m \in d.link : /\ DOMAIN m = {"id", "person", "row", "how", "live"}
                       /\ m.person \in DOMAIN d.person /\ m.row \in Rows
                       /\ m.how \in {"CONTEXT", "REVIEWED"}
      BY <1>1 DEF Typed
    <3> QED
      BY <1>9, <1>10, <3>1
  <2> QED
    BY <1>3, <1>9, <2>1, <2>2 DEF Typed, Claims, People, Tables, States
<1>14. Ids(e) = Ids(d)
  BY <1>4, <1>8, <1>9, <1>10 DEF Ids
<1>15. Grounded(e)
  <2>1. BatchWhole(e)
    BY <1>1, <1>9, <1>14 DEF BatchWhole, Grounded
  <2> QED
    BY <1>4, <1>6, <1>8, <1>9, <1>10, <2>1 DEF Built, Grounded, BatchWhole
<1>16. OneOwnerPerRow(e)
  BY <1>1, <1>10 DEF OneOwnerPerRow
<1>17. \A q : q \in Active(e) <=> q \in Active(d) /\ q # p
  BY <1>2, <1>9 DEF Active
<1>18. NamesDistinct(e)
  BY <1>1, <1>9, <1>17 DEF NamesDistinct, Active
<1>19. \A c \in Public(e) : c \in Public(d) /\ e.claim[c] = d.claim[c] /\ d.claim[c].subject # p
  BY <1>4, <1>7, <1>8 DEF Public, Live, cs, ClaimsOf
<1>20. Backed(e)
  <2>1. \A q \in Resolved(d) : q # p => q \in Resolved(e)
    BY <1>9, <1>17 DEF Resolved, Active
  <2>2. \A q, row : q # p /\ Linked(d, q, row) => Linked(e, q, row)
    BY <1>10 DEF Linked, LinksOn
  <2> QED
    BY <1>1, <1>19, <2>1, <2>2 DEF Backed
<1>21. SourcesStand(e)
  <2> SUFFICES ASSUME NEW c \in Public(e), e.claim[c].kind = "LINKED", e.claim[e.claim[c].origin].live
               PROVE  e.claim[c].origin \in Public(e)
    BY DEF SourcesStand
  <2> DEFINE o == d.claim[c].origin
  <2>1. c \in Public(d) /\ e.claim[c] = d.claim[c]
    BY <1>19
  <2>2. o \in DOMAIN d.claim /\ d.claim[o].subject = Org /\ Org # p
    BY <1>1, <1>2, <2>1 DEF Grounded, Public, Live
  <2>3. o \in Public(d)
    BY <1>1, <1>4, <1>7, <2>1, <2>2 DEF SourcesStand
  <2>4. o \notin cs
    BY <2>2 DEF cs, ClaimsOf
  <2> HIDE DEF o
  <2>5. e.claim[c].origin = o
    BY <2>1 DEF o
  <2> QED
    BY <1>4, <1>7, <1>8, <2>2, <2>3, <2>4, <2>5 DEF Public, Live
<1> QED
  BY <1>13, <1>14, <1>15, <1>16, <1>18, <1>20, <1>21 DEF Consistent

\* The links a merge adds, to the survivor.
Moved(d, p, t, r) ==
  {Link(<<r, l.id>>, t, l.row, "REVIEWED") : l \in {m \in LinksOf(d, p) : ~ Linked(d, t, m.row)}}

\* e is d after p has been merged into t.
Merged(d, e, p, t, r) ==
  /\ DOMAIN e = Tables /\ Function(e.claim)
  /\ DOMAIN e.claim = DOMAIN d.claim \cup New(r, ClaimsOf(d, p))
  /\ \A c \in DOMAIN d.claim : c \notin New(r, ClaimsOf(d, p)) =>
       e.claim[c] = IF c \in ClaimsOf(d, p) THEN [d.claim[c] EXCEPT !.live = FALSE] ELSE d.claim[c]
  /\ \A c \in ClaimsOf(d, p) : e.claim[<<r, c>>] = [d.claim[c] EXCEPT !.subject = t]
  /\ e.link = Without(d, p) \cup Moved(d, p, t, r)
  /\ Function(e.person) /\ DOMAIN e.person = DOMAIN d.person
  /\ \A q \in DOMAIN d.person \ {p, t} : e.person[q] = d.person[q]
  /\ e.person[t] = [d.person[t] EXCEPT !.aliases = d.person[t].aliases \cup d.person[p].aliases]
  /\ e.person[p] = [d.person[p] EXCEPT !.aliases = {}, !.active = FALSE]
  /\ e.review = d.review

LEMMA MergeWrites ==
  ASSUME NEW d, Typed(d), NEW p \in DOMAIN d.person, NEW t \in DOMAIN d.person \ {p}, NEW r,
         NEW e, e = Merge(d, d, p, t, r)
  PROVE  Merged(d, e, p, t, r)
<1> DEFINE cs == ClaimsOf(d, p)
           ls == LinksOf(d, p)
           a == Superseded(d, cs)
           b == Unlinked(a, ls)
           copies == Copies(d, p, t, r)
           moved == Moved(d, p, t, r)
<1>1. e = [b EXCEPT !.claim = PutAll(@, copies), !.link = @ \cup moved,
                    !.person[t].aliases = @ \cup d.person[p].aliases,
                    !.person[p].aliases = {}, !.person[p].active = FALSE]
  BY DEF Merge, Moved
<1>2. DOMAIN d = Tables /\ d.person \in [DOMAIN d.person -> People]
  BY DEF Typed, Tables, People
<1>3. /\ DOMAIN copies = New(r, cs)
      /\ \A c \in cs : copies[<<r, c>>] = [d.claim[c] EXCEPT !.subject = t]
  BY DEF Copies, New
<1>4. cs \subseteq DOMAIN d.claim
  BY DEF ClaimsOf, Live
<1> HIDE DEF cs, copies, moved
<1>5. /\ DOMAIN a = Tables /\ a.person = d.person /\ a.link = d.link /\ a.review = d.review
      /\ a.claim = [x \in DOMAIN d.claim |->
                      IF x \in cs THEN [d.claim[x] EXCEPT !.live = FALSE] ELSE d.claim[x]]
  BY <1>2 DEF Superseded, Tables
<1> HIDE DEF a
<1>6. /\ DOMAIN b = Tables /\ b.person = d.person /\ b.review = d.review /\ b.claim = a.claim
      /\ b.link = Without(d, p)
  BY <1>5 DEF Unlinked, Tables, Ended, Without
<1> HIDE DEF b
<1> DEFINE f == [b EXCEPT !.claim = PutAll(@, copies), !.link = @ \cup moved]
           people == [d.person EXCEPT ![t].aliases = @ \cup d.person[p].aliases,
                                      ![p].aliases = {}, ![p].active = FALSE]
<1>7. /\ DOMAIN e = Tables /\ e.claim = PutAll(a.claim, copies) /\ e.link = Without(d, p) \cup moved
      /\ e.review = d.review
      /\ e.person = people
  <2>1. /\ DOMAIN f = Tables /\ f.claim = PutAll(a.claim, copies) /\ f.link = Without(d, p) \cup moved
        /\ f.review = d.review /\ f.person = d.person
    BY <1>6 DEF Tables
  <2>2. e = [f EXCEPT !.person[t].aliases = @ \cup d.person[p].aliases,
                      !.person[p].aliases = {}, !.person[p].active = FALSE]
    BY <1>1
  <2> HIDE DEF f
  <2> QED
    BY <2>1, <2>2 DEF Tables
<1>8. /\ Function(e.person) /\ DOMAIN e.person = DOMAIN d.person
      /\ \A q \in DOMAIN d.person \ {p, t} : e.person[q] = d.person[q]
      /\ e.person[t] = [d.person[t] EXCEPT !.aliases = d.person[t].aliases \cup d.person[p].aliases]
      /\ e.person[p] = [d.person[p] EXCEPT !.aliases = {}, !.active = FALSE]
  BY <1>2, <1>7 DEF Function
<1>9. /\ Function(e.claim)
      /\ DOMAIN e.claim = DOMAIN d.claim \cup New(r, cs)
      /\ \A c \in DOMAIN d.claim : c \notin New(r, cs) =>
           e.claim[c] = IF c \in cs THEN [d.claim[c] EXCEPT !.live = FALSE] ELSE d.claim[c]
      /\ \A c \in New(r, cs) : e.claim[c] = copies[c]
  BY <1>3, <1>5, <1>7 DEF PutAll, Function
<1>10. \A c \in cs : e.claim[<<r, c>>] = [d.claim[c] EXCEPT !.subject = t]
  BY <1>3, <1>9 DEF New
<1> QED
  BY <1>7, <1>8, <1>9, <1>10 DEF Merged, cs, moved

\* What a merge into t makes of a claim k: it ends when it was of p, and a copy
\* is made of it.
Retired(k, h, p) ==
  /\ h = [k EXCEPT !.live = (k.live /\ k.subject # p)]
  /\ h.live <=> k.live /\ k.subject # p
  /\ h.status = k.status /\ h.kind = k.kind /\ h.origin = k.origin
  /\ h.subject = k.subject /\ h.row = k.row

CopyOf(k, h, t) ==
  /\ h = [k EXCEPT !.subject = t]
  /\ h.live = k.live /\ h.status = k.status /\ h.kind = k.kind
  /\ h.origin = k.origin /\ h.subject = t /\ h.row = k.row

LEMMA MergedClaims ==
  ASSUME NEW d, Typed(d), Grounded(d), NEW p \in DOMAIN d.person, NEW t \in DOMAIN d.person \ {p},
         NEW r, Fresh(d, r), NEW e, Merged(d, e, p, t, r)
  PROVE  /\ \A c \in DOMAIN d.claim : Retired(d.claim[c], e.claim[c], p)
         /\ \A i \in DOMAIN e.claim \ DOMAIN d.claim :
              \E c \in ClaimsOf(d, p) : i = <<r, c>> /\ CopyOf(d.claim[c], e.claim[i], t)
         /\ \A i \in DOMAIN e.claim : e.claim[i] \in Claims(DOMAIN d.person, DOMAIN d.claim)
<1>1. \A c \in New(r, ClaimsOf(d, p)) : c \notin DOMAIN d.claim
  BY DEF New, Fresh, Ids
<1>2. ASSUME NEW c \in DOMAIN d.claim
      PROVE  /\ d.claim[c] \in Claims(DOMAIN d.person, DOMAIN d.claim)
             /\ DOMAIN d.claim[c] = ClaimFields
  BY ClaimsTyped, TypedClaims
<1>3. ASSUME NEW c \in DOMAIN d.claim
      PROVE  /\ Retired(d.claim[c], e.claim[c], p)
             /\ e.claim[c] \in Claims(DOMAIN d.person, DOMAIN d.claim)
  <2> DEFINE k == d.claim[c]
             h == [k EXCEPT !.live = FALSE]
  <2>1. e.claim[c] = IF c \in ClaimsOf(d, p) THEN h ELSE k
    BY <1>1 DEF Merged
  <2>2. c \in ClaimsOf(d, p) <=> k.live /\ k.subject = p
    BY DEF ClaimsOf, Live
  <2>3. k \in Claims(DOMAIN d.person, DOMAIN d.claim) /\ DOMAIN k = ClaimFields
    BY <1>2
  <2> HIDE DEF k
  <2>4. /\ h.live = FALSE /\ h.status = k.status /\ h.kind = k.kind /\ h.origin = k.origin
        /\ h.subject = k.subject /\ h.row = k.row
        /\ h \in Claims(DOMAIN d.person, DOMAIN d.claim)
    BY <2>3 DEF Claims, ClaimFields
  <2>5. k = [k EXCEPT !.live = k.live] /\ k.live \in BOOLEAN
    BY <2>3 DEF Claims
  <2>6. CASE k.live /\ k.subject = p
    BY <2>1, <2>2, <2>4, <2>6 DEF k, Retired
  <2>7. CASE ~ (k.live /\ k.subject = p)
    <3>1. e.claim[c] = k /\ k.live = (k.live /\ k.subject # p)
      BY <2>1, <2>2, <2>5, <2>7
    <3> QED
      BY <2>3, <2>5, <3>1 DEF k, Retired
  <2> QED
    BY <2>6, <2>7
<1>4. ASSUME NEW i \in DOMAIN e.claim \ DOMAIN d.claim
      PROVE   /\ e.claim[i] \in Claims(DOMAIN d.person, DOMAIN d.claim)
              /\ \E c \in ClaimsOf(d, p) : i = <<r, c>> /\ CopyOf(d.claim[c], e.claim[i], t)
  <2>1. PICK c \in ClaimsOf(d, p) : i = <<r, c>>
    BY DEF Merged, New
  <2> DEFINE k == d.claim[c]
             h == [k EXCEPT !.subject = t]
  <2>2. e.claim[i] = h /\ c \in DOMAIN d.claim
    BY <2>1 DEF Merged, ClaimsOf, Live
  <2>3. k \in Claims(DOMAIN d.person, DOMAIN d.claim) /\ DOMAIN k = ClaimFields
    BY <1>2, <2>2
  <2> HIDE DEF k
  <2>4. /\ h.live = k.live /\ h.status = k.status /\ h.kind = k.kind /\ h.origin = k.origin
        /\ h.subject = t /\ h.row = k.row
        /\ h \in Claims(DOMAIN d.person, DOMAIN d.claim)
    BY <2>3 DEF Claims, ClaimFields
  <2> QED
    BY <2>1, <2>2, <2>4 DEF k, CopyOf
<1> QED
  BY <1>3, <1>4

LEMMA MergeKeeps ==
  ASSUME NEW d, Consistent(d), NEW r \in Requests, Fresh(d, r), NEW p, NEW t, MayMerge(d, p, t),
         NEW e, e = Merge(d, d, p, t, r)
  PROVE  Consistent(e) /\ NamedAfter(d, e, r)
<1>1. Typed(d) /\ Grounded(d) /\ NamesDistinct(d) /\ OneOwnerPerRow(d) /\ Backed(d) /\ SourcesStand(d)
  BY DEF Consistent
<1>2. p \in DOMAIN d.person /\ t \in DOMAIN d.person \ {p} /\ t \in Resolved(d)
  BY DEF MayMerge, Active, Resolved
<1>3. Merged(d, e, p, t, r)
  BY <1>1, <1>2, MergeWrites
<1>4. /\ \A c \in DOMAIN d.claim : Retired(d.claim[c], e.claim[c], p)
      /\ \A i \in DOMAIN e.claim \ DOMAIN d.claim :
           \E c \in ClaimsOf(d, p) : i = <<r, c>> /\ CopyOf(d.claim[c], e.claim[i], t)
      /\ \A i \in DOMAIN e.claim : e.claim[i] \in Claims(DOMAIN d.person, DOMAIN d.claim)
  BY <1>1, <1>2, <1>3, MergedClaims
<1>5. /\ DOMAIN e = Tables /\ Function(e.claim)
      /\ DOMAIN d.claim \subseteq DOMAIN e.claim
      /\ DOMAIN e.person = DOMAIN d.person /\ Function(e.person)
      /\ e.review = d.review
      /\ e.link = Without(d, p) \cup Moved(d, p, t, r)
  BY <1>3 DEF Merged
<1>6. /\ e.person \in [DOMAIN e.person -> People]
      /\ \A q \in DOMAIN d.person : q # p => /\ e.person[q].active = d.person[q].active
                                             /\ e.person[q].status = d.person[q].status
                                             /\ e.person[q].name = d.person[q].name
      /\ ~ e.person[p].active
  <2> DEFINE h == d.person[t]
             g == d.person[p]
             h1 == [h EXCEPT !.aliases = h.aliases \cup g.aliases]
             g1 == [g EXCEPT !.aliases = {}, !.active = FALSE]
  <2>1. d.person \in [DOMAIN d.person -> People] /\ h \in People /\ g \in People
    BY <1>1, <1>2, TypedPeople
  <2>2. e.person[t] = h1 /\ e.person[p] = g1 /\ \A q \in DOMAIN d.person \ {p, t} : e.person[q] = d.person[q]
    BY <1>3 DEF Merged
  <2>3. /\ h1 \in People /\ g1 \in People /\ ~ g1.active
        /\ h1.active = h.active /\ h1.status = h.status /\ h1.name = h.name
    <3> HIDE DEF h, g
    <3> QED BY <2>1 DEF People
  <2>4. \A q \in DOMAIN e.person : e.person[q] \in People
    <3> HIDE DEF h1, g1
    <3> QED BY <1>5, <2>1, <2>2, <2>3
  <2>5. e.person \in [DOMAIN e.person -> People]
    BY <1>5, <2>4 DEF Function
  <2> HIDE DEF h1, g1
  <2> QED
    BY <1>2, <2>2, <2>3, <2>5
<1>7. /\ \A l \in Without(d, p) : \E m \in d.link :
              /\ DOMAIN l = DOMAIN m
              /\ l.id = m.id /\ l.person = m.person /\ l.row = m.row /\ l.how = m.how
              /\ l.live \in BOOLEAN
              /\ l.live => l = m /\ m.person # p
      /\ \A m \in d.link : m.person # p => m \in Without(d, p)
      /\ {l.id : l \in Without(d, p)} = {l.id : l \in d.link}
      /\ \A l, m \in Without(d, p) : l.id = m.id => l = m
  BY <1>1, WithoutLinks
<1>8. \A l \in Moved(d, p, t, r) :
        /\ DOMAIN l = {"id", "person", "row", "how", "live"}
        /\ l.person = t /\ l.how = "REVIEWED" /\ l.live = TRUE /\ l.id[1] = r
        /\ l = Link(<<r, l.id[2]>>, t, l.row, "REVIEWED")
        /\ \E m \in d.link : m.live /\ m.person = p /\ m.row = l.row /\ m.id = l.id[2]
  BY DEF Moved, Link, LinksOf
<1>9. \A m \in d.link : /\ DOMAIN m = {"id", "person", "row", "how", "live"}
                        /\ m.person \in DOMAIN d.person /\ m.row \in Rows
                        /\ m.how \in {"CONTEXT", "REVIEWED"} /\ m.id \in Ids(d)
  BY <1>1 DEF Typed, Ids
<1>10. Typed(e)
  <2>1. e.claim \in [DOMAIN e.claim -> Claims(DOMAIN e.person, DOMAIN e.claim)]
    <3>1. \A i \in DOMAIN e.claim : e.claim[i] \in Claims(DOMAIN e.person, DOMAIN e.claim)
      BY <1>4, <1>5 DEF Claims
    <3> QED
      BY <1>5, <3>1 DEF Function
  <2>2. \A l \in e.link : /\ DOMAIN l = {"id", "person", "row", "how", "live"}
                       /\ l.person \in DOMAIN e.person /\ l.row \in Rows
                       /\ l.how \in {"CONTEXT", "REVIEWED"} /\ l.live \in BOOLEAN
    <3>1. \A l \in Without(d, p) : /\ DOMAIN l = {"id", "person", "row", "how", "live"}
                       /\ l.person \in DOMAIN e.person /\ l.row \in Rows
                       /\ l.how \in {"CONTEXT", "REVIEWED"} /\ l.live \in BOOLEAN
      BY <1>5, <1>7, <1>9
    <3>2. \A l \in Moved(d, p, t, r) : /\ DOMAIN l = {"id", "person", "row", "how", "live"}
                       /\ l.person \in DOMAIN e.person /\ l.row \in Rows
                       /\ l.how \in {"CONTEXT", "REVIEWED"} /\ l.live \in BOOLEAN
      BY <1>2, <1>5, <1>8, <1>9
    <3> QED
      BY <1>5, <3>1, <3>2
  <2>3. e.review \in [Rows -> States]
    BY <1>1, <1>5 DEF Typed, States
  <2> QED
    BY <1>5, <1>6, <2>1, <2>2, <2>3 DEF Typed, Claims, People, Tables, States
<1>11. NamedAfter(d, e, r)
  <2>1. \A l \in e.link : l.id \in Ids(d) \/ l.id[1] = r
    <3>1. \A l \in Without(d, p) : l.id \in Ids(d)
      BY <1>7, <1>9
    <3> QED
      BY <1>5, <1>8, <3>1
  <2>2. \A i \in DOMAIN e.claim : i \in Ids(d) \/ i[1] = r
    BY <1>4 DEF Ids
  <2> QED
    BY <1>5, <2>1, <2>2 DEF NamedAfter, Ids
<1>12. \A l, m \in e.link : l.id = m.id => l = m
  <2>1. \A l \in Without(d, p) : l.id \in Ids(d)
    BY <1>7, <1>9
  <2>2. \A l \in Moved(d, p, t, r) : l.id \notin Ids(d)
    BY <1>8 DEF Fresh
  <2>3. \A l, m \in Moved(d, p, t, r) : l.id = m.id => l = m
    <3> SUFFICES ASSUME NEW l \in Moved(d, p, t, r), NEW m \in Moved(d, p, t, r), l.id = m.id PROVE l = m
      OBVIOUS
    <3>1. PICK i \in d.link : i.row = l.row /\ i.id = l.id[2]
      BY <1>8
    <3>2. PICK j \in d.link : j.row = m.row /\ j.id = m.id[2]
      BY <1>8
    <3>3. i = j
      BY <1>1, <3>1, <3>2 DEF Grounded
    <3>4. l = Link(<<r, l.id[2]>>, t, l.row, "REVIEWED") /\ m = Link(<<r, m.id[2]>>, t, m.row, "REVIEWED")
      BY <1>8
    <3> QED
      BY <3>1, <3>2, <3>3, <3>4
  <2> QED
    BY <1>5, <1>7, <2>1, <2>2, <2>3
<1>13. Grounded(e)
  <2>1. BatchWhole(e)
    BY <1>1, <1>5, <1>11, BatchStays, IdsAssumption
  <2>2. ASSUME NEW i \in DOMAIN e.claim
        PROVE LET k == e.claim[i] IN
       /\ k.kind = "LIST" => k.subject = Org /\ k.row \notin NecRows
       /\ k.kind \in {"LINKED", "CORRECTION"} => k.origin \in DOMAIN d.claim
       /\ k.kind = "LINKED" => d.claim[k.origin].kind = "LIST" /\ d.claim[k.origin].row \in WitnessRows
    <3>1. CASE i \in DOMAIN d.claim
      <4>1. Retired(d.claim[i], e.claim[i], p)
        BY <1>4, <3>1
      <4>2. LET k == d.claim[i] IN
       /\ k.kind = "LIST" => k.subject = Org /\ k.row \notin NecRows
       /\ k.kind \in {"LINKED", "CORRECTION"} => k.origin \in DOMAIN d.claim
       /\ k.kind = "LINKED" => d.claim[k.origin].kind = "LIST" /\ d.claim[k.origin].row \in WitnessRows
        BY <1>1, <3>1 DEF Grounded
      <4> QED
        BY <4>1, <4>2 DEF Retired
    <3>2. CASE i \notin DOMAIN d.claim
      <4>1. PICK c \in ClaimsOf(d, p) : CopyOf(d.claim[c], e.claim[i], t)
        BY <1>4, <3>2
      <4>2. c \in DOMAIN d.claim /\ d.claim[c].subject = p /\ p # Org
        BY <1>1, <1>2 DEF ClaimsOf, Live, Grounded
      <4>3. d.claim[c].kind # "LIST"
        BY <1>1, <4>2 DEF Grounded
      <4> QED
        BY <1>1, <4>1, <4>2, <4>3 DEF Grounded, CopyOf
    <3> QED
      BY <3>1, <3>2
  <2>3. \A o \in DOMAIN d.claim : o \in DOMAIN e.claim /\ e.claim[o].kind = d.claim[o].kind
                                  /\ e.claim[o].row = d.claim[o].row
    BY <1>4, <1>5 DEF Retired
  <2>4. Org \notin DOMAIN e.person
    BY <1>1, <1>5 DEF Grounded
  <2> QED
    BY <1>12, <2>1, <2>2, <2>3, <2>4 DEF Grounded, BatchWhole
<1>14. OneOwnerPerRow(e)
  <2>1. \A l \in Without(d, p) : l.live => l \in d.link /\ l.person # p
    BY <1>7
  <2>2. \A l, m \in d.link : l.live /\ m.live /\ l.row = m.row => l = m
    BY <1>1 DEF OneOwnerPerRow
  <2>3. ASSUME NEW l \in Moved(d, p, t, r), NEW m \in Without(d, p), m.live PROVE m.row # l.row
    <3>1. PICK i \in d.link : i.live /\ i.row = l.row /\ i.person = p
      BY <1>8
    <3>2. m \in d.link /\ m.person # p
      BY <2>1, <2>3
    <3> QED
      BY <2>2, <2>3, <3>1, <3>2
  <2>4. \A l, m \in Moved(d, p, t, r) : l.row = m.row => l = m
    <3> SUFFICES ASSUME NEW l \in Moved(d, p, t, r), NEW m \in Moved(d, p, t, r), l.row = m.row PROVE l = m
      OBVIOUS
    <3>1. PICK i \in d.link : i.live /\ i.row = l.row /\ i.id = l.id[2]
      BY <1>8
    <3>2. PICK j \in d.link : j.live /\ j.row = m.row /\ j.id = m.id[2]
      BY <1>8
    <3>3. l.id[2] = m.id[2]
      BY <2>2, <3>1, <3>2
    <3>4. l = Link(<<r, l.id[2]>>, t, l.row, "REVIEWED") /\ m = Link(<<r, m.id[2]>>, t, m.row, "REVIEWED")
      BY <1>8
    <3> QED
      BY <3>3, <3>4
  <2> QED
    BY <1>5, <2>1, <2>2, <2>3, <2>4 DEF OneOwnerPerRow
<1>15. \A q : q \in Active(e) => q \in Active(d) /\ q # p
  BY <1>2, <1>5, <1>6 DEF Active
<1>16. NamesDistinct(e)
  BY <1>1, <1>6, <1>15 DEF NamesDistinct, Active
<1>17. \A i \in Public(e) : \E c \in Public(d) : LET k == d.claim[c] IN
         /\ e.claim[i].kind = k.kind /\ e.claim[i].origin = k.origin /\ e.claim[i].row = k.row
         /\ \/ k.subject # p /\ e.claim[i].subject = k.subject
            \/ k.subject = p /\ e.claim[i].subject = t
  <2> SUFFICES ASSUME NEW i \in Public(e)
               PROVE  \E c \in Public(d) : LET k == d.claim[c] IN
         /\ e.claim[i].kind = k.kind /\ e.claim[i].origin = k.origin /\ e.claim[i].row = k.row
         /\ \/ k.subject # p /\ e.claim[i].subject = k.subject
            \/ k.subject = p /\ e.claim[i].subject = t
    OBVIOUS
  <2>1. i \in DOMAIN e.claim /\ e.claim[i].live /\ e.claim[i].status = "PUBLISHED"
    BY DEF Public, Live
  <2>2. CASE i \in DOMAIN d.claim
    BY <1>4, <2>1, <2>2 DEF Public, Live, Retired
  <2>3. CASE i \notin DOMAIN d.claim
    <3>1. PICK c \in ClaimsOf(d, p) : CopyOf(d.claim[c], e.claim[i], t)
      BY <1>4, <2>1, <2>3
    <3>2. c \in Public(d) /\ d.claim[c].subject = p
      BY <2>1, <3>1 DEF ClaimsOf, Public, CopyOf
    <3> QED
      BY <3>1, <3>2 DEF CopyOf
  <2> QED
    BY <2>2, <2>3
<1>18. Backed(e)
  <2> SUFFICES ASSUME NEW i \in Public(e), e.claim[i].subject # Org
               PROVE  /\ e.claim[i].subject \in Resolved(e)
                      /\ e.claim[i].kind \in {"ROLE", "LINKED"} => Linked(e, e.claim[i].subject, e.claim[i].row)
    BY DEF Backed
  <2>1. PICK c \in Public(d) : LET k == d.claim[c] IN
         /\ e.claim[i].kind = k.kind /\ e.claim[i].row = k.row
         /\ \/ k.subject # p /\ e.claim[i].subject = k.subject
            \/ k.subject = p /\ e.claim[i].subject = t
    BY <1>17
  <2>2. \A q \in Resolved(d) : q # p => q \in Resolved(e)
    BY <1>5, <1>6 DEF Resolved, Active
  <2>3. \A q, row : q # p /\ Linked(d, q, row) => Linked(e, q, row)
    BY <1>5, <1>7 DEF Linked, LinksOn
  <2>4. \A row : Linked(d, p, row) => Linked(e, t, row)
    <3> SUFFICES ASSUME NEW row, Linked(d, p, row), ~ Linked(d, t, row) PROVE Linked(e, t, row)
      BY <1>2, <2>3
    <3>1. PICK m \in LinksOf(d, p) : m.row = row
      BY DEF Linked, LinksOn, LinksOf
    <3>2. Link(<<r, m.id>>, t, m.row, "REVIEWED") \in e.link
      BY <1>5, <3>1 DEF Moved
    <3>3. LET l == Link(<<r, m.id>>, t, m.row, "REVIEWED") IN l.live /\ l.row = row /\ l.person = t
      BY <3>1 DEF Link
    <3> QED
      BY <3>2, <3>3 DEF Linked, LinksOn
  <2>5. p # Org
    BY <1>1, <1>2 DEF Grounded
  <2>6. CASE d.claim[c].subject # p
    BY <1>1, <2>1, <2>2, <2>3, <2>6 DEF Backed
  <2>7. CASE d.claim[c].subject = p
    BY <1>1, <1>2, <2>1, <2>2, <2>4, <2>5, <2>7 DEF Backed
  <2> QED
    BY <2>6, <2>7
<1>19. SourcesStand(e)
  <2> SUFFICES ASSUME NEW i \in Public(e), e.claim[i].kind = "LINKED", e.claim[e.claim[i].origin].live
               PROVE  e.claim[i].origin \in Public(e)
    BY DEF SourcesStand
  <2>1. PICK c \in Public(d) : d.claim[c].kind = "LINKED" /\ e.claim[i].origin = d.claim[c].origin
    BY <1>17
  <2> DEFINE o == d.claim[c].origin
  <2>2. o \in DOMAIN d.claim
    BY <1>1, <2>1 DEF Grounded, Public, Live
  <2>3. e.claim[o].live <=> d.claim[o].live /\ d.claim[o].subject # p
    BY <1>4, <2>2 DEF Retired
  <2>4. o \in Public(d)
    BY <1>1, <2>1, <2>2, <2>3 DEF SourcesStand
  <2> HIDE DEF o
  <2>5. e.claim[i].origin = o
    BY <2>1 DEF o
  <2> QED
    BY <1>4, <1>5, <2>2, <2>3, <2>4, <2>5 DEF Public, Live, Retired
<1> QED
  BY <1>10, <1>11, <1>13, <1>14, <1>16, <1>18, <1>19 DEF Consistent

(* A permitted command leaves a consistent database, and names what it     *)
(* makes after its request.                                                *)
LEMMA PlanKeeps ==
  ASSUME NEW d, Consistent(d), NEW r \in Requests, Fresh(d, r), NEW cmd, Shape(cmd), Permitted(d, cmd)
  PROVE  Consistent(Planned(d, r, cmd)) /\ NamedAfter(d, Planned(d, r, cmd), r)
<1> DEFINE e == Planned(d, r, cmd)
           x == cmd.targets[1]
<1>1. r # Batch
  BY IdsAssumption
<1>2. ASSUME Consistent(e), Ids(e) = Ids(d) PROVE Consistent(e) /\ NamedAfter(d, e, r)
  BY <1>2 DEF NamedAfter
<1>3. CASE cmd.action \in Reviewing
  BY <1>2, <1>3, ReviewKeeps
<1>4. CASE cmd.action = "REGISTER_PERSON"
  BY <1>4, RegisterKeeps
<1>5. CASE cmd.action = "SUBMIT_REVIEW"
  BY <1>2, <1>5, SubmitKeeps
<1>6. CASE cmd.action = "PUBLISH"
  BY <1>2, <1>6, PublishKeeps
<1>7. CASE cmd.action = "WITHDRAW"
  BY <1>2, <1>7, WithdrawKeeps
<1>8. ASSUME cmd.action \notin Batched PROVE e = Effect(d, d, x, r, cmd) /\ Accepts(d, cmd, x)
  BY <1>8, SingleTarget
<1> HIDE DEF e
<1>9. CASE cmd.action = "LINK_PERSON"
  <2>1. e = LinkPerson(d, d, x, cmd.person, r) /\ MayLink(d, x, cmd.person, cmd.bridge)
    BY <1>8, <1>9 DEF Batched, Effect, Accepts, Reviewing
  <2> QED
    BY <1>1, <2>1, LinkKeeps DEF e
<1>10. CASE cmd.action = "CORRECT_CLAIM"
  <2>1. e = Correct(d, d, x, r) /\ x \in Live(d)
    BY <1>8, <1>10 DEF Batched, Effect, Accepts, Reviewing, MayCorrect
  <2> QED
    BY <1>1, <2>1, CorrectKeeps DEF e
<1>11. CASE cmd.action = "RESOLVE_PERSON"
  <2>1. e = [d EXCEPT !.person[x].status = "RESOLVED"] /\ x \in Active(d)
    BY <1>8, <1>11 DEF Batched, Effect, Accepts, Reviewing, MayResolve
  <2> QED
    BY <1>2, <2>1, ResolveKeeps DEF e
<1>12. CASE cmd.action = "RENAME_PERSON"
  <2>1. e = Rename(d, d, x, cmd.name) /\ MayRename(d, x, cmd.name)
    BY <1>8, <1>12 DEF Batched, Effect, Accepts, Reviewing
  <2>2. cmd.name \in Names
    BY <1>12 DEF Shape
  <2> QED
    BY <1>2, <2>1, <2>2, RenameKeeps DEF e
<1>13. CASE cmd.action = "DEACTIVATE_PERSON"
  <2>1. e = Deactivate(d, d, x) /\ x \in Active(d)
    BY <1>8, <1>13 DEF Batched, Effect, Accepts, Reviewing
  <2> QED
    BY <1>2, <2>1, DeactivateKeeps DEF e
<1>14. CASE cmd.action = "MERGE_PERSON"
  <2>1. e = Merge(d, d, x, cmd.person, r) /\ MayMerge(d, x, cmd.person)
    BY <1>8, <1>14 DEF Batched, Effect, Accepts, Reviewing
  <2> QED
    BY <2>1, MergeKeeps DEF e
<1> QED
  BY <1>3, <1>4, <1>5, <1>6, <1>7, <1>9, <1>10, <1>11, <1>12, <1>13, <1>14
  DEF Shape, Actions, Batched, Reviewing

-----------------------------------------------------------------------------
(* The invariant                                                           *)

\* Every preview is of a command the desk could put together, under a request of its own.
Desks ==
  /\ DOMAIN desk = Actors
  /\ \A a \in Actors : desk[a] # None =>
       /\ desk[a].request \in Requests /\ Shape(desk[a].cmd)
       /\ desk[a].cmd.action \in office.actions

\* The rooms the office leaves.
Bounds ==
  /\ office.actions \subseteq Actions \cup {"MATERIALIZE"}
  /\ office.requests \in 0 .. Cardinality(Requests) /\ office.batch \in Nat

\* What no one has committed has made nothing.
Unmade == \A r \in Requests \ DOMAIN receipt : Fresh(db, r)

Safe ==
  /\ Bounds /\ Desks /\ Unmade /\ Consistent(db)
  /\ DOMAIN receipt \subseteq Requests /\ \A r \in DOMAIN receipt : receipt[r].actor \in Actors

LEMMA NextIsNew ==
  ASSUME Bounds, Cardinality(Requested) < office.requests
  PROVE  NextRequest \in Requests /\ NextRequest \notin Requested
<1>1. Requested \subseteq Requests
  BY DEF Requested
<1>2. Requested # Requests
  <2>1. Cardinality(Requests) \in Nat
    BY FS_CardinalityType, IdsAssumption
  <2> QED
    BY <2>1 DEF Bounds
<1>3. \E r \in Requests : r \notin Requested
  BY <1>1, <1>2
<1> QED
  BY <1>3 DEF NextRequest

LEMMA CommandsShaped ==
  ASSUME NEW d, NEW act \in Actions, NEW n \in Nat, NEW cmd \in Commands(d, act, n)
  PROVE  Shape(cmd) /\ cmd.action = act /\ (n = 1 => Len(cmd.targets) = 1)
<1> DEFINE m == IF act \in Batched THEN n ELSE 1
<1>1. /\ cmd.action = act
      /\ cmd.targets \in Selections(act, Selectable(d, act), n)
      /\ act = "RENAME_PERSON" => cmd.name \in Names
  BY DEF Commands
<1>2. PICK k \in 1 .. m : cmd.targets \in [1 .. k -> Selectable(d, act)] /\ IsInjective(cmd.targets)
  BY <1>1 DEF Selections
<1>3. k \in Nat \ {0} /\ DOMAIN cmd.targets = 1 .. k /\ Len(cmd.targets) = k
  <2>1. m \in Nat
    OBVIOUS
  <2>2. k \in Nat \ {0} /\ cmd.targets \in Seq(Selectable(d, act))
    BY <1>2, <2>1
  <2> HIDE DEF m
  <2> QED
    BY <1>2, <2>2
<1> QED
  BY <1>1, <1>2, <1>3 DEF Shape

LEMMA SafeInit ==
  ASSUME Init
  PROVE  Safe
<1>1. PICK o \in Offices :
        /\ db = o.db
        /\ office = [actors |-> o.actors, requests |-> o.requests, actions |-> o.actions,
                     batch |-> o.batch]
  BY DEF Init
<1>2. Bounds /\ Consistent(db)
  BY <1>1, OfficesAssumption DEF Bounds
<1>3. Desks
  BY DEF Init, Desks
<1>4. DOMAIN receipt = {}
  BY DEF Init
<1>5. Unmade
  BY <1>1, OfficesAssumption DEF Unmade, Fresh
<1> QED
  BY <1>2, <1>3, <1>4, <1>5 DEF Safe

LEMMA SafePreview ==
  ASSUME Safe, NEW a \in Actors, Preview(a)
  PROVE  Safe'
<1>1. PICK act \in office.actions \ {"MATERIALIZE"} :
        \E cmd \in Commands(db, act, office.batch) :
          desk' = [desk EXCEPT ![a] = [request |-> NextRequest, cmd |-> cmd, reads |-> Reads(db, cmd),
                                       shown |-> Changes(db, Planned(db, NextRequest, cmd))]]
  BY DEF Preview
<1>2. PICK cmd \in Commands(db, act, office.batch) :
          desk' = [desk EXCEPT ![a] = [request |-> NextRequest, cmd |-> cmd, reads |-> Reads(db, cmd),
                                       shown |-> Changes(db, Planned(db, NextRequest, cmd))]]
  BY <1>1
<1>3. UNCHANGED <<office, db, receipt>> /\ Cardinality(Requested) < office.requests
  BY DEF Preview
<1>4. NextRequest \in Requests
  BY <1>3, NextIsNew DEF Safe
<1>5. act \in Actions /\ office.batch \in Nat
  BY DEF Safe, Bounds
<1>6. Shape(cmd) /\ cmd.action = act /\ (office.batch = 1 => Len(cmd.targets) = 1)
  BY <1>2, <1>5, CommandsShaped
<1>7. Desks'
  BY <1>2, <1>3, <1>4, <1>6 DEF Safe, Desks
<1> QED
  BY <1>3, <1>7 DEF Safe, Bounds, Unmade

LEMMA SafeClose ==
  ASSUME Safe, NEW a \in Actors, Close(a)
  PROVE  Safe'
<1>1. UNCHANGED <<office, db, receipt>> /\ desk' = [desk EXCEPT ![a] = None]
  BY DEF Close
<1>2. Desks'
  BY <1>1 DEF Safe, Desks
<1> QED
  BY <1>1, <1>2 DEF Safe, Bounds, Unmade

LEMMA SafeCommit ==
  ASSUME Safe, NEW a \in Actors, Commit(a)
  PROVE  Safe'
<1> DEFINE r == desk[a].request
           cmd == desk[a].cmd
<1>1. /\ r \in Requests \ DOMAIN receipt /\ Shape(cmd) /\ Permitted(db, cmd)
      /\ db' = Planned(db, r, cmd)
      /\ receipt' = Put(receipt, r, [actor |-> a, cmd |-> cmd])
      /\ office' = office
      /\ desk' = [desk EXCEPT ![a] = None] \/ desk' = desk
  BY DEF Safe, Desks, Commit, Current
<1> HIDE DEF r, cmd
<1>2. Consistent(db') /\ NamedAfter(db, db', r)
  BY <1>1, PlanKeeps DEF Safe, Unmade
<1>3. /\ DOMAIN receipt' = DOMAIN receipt \cup {r}
      /\ \A q \in DOMAIN receipt : receipt'[q] = receipt[q]
      /\ receipt'[r].actor = a
  BY <1>1 DEF Put
<1>4. Unmade'
  BY <1>2, <1>3 DEF Safe, Unmade, Fresh, NamedAfter
<1>5. Desks'
  BY <1>1 DEF Safe, Desks
<1>6. DOMAIN receipt' \subseteq Requests /\ \A q \in DOMAIN receipt' : receipt'[q].actor \in Actors
  BY <1>1, <1>3 DEF Safe
<1> QED
  BY <1>1, <1>2, <1>4, <1>5, <1>6 DEF Safe, Bounds

LEMMA SafeMaterialize ==
  ASSUME Safe, Materialize
  PROVE  Safe'
<1>1. UNCHANGED <<office, receipt, desk>> /\ Materialized(db, db', Creatable(db))
  BY DEF Materialize, Materialized
<1>2. Consistent(db') /\ NamedAfter(db, db', Batch)
  BY <1>1, MaterializeKeeps DEF Safe
<1>3. Unmade'
  BY <1>1, <1>2, IdsAssumption DEF Safe, Unmade, Fresh, NamedAfter
<1> QED
  BY <1>1, <1>2, <1>3 DEF Safe, Bounds, Desks

LEMMA SafeNext ==
  ASSUME Safe, [Next]_vars
  PROVE  Safe'
<1>1. ASSUME NEW a \in Actors, Preview(a) PROVE Safe'
  BY <1>1, SafePreview
<1>2. ASSUME NEW a \in Actors, Close(a) PROVE Safe'
  BY <1>2, SafeClose
<1>3. ASSUME NEW a \in Actors, Commit(a) PROVE Safe'
  BY <1>3, SafeCommit
<1>4. ASSUME NEW a \in Actors, Replay(a) PROVE Safe'
  BY <1>4, SafeClose DEF Replay
<1>5. CASE Materialize
  BY <1>5, SafeMaterialize
<1>6. CASE UNCHANGED vars
  BY <1>6 DEF vars, Safe, Bounds, Desks, Unmade
<1> QED
  BY <1>1, <1>2, <1>3, <1>4, <1>5, <1>6 DEF Next

LEMMA SafeAlways == Spec => []Safe
<1>1. Init => Safe
  BY SafeInit
<1>2. Safe /\ [Next]_vars => Safe'
  BY SafeNext
<1> QED
  BY <1>1, <1>2, PTL DEF Spec

(* Every table refers to rows that exist, and every receipt and preview is *)
(* of a known operator.                                                    *)
THEOREM WorkflowTypes == Spec => []TypeOK
<1>1. Safe => TypeOK
  BY DEF Safe, Desks, TypeOK, Consistent
<1> QED
  BY <1>1, SafeAlways, PTL

(* Whoever links, merges, registers, renames or imports people: a source   *)
(* row and a name lead to one current person.                              *)
THEOREM IdentitiesAreDistinct == Spec => []IdentitiesDistinct
<1>1. Safe => IdentitiesDistinct
  BY DEF Safe, IdentitiesDistinct, Consistent
<1> QED
  BY <1>1, SafeAlways, PTL

(* What is public of a person stays backed by a confirmed person and, when *)
(* it was drawn from a source row, by the link of that row.                *)
THEOREM PublishedAreBacked == Spec => []PublishedIsBacked
<1>1. Safe => PublishedIsBacked
  BY DEF Safe, PublishedIsBacked, Consistent
<1> QED
  BY <1>1, SafeAlways, PTL

(* No witness claim of a person is public beside a current list claim that *)
(* has been withdrawn.                                                     *)
THEOREM SourcesAreNotWithdrawn == Spec => []SourceNotWithdrawn
<1>1. Safe => SourceNotWithdrawn
  BY DEF Safe, SourceNotWithdrawn, Consistent
<1> QED
  BY <1>1, SafeAlways, PTL

-----------------------------------------------------------------------------
(* What a merge moves                                                      *)

LEMMA MergeMoves ==
  ASSUME NEW d, Consistent(d), NEW r, Fresh(d, r), NEW p, NEW t, MayMerge(d, p, t),
         NEW e, e = Merge(d, d, p, t, r)
  PROVE  /\ \A c \in Public(d) \cap ClaimsOf(d, p) :
              \E k \in Public(e) : e.claim[k] = [d.claim[c] EXCEPT !.subject = t]
         /\ ClaimsOf(e, p) = {} /\ LinksOf(e, p) = {}
<1>1. Typed(d) /\ Grounded(d)
  BY DEF Consistent
<1>2. p \in DOMAIN d.person /\ t \in DOMAIN d.person \ {p}
  BY DEF MayMerge, Active, Resolved
<1>3. Merged(d, e, p, t, r)
  BY <1>1, <1>2, MergeWrites
<1>4. /\ \A c \in DOMAIN d.claim : Retired(d.claim[c], e.claim[c], p)
      /\ \A i \in DOMAIN e.claim \ DOMAIN d.claim :
           \E c \in ClaimsOf(d, p) : i = <<r, c>> /\ CopyOf(d.claim[c], e.claim[i], t)
  BY <1>1, <1>2, <1>3, MergedClaims
<1>5. ASSUME NEW c \in Public(d) \cap ClaimsOf(d, p), NEW k, k = <<r, c>>
      PROVE  k \in Public(e) /\ e.claim[k] = [d.claim[c] EXCEPT !.subject = t]
  <2>1. k \in DOMAIN e.claim \ DOMAIN d.claim
    BY <1>3, <1>5 DEF Merged, New, Fresh, Ids
  <2>2. PICK b \in ClaimsOf(d, p) : k = <<r, b>> /\ CopyOf(d.claim[b], e.claim[k], t)
    BY <1>4, <2>1
  <2>3. b = c
    BY <1>5, <2>2
  <2> QED
    BY <2>1, <2>2, <2>3 DEF CopyOf, Public, Live
<1>6. ClaimsOf(e, p) = {}
  <2>1. ASSUME NEW k \in DOMAIN e.claim, e.claim[k].live PROVE e.claim[k].subject # p
    <3>1. CASE k \in DOMAIN d.claim
      <4>1. Retired(d.claim[k], e.claim[k], p)
        BY <1>4, <3>1
      <4> QED
        BY <2>1, <4>1 DEF Retired
    <3>2. CASE k \notin DOMAIN d.claim
      BY <1>2, <1>4, <3>2 DEF CopyOf
    <3> QED
      BY <3>1, <3>2
  <2> QED
    BY <2>1 DEF ClaimsOf, Live
<1>7. LinksOf(e, p) = {}
  <2>1. \A l \in Without(d, p) : l.live => l.person # p
    BY <1>1, WithoutLinks
  <2>2. \A l \in Moved(d, p, t, r) : l.person # p
    BY <1>2 DEF Moved, Link
  <2> QED
    BY <1>3, <2>1, <2>2 DEF Merged, LinksOf
<1> QED
  BY <1>5, <1>6, <1>7

(* A merge loses nothing that was public, and leaves the person who went   *)
(* neither a current claim nor a link.                                     *)
THEOREM MergesKeepPublic == Spec => MergeKeepsPublic
<1> DEFINE Kept(r) ==
             LET cmd == receipt'[r].cmd IN
             cmd.action = "MERGE_PERSON" =>
               LET p == cmd.targets[1] IN
               /\ \A c \in Public(db) \cap ClaimsOf(db, p) :
                    \E k \in Public(db') :
                      db'.claim[k] = [db.claim[c] EXCEPT !.subject = cmd.person]
               /\ ClaimsOf(db', p) = {} /\ LinksOf(db', p) = {}
           All == \A r \in DOMAIN receipt' \ DOMAIN receipt : Kept(r)
<1>1. ASSUME Safe, [Next]_vars PROVE [All]_vars
  <2>1. ASSUME NEW a \in Actors, Commit(a) PROVE All
    <3> DEFINE r == desk[a].request
               cmd == desk[a].cmd
    <3>1. /\ r \in Requests \ DOMAIN receipt /\ Shape(cmd) /\ Permitted(db, cmd)
          /\ db' = Planned(db, r, cmd)
          /\ receipt' = Put(receipt, r, [actor |-> a, cmd |-> cmd])
      BY <1>1, <2>1 DEF Safe, Desks, Commit, Current
    <3> HIDE DEF r, cmd
    <3>2. DOMAIN receipt' \ DOMAIN receipt = {r} /\ receipt'[r].cmd = cmd
      BY <3>1 DEF Put
    <3>3. CASE cmd.action = "MERGE_PERSON"
      <4> DEFINE p == cmd.targets[1]
      <4>1. cmd.action \notin Batched
        BY <3>3 DEF Batched
      <4>2. db' = Effect(db, db, p, r, cmd) /\ Accepts(db, cmd, p)
        BY <3>1, <4>1, SingleTarget
      <4> HIDE DEF p
      <4>3. db' = Merge(db, db, p, cmd.person, r) /\ MayMerge(db, p, cmd.person)
        BY <3>3, <4>2 DEF Effect, Accepts, Reviewing
      <4>4. Consistent(db) /\ Fresh(db, r)
        BY <1>1, <3>1 DEF Safe, Unmade
      <4>5. /\ \A c \in Public(db) \cap ClaimsOf(db, p) :
                 \E k \in Public(db') : db'.claim[k] = [db.claim[c] EXCEPT !.subject = cmd.person]
            /\ ClaimsOf(db', p) = {} /\ LinksOf(db', p) = {}
        BY <4>3, <4>4, MergeMoves
      <4>6. Kept(r)
        BY <3>2, <4>5 DEF p
      <4> HIDE DEF Kept
      <4> QED
        BY <3>2, <4>6
    <3>4. CASE cmd.action # "MERGE_PERSON"
      <4>1. Kept(r)
        BY <3>2, <3>4
      <4> HIDE DEF Kept
      <4> QED
        BY <3>2, <4>1
    <3> QED
      BY <3>3, <3>4
  <2>2. ASSUME receipt' = receipt PROVE All
    BY <2>2
  <2> HIDE DEF All
  <2> QED
    BY <1>1, <2>1, <2>2 DEF Next, Preview, Close, Replay, Materialize, vars
<1> QED
  BY <1>1, SafeAlways, PTL DEF Spec, MergeKeepsPublic

-----------------------------------------------------------------------------
(* Corrections                                                             *)

\* The corrections a database holds, in public or not.
Versions(d) == {c \in Live(d) : d.claim[c].kind = "CORRECTION"}

\* A step from d to e keeps corrections in order: they still are in e, and the originals of
\* those it brings into public are not those of the ones that were there and stay.
Succeeds(d, e) ==
  /\ Versioned(e)
  /\ \A c \in Corrections(e) \ Corrections(d), k \in Corrections(d) \cap Corrections(e) :
       e.claim[c].origin # d.claim[k].origin

\* The step from d to e ends claims at most, and rewrites no claim that stays.
Ends(d, e) ==
  /\ \A c \in DOMAIN d.claim : /\ ~ d.claim[c].live => ~ e.claim[c].live
                               /\ e.claim[c].kind = d.claim[c].kind
                               /\ e.claim[c].origin = d.claim[c].origin
                               /\ e.claim[c].subject = d.claim[c].subject
  /\ Versions(e) \subseteq Versions(d)

\* What Versioned says, claim by claim.
LEMMA VersionedClaims ==
  ASSUME NEW d
  PROVE  Versioned(d) <=>
           /\ \A c \in Corrections(d) : ~ d.claim[d.claim[c].origin].live
           /\ \A c, k \in Versions(d) :
                /\ d.claim[c].origin \in Live(d) =>
                     d.claim[d.claim[c].origin].subject = d.claim[c].subject
                /\ d.claim[k].origin = d.claim[c].origin =>
                     d.claim[k].subject = d.claim[c].subject
  BY DEF Versioned, OriginalsReplaced, VersionsAlike, Versions

LEMMA CorrectionsLive ==
  ASSUME NEW d, Grounded(d)
  PROVE  /\ Corrections(d) = {c \in Versions(d) : d.claim[c].status = "PUBLISHED"}
         /\ \A c \in Versions(d) : /\ c \in DOMAIN d.claim /\ d.claim[c].live
                                   /\ d.claim[c].kind = "CORRECTION"
                                   /\ d.claim[c].origin \in DOMAIN d.claim
  BY DEF Grounded, Corrections, Versions, Public, Live

(* A step that only ends claims, and publishes a correction only when it   *)
(* ends an original that was current, keeps them in order.                 *)
LEMMA EndsSucceeds ==
  ASSUME NEW d, Grounded(d), Versioned(d), NEW e, Ends(d, e),
         \A c \in Corrections(e) \ Corrections(d) :
           d.claim[d.claim[c].origin].live /\ ~ e.claim[d.claim[c].origin].live
  PROVE  Succeeds(d, e)
<1>1. /\ \A c \in Corrections(d) : ~ d.claim[d.claim[c].origin].live
      /\ \A c, k \in Versions(d) :
                /\ d.claim[c].origin \in Live(d) =>
                     d.claim[d.claim[c].origin].subject = d.claim[c].subject
                /\ d.claim[k].origin = d.claim[c].origin =>
                     d.claim[k].subject = d.claim[c].subject
  BY VersionedClaims
<1>2. \A c \in Versions(d) : c \in DOMAIN d.claim /\ d.claim[c].origin \in DOMAIN d.claim
  BY CorrectionsLive
<1>3. /\ Corrections(e) \subseteq Versions(e) /\ Corrections(d) \subseteq Versions(d)
      /\ Versions(e) \subseteq Versions(d)
  BY DEF Corrections, Versions, Public, Ends
<1>4. \A c \in Versions(e) : e.claim[c].origin = d.claim[c].origin /\ e.claim[c].subject = d.claim[c].subject
  BY <1>2, <1>3 DEF Ends
<1>5. \A o \in DOMAIN d.claim : o \in Live(e) => o \in Live(d) /\ e.claim[o].subject = d.claim[o].subject
  BY DEF Ends, Live
<1>6. ASSUME NEW c \in Corrections(e) PROVE ~ e.claim[e.claim[c].origin].live
  <2>1. CASE c \in Corrections(d)
    BY <1>1, <1>2, <1>3, <1>4, <2>1 DEF Ends
  <2>2. CASE c \notin Corrections(d)
    BY <1>3, <1>4, <2>2
  <2> QED
    BY <2>1, <2>2
<1>7. \A c, k \in Versions(e) :
                /\ e.claim[c].origin \in Live(e) =>
                     e.claim[e.claim[c].origin].subject = e.claim[c].subject
                /\ e.claim[k].origin = e.claim[c].origin =>
                     e.claim[k].subject = e.claim[c].subject
  BY <1>1, <1>2, <1>3, <1>4, <1>5
<1>8. Versioned(e)
  BY <1>6, <1>7, VersionedClaims
<1>9. \A c \in Corrections(e) \ Corrections(d), k \in Corrections(d) \cap Corrections(e) :
        e.claim[c].origin # d.claim[k].origin
  BY <1>1, <1>3, <1>4
<1> QED
  BY <1>8, <1>9 DEF Succeeds

\* A step that publishes no correction, makes none and revives no claim.
Quiet(d, e) == Ends(d, e) /\ Corrections(e) \subseteq Corrections(d)

LEMMA QuietSucceeds ==
  ASSUME NEW d, Grounded(d), Versioned(d), NEW e, Quiet(d, e)
  PROVE  Succeeds(d, e)
  BY EndsSucceeds DEF Quiet

LEMMA SameClaims ==
  ASSUME NEW d, NEW e, e.claim = d.claim
  PROVE  Quiet(d, e)
  BY DEF Quiet, Ends, Versions, Corrections, Public, Live

LEMMA MarksQuiet ==
  ASSUME NEW d, Typed(d), NEW e, NEW cs, cs \subseteq Live(d), NEW status \in Statuses \ {"PUBLISHED"},
         MarksOnly(d, e, cs, status)
  PROVE  Quiet(d, e)
<1>1. /\ OnlyClaims(d, e)
      /\ \A c \in DOMAIN d.claim :
              /\ c \notin cs => e.claim[c] = d.claim[c]
              /\ c \in cs => e.claim[c].status = status
              /\ e.claim[c].live = d.claim[c].live /\ e.claim[c].kind = d.claim[c].kind
              /\ e.claim[c].subject = d.claim[c].subject
              /\ e.claim[c].origin = d.claim[c].origin
  BY MarksRestate
<1>2. Ends(d, e)
  BY <1>1 DEF Ends, Versions, Live, OnlyClaims
<1>3. Corrections(e) \subseteq Corrections(d)
  BY <1>1 DEF Corrections, Live, Public, OnlyClaims
<1> QED
  BY <1>2, <1>3 DEF Quiet

LEMMA AddsQuiet ==
  ASSUME NEW d, NEW e, NEW kinds, "CORRECTION" \notin kinds, Adds(d, e, kinds)
  PROVE  Quiet(d, e)
<1>1. /\ \A c \in DOMAIN d.claim : c \in DOMAIN e.claim /\ e.claim[c] = d.claim[c]
      /\ \A c \in DOMAIN e.claim \ DOMAIN d.claim : e.claim[c].kind \in kinds
  BY DEF Adds, Extends
<1>2. Ends(d, e)
  BY <1>1 DEF Ends, Versions, Live
<1>3. Corrections(e) \subseteq Corrections(d)
  BY <1>1 DEF Corrections, Live, Public
<1> QED
  BY <1>2, <1>3 DEF Quiet

(* A correction is drafted of a current claim, for the subject it has.     *)
LEMMA CorrectSucceeds ==
  ASSUME NEW d, Consistent(d), Versioned(d), NEW r, Fresh(d, r), NEW x, x \in Live(d),
         NEW e, e = Correct(d, d, x, r)
  PROVE  Succeeds(d, e)
<1>1. Typed(d) /\ Grounded(d)
  BY DEF Consistent
<1> DEFINE k == Draft("CORRECTION", d.claim[x].subject, d.claim[x].row, x)
           i == <<r, x>>
<1>2. e.claim = Put(d.claim, i, k)
  BY <1>1 DEF Typed, Correct
<1>3. i \notin DOMAIN d.claim
  BY DEF Fresh, Ids
<1>4. k.status = "DRAFT" /\ k.origin = x /\ k.subject = d.claim[x].subject
  BY DEF Draft
<1> HIDE DEF k, i
<1>5. /\ DOMAIN e.claim = DOMAIN d.claim \cup {i}
      /\ e.claim[i] = k /\ \A c \in DOMAIN d.claim : e.claim[c] = d.claim[c]
  BY <1>2, <1>3 DEF Put
<1>6. Corrections(e) = Corrections(d) /\ Versions(e) \subseteq Versions(d) \cup {i}
  BY <1>4, <1>5 DEF Corrections, Versions, Public, Live
<1>7. /\ \A c \in Corrections(d) : ~ d.claim[d.claim[c].origin].live
      /\ \A c, h \in Versions(d) :
                /\ d.claim[c].origin \in Live(d) =>
                     d.claim[d.claim[c].origin].subject = d.claim[c].subject
                /\ d.claim[h].origin = d.claim[c].origin =>
                     d.claim[h].subject = d.claim[c].subject
  BY VersionedClaims
<1>8. \A c \in Versions(d) : c \in DOMAIN d.claim /\ d.claim[c].origin \in DOMAIN d.claim
  BY <1>1, CorrectionsLive
<1>9. x \in DOMAIN d.claim /\ \A o \in DOMAIN d.claim : o \in Live(e) <=> o \in Live(d)
  BY <1>5 DEF Live
<1>10. \A c \in Corrections(e) : ~ e.claim[e.claim[c].origin].live
  BY <1>1, <1>5, <1>6, <1>7, <1>8, CorrectionsLive
<1>11. ASSUME NEW c \in Versions(e), NEW h \in Versions(e)
       PROVE  /\ e.claim[c].origin \in Live(e) =>
                   e.claim[e.claim[c].origin].subject = e.claim[c].subject
              /\ e.claim[h].origin = e.claim[c].origin =>
                   e.claim[h].subject = e.claim[c].subject
  <2>1. \A g \in Versions(e) :
          /\ e.claim[g].origin \in DOMAIN d.claim
          /\ e.claim[g].origin \in Live(d) => d.claim[e.claim[g].origin].subject = e.claim[g].subject
    BY <1>4, <1>5, <1>6, <1>7, <1>8, <1>9
  <2>2. CASE c \in Versions(d) /\ h \in Versions(d)
    BY <1>5, <1>7, <1>8, <1>9, <2>2
  <2>3. CASE c = i \/ h = i
    <3>1. e.claim[c].origin = x \/ e.claim[h].origin = x
      BY <1>4, <1>5, <2>3
    <3> QED
      BY <1>5, <1>9, <2>1, <3>1
  <2> QED
    BY <1>6, <2>2, <2>3
<1>12. Versioned(e)
  BY <1>10, <1>11, VersionedClaims
<1> QED
  BY <1>6, <1>12 DEF Succeeds

(* A publication ends the original of every correction it publishes, and   *)
(* it was current: no correction in public can have replaced it before.    *)
LEMMA PublishSucceeds ==
  ASSUME NEW d, Consistent(d), Versioned(d), NEW r, NEW cmd, Shape(cmd), Permitted(d, cmd),
         cmd.action = "PUBLISH"
  PROVE  Succeeds(d, Planned(d, r, cmd))
<1> DEFINE e == Planned(d, r, cmd)
           cs == Range(cmd.targets)
           rs == Replacing(d, cmd)
<1>1. Typed(d) /\ Grounded(d)
  BY DEF Consistent
<1>2. PublishedRows(d, e, cs, rs)
  BY <1>1, PublishWrites
<1>3. \A c \in cs : d.claim[c].kind = "CORRECTION" =>
        d.claim[c].origin \in Live(d) /\ d.claim[c].origin \in rs
  BY DEF Permitted, Accepts, Reviewing, MayPublish, MayReplace, Replacing, Replaced
<1> HIDE DEF e, cs, rs
<1>4. /\ OnlyClaims(d, e)
      /\ \A c \in DOMAIN d.claim :
              /\ e.claim[c].live <=> d.claim[c].live /\ c \notin rs
              /\ c \in cs /\ c \notin rs => e.claim[c].status = "PUBLISHED"
              /\ c \notin cs /\ c \in rs => e.claim[c].status = "WITHHELD"
              /\ c \notin cs /\ c \notin rs => e.claim[c].status = d.claim[c].status
              /\ e.claim[c].kind = d.claim[c].kind
              /\ e.claim[c].subject = d.claim[c].subject
              /\ e.claim[c].origin = d.claim[c].origin
  BY <1>1, <1>2, PublishedClaims
<1>5. Ends(d, e)
  BY <1>4 DEF Ends, Versions, Live, OnlyClaims
<1>6. ASSUME NEW c \in Corrections(e) \ Corrections(d)
      PROVE  d.claim[d.claim[c].origin].live /\ ~ e.claim[d.claim[c].origin].live
  <2>1. c \in DOMAIN d.claim /\ d.claim[c].kind = "CORRECTION" /\ c \in cs
    BY <1>4, <1>6 DEF Corrections, Public, Live, OnlyClaims
  <2>2. d.claim[c].origin \in Live(d) /\ d.claim[c].origin \in rs
    BY <1>3, <2>1
  <2> QED
    BY <1>4, <2>2 DEF Live
<1> QED
  BY <1>1, <1>5, <1>6, EndsSucceeds DEF e

(* A merge moves all the versions of a claim at once, since all are of the *)
(* person who goes, or none is.                                            *)
LEMMA MergeSucceeds ==
  ASSUME NEW d, Consistent(d), Versioned(d), NEW r, Fresh(d, r), NEW p, NEW t,
         MayMerge(d, p, t), NEW e, e = Merge(d, d, p, t, r)
  PROVE  Succeeds(d, e)
<1>1. Typed(d) /\ Grounded(d)
  BY DEF Consistent
<1>2. p \in DOMAIN d.person /\ t \in DOMAIN d.person \ {p}
  BY DEF MayMerge, Active, Resolved
<1>3. Merged(d, e, p, t, r)
  BY <1>1, <1>2, MergeWrites
<1>4. /\ \A c \in DOMAIN d.claim : Retired(d.claim[c], e.claim[c], p)
      /\ \A i \in DOMAIN e.claim \ DOMAIN d.claim :
           \E c \in ClaimsOf(d, p) : i = <<r, c>> /\ CopyOf(d.claim[c], e.claim[i], t)
  BY <1>1, <1>2, <1>3, MergedClaims
<1>5. /\ \A c \in Corrections(d) : ~ d.claim[d.claim[c].origin].live
      /\ \A c, k \in Versions(d) :
                /\ d.claim[c].origin \in Live(d) =>
                     d.claim[d.claim[c].origin].subject = d.claim[c].subject
                /\ d.claim[k].origin = d.claim[c].origin =>
                     d.claim[k].subject = d.claim[c].subject
  BY VersionedClaims
<1>6. /\ Corrections(d) = {c \in Versions(d) : d.claim[c].status = "PUBLISHED"}
      /\ \A c \in Versions(d) : c \in DOMAIN d.claim /\ d.claim[c].origin \in DOMAIN d.claim
  BY <1>1, CorrectionsLive
<1> DEFINE From(i, c) == /\ c \in Versions(d)
                         /\ d.claim[c].origin = e.claim[i].origin
                         /\ d.claim[c].status = e.claim[i].status
                         /\ \/ /\ i = c /\ d.claim[c].subject # p
                               /\ e.claim[i].subject = d.claim[c].subject
                            \/ /\ i \notin DOMAIN d.claim /\ d.claim[c].subject = p
                               /\ e.claim[i].subject = t
<1>7. ASSUME NEW i \in Versions(e) PROVE \E c : From(i, c)
  <2>1. CASE i \in DOMAIN d.claim
    <3>1. Retired(d.claim[i], e.claim[i], p)
      BY <1>4, <2>1
    <3>2. From(i, i)
      BY <2>1, <3>1 DEF Retired, Versions, Live
    <3> QED
      BY <3>2
  <2>2. CASE i \notin DOMAIN d.claim
    <3>1. i \in DOMAIN e.claim \ DOMAIN d.claim
      BY <2>2 DEF Versions, Live
    <3>2. PICK c \in ClaimsOf(d, p) : CopyOf(d.claim[c], e.claim[i], t)
      BY <1>4, <3>1
    <3>3. From(i, c)
      BY <2>2, <3>2 DEF CopyOf, Versions, Live, ClaimsOf
    <3> QED
      BY <3>3
  <2> QED
    BY <2>1, <2>2
<1>8. \A o \in DOMAIN d.claim : o \in Live(e) =>
        o \in Live(d) /\ d.claim[o].subject # p /\ e.claim[o].subject = d.claim[o].subject
  BY <1>4 DEF Retired, Live
<1>9. \A o \in DOMAIN d.claim : ~ d.claim[o].live => ~ e.claim[o].live
  BY <1>4 DEF Retired
<1>10. \A i : i \in Corrections(e) <=> i \in Versions(e) /\ e.claim[i].status = "PUBLISHED"
  BY DEF Corrections, Versions, Public
<1> HIDE DEF From
<1>11. ASSUME NEW i \in Corrections(e) PROVE ~ e.claim[e.claim[i].origin].live
  <2>1. PICK c : From(i, c)
    BY <1>7, <1>10
  <2>2. c \in Corrections(d) /\ e.claim[i].origin = d.claim[c].origin
    BY <1>6, <1>10, <2>1 DEF From
  <2> QED
    BY <1>5, <1>6, <1>9, <2>2
<1>12. ASSUME NEW i \in Versions(e), NEW j \in Versions(e)
       PROVE  /\ e.claim[i].origin \in Live(e) =>
                   e.claim[e.claim[i].origin].subject = e.claim[i].subject
              /\ e.claim[j].origin = e.claim[i].origin =>
                   e.claim[j].subject = e.claim[i].subject
  <2>1. PICK c : From(i, c)
    BY <1>7
  <2>2. PICK b : From(j, b)
    BY <1>7
  <2>3. e.claim[i].origin \in Live(e) => e.claim[e.claim[i].origin].subject = e.claim[i].subject
    BY <1>5, <1>6, <1>8, <2>1 DEF From
  <2>4. e.claim[j].origin = e.claim[i].origin => e.claim[j].subject = e.claim[i].subject
    BY <1>5, <2>1, <2>2 DEF From
  <2> QED
    BY <2>3, <2>4
<1>13. Versioned(e)
  BY <1>11, <1>12, VersionedClaims
<1>14. ASSUME NEW i \in Corrections(e) \ Corrections(d), NEW k \in Corrections(d) \cap Corrections(e)
       PROVE  e.claim[i].origin # d.claim[k].origin
  <2>1. PICK c : From(i, c)
    BY <1>7, <1>10
  <2>2. c \in Versions(d) /\ d.claim[c].subject = p /\ e.claim[i].origin = d.claim[c].origin
    BY <1>6, <1>10, <2>1 DEF From
  <2>3. k \in Versions(d) /\ d.claim[k].subject # p
    BY <1>6, <1>8, <1>10 DEF Versions
  <2> QED
    BY <1>5, <2>2, <2>3
<1> QED
  BY <1>13, <1>14 DEF Succeeds

LEMMA PlanSucceeds ==
  ASSUME NEW d, Consistent(d), Versioned(d), NEW r \in Requests, Fresh(d, r), NEW cmd, Shape(cmd),
         Permitted(d, cmd)
  PROVE  Succeeds(d, Planned(d, r, cmd))
<1> DEFINE e == Planned(d, r, cmd)
           x == cmd.targets[1]
<1>1. r # Batch /\ Typed(d) /\ Grounded(d)
  BY IdsAssumption DEF Consistent
<1>2. "REVIEW" \in Statuses \ {"PUBLISHED"} /\ "WITHHELD" \in Statuses \ {"PUBLISHED"}
  BY DEF Statuses
<1>3. CASE cmd.action \in Reviewing
  <2>1. ReviewsOnly(d, e)
    BY <1>1, <1>3, ReviewWrites
  <2> HIDE DEF e
  <2>2. e.claim = d.claim
    BY <2>1 DEF ReviewsOnly
  <2> QED
    BY <1>1, <2>2, SameClaims, QuietSucceeds DEF e
<1>4. CASE cmd.action = "REGISTER_PERSON"
  <2>1. Adds(d, e, {"ROLE", "LINKED"})
    BY <1>1, <1>4, RegisterKeeps
  <2> HIDE DEF e
  <2>2. "CORRECTION" \notin {"ROLE", "LINKED"}
    OBVIOUS
  <2> QED
    BY <1>1, <2>1, <2>2, AddsQuiet, QuietSucceeds DEF e
<1>5. CASE cmd.action = "SUBMIT_REVIEW"
  <2>1. MarksOnly(d, e, Range(cmd.targets), "REVIEW")
    BY <1>1, <1>5, SubmitWrites
  <2>2. \A y : Accepts(d, cmd, y) <=> MaySubmit(d, y)
    BY <1>5 DEF Accepts, Reviewing
  <2>3. Range(cmd.targets) \subseteq Live(d)
    BY <2>2 DEF Permitted, MaySubmit
  <2> HIDE DEF e
  <2> QED
    BY <1>1, <1>2, <2>1, <2>3, MarksQuiet, QuietSucceeds DEF e
<1>6. CASE cmd.action = "PUBLISH"
  BY <1>6, PublishSucceeds
<1>7. CASE cmd.action = "WITHDRAW"
  <2>1. MarksOnly(d, e, Taken(d, cmd), "WITHHELD")
    BY <1>1, <1>7, WithdrawWrites
  <2>2. \A y : Accepts(d, cmd, y) <=> MayWithdraw(d, y)
    BY <1>7 DEF Accepts, Reviewing
  <2>3. Taken(d, cmd) \subseteq Live(d)
    BY <2>2 DEF Permitted, MayWithdraw, Taken, Restating
  <2> HIDE DEF e
  <2> QED
    BY <1>1, <1>2, <2>1, <2>3, MarksQuiet, QuietSucceeds DEF e
<1>8. ASSUME cmd.action \notin Batched PROVE e = Effect(d, d, x, r, cmd) /\ Accepts(d, cmd, x)
  BY <1>8, SingleTarget
<1> HIDE DEF e
<1>9. CASE cmd.action = "LINK_PERSON"
  <2>1. e = LinkPerson(d, d, x, cmd.person, r) /\ MayLink(d, x, cmd.person, cmd.bridge)
    BY <1>8, <1>9 DEF Batched, Effect, Accepts, Reviewing
  <2>2. Adds(d, e, {"ROLE", "LINKED"})
    BY <1>1, <2>1, LinkKeeps
  <2>3. "CORRECTION" \notin {"ROLE", "LINKED"}
    OBVIOUS
  <2> QED
    BY <1>1, <2>2, <2>3, AddsQuiet, QuietSucceeds DEF e
<1>10. CASE cmd.action = "CORRECT_CLAIM"
  <2>1. e = Correct(d, d, x, r) /\ x \in Live(d)
    BY <1>8, <1>10 DEF Batched, Effect, Accepts, Reviewing, MayCorrect
  <2> QED
    BY <2>1, CorrectSucceeds DEF e
<1>11. CASE cmd.action = "RESOLVE_PERSON"
  <2>1. e = [d EXCEPT !.person[x].status = "RESOLVED"]
    BY <1>8, <1>11 DEF Batched, Effect, Accepts, Reviewing
  <2>2. e.claim = d.claim
    BY <1>1, <2>1 DEF Typed
  <2> QED
    BY <1>1, <2>2, SameClaims, QuietSucceeds DEF e
<1>12. CASE cmd.action = "RENAME_PERSON"
  <2>1. e = Rename(d, d, x, cmd.name)
    BY <1>8, <1>12 DEF Batched, Effect, Accepts, Reviewing
  <2>2. e.claim = d.claim
    BY <1>1, <2>1 DEF Typed, Rename
  <2> QED
    BY <1>1, <2>2, SameClaims, QuietSucceeds DEF e
<1>13. CASE cmd.action = "DEACTIVATE_PERSON"
  <2>1. e = Deactivate(d, d, x) /\ x \in DOMAIN d.person
    BY <1>8, <1>13 DEF Batched, Effect, Accepts, Reviewing, Active
  <2>2. Deactivated(d, e, x)
    BY <1>1, <2>1, DeactivateWrites
  <2> DEFINE o == OtherClaims(d, e)
  <2>3. o.claim = e.claim /\ MarksOnly(d, o, ClaimsOf(d, x), "WITHHELD")
    BY <2>2 DEF Deactivated, OtherClaims, Tables
  <2> HIDE DEF o
  <2>4. ClaimsOf(d, x) \subseteq Live(d)
    BY DEF ClaimsOf
  <2>5. Quiet(d, o)
    BY <1>1, <1>2, <2>3, <2>4, MarksQuiet
  <2>6. Quiet(d, e)
    BY <2>3, <2>5 DEF Quiet, Ends, Versions, Corrections, Public, Live
  <2> QED
    BY <1>1, <2>6, QuietSucceeds DEF e
<1>14. CASE cmd.action = "MERGE_PERSON"
  <2>1. e = Merge(d, d, x, cmd.person, r) /\ MayMerge(d, x, cmd.person)
    BY <1>8, <1>14 DEF Batched, Effect, Accepts, Reviewing
  <2> QED
    BY <2>1, MergeSucceeds DEF e
<1> QED
  BY <1>3, <1>4, <1>5, <1>6, <1>7, <1>9, <1>10, <1>11, <1>12, <1>13, <1>14
  DEF Shape, Actions, Batched, Reviewing, e

\* The corrections are in order.
InOrder == Safe /\ Versioned(db)

LEMMA InOrderInit ==
  ASSUME Init
  PROVE  InOrder
<1>1. PICK o \in Offices : db = o.db
  BY DEF Init
<1> QED
  BY <1>1, SafeInit, OfficesAssumption DEF InOrder

LEMMA InOrderCommit ==
  ASSUME InOrder, NEW a \in Actors, Commit(a)
  PROVE  Succeeds(db, db')
<1> DEFINE r == desk[a].request
           cmd == desk[a].cmd
<1>1. /\ r \in Requests \ DOMAIN receipt /\ Shape(cmd) /\ Permitted(db, cmd)
      /\ db' = Planned(db, r, cmd)
  BY DEF InOrder, Safe, Desks, Commit, Current
<1> HIDE DEF r, cmd
<1>2. Consistent(db) /\ Fresh(db, r) /\ Versioned(db)
  BY <1>1 DEF InOrder, Safe, Unmade
<1> QED
  BY <1>1, <1>2, PlanSucceeds

LEMMA InOrderMaterialize ==
  ASSUME InOrder, Materialize
  PROVE  Succeeds(db, db')
<1>1. Materialized(db, db', Creatable(db))
  BY DEF Materialize, Materialized
<1>2. Adds(db, db', {"ROLE", "LINKED"})
  BY <1>1, MaterializeKeeps DEF InOrder, Safe
<1>3. "CORRECTION" \notin {"ROLE", "LINKED"}
  OBVIOUS
<1> QED
  BY <1>2, <1>3, AddsQuiet, QuietSucceeds DEF InOrder, Safe, Consistent

LEMMA InOrderNext ==
  ASSUME InOrder, [Next]_vars
  PROVE  InOrder' /\ Succeeds(db, db')
<1>1. Safe'
  BY SafeNext DEF InOrder
<1>2. ASSUME UNCHANGED db PROVE Succeeds(db, db')
  <2>1. db'.claim = db.claim
    BY <1>2
  <2>2. Quiet(db, db')
    BY <2>1, SameClaims
  <2>3. Grounded(db) /\ Versioned(db)
    BY DEF InOrder, Safe, Consistent
  <2> QED
    BY <2>2, <2>3, QuietSucceeds
<1>3. ASSUME NEW a \in Actors, Commit(a) PROVE Succeeds(db, db')
  BY <1>3, InOrderCommit
<1>4. ASSUME Materialize PROVE Succeeds(db, db')
  BY <1>4, InOrderMaterialize
<1> HIDE DEF InOrder
<1>5. Succeeds(db, db')
  BY <1>2, <1>3, <1>4 DEF Next, Preview, Close, Replay, vars
<1> QED
  BY <1>1, <1>5 DEF InOrder, Succeeds

(* The original of a correction in public is not in public, and stays so,  *)
(* whatever is published, withdrawn, merged or deactivated, in batches or  *)
(* singly; and a correction that comes into public by another command than *)
(* one that is there is not of the same original.                          *)
THEOREM CorrectionsReplace == Spec => CorrectionReplaces
<1>1. Init => InOrder
  BY InOrderInit
<1>2. InOrder /\ [Next]_vars => InOrder'
  BY InOrderNext
<1>3. InOrder /\ [Next]_vars =>
        [/\ OriginalsReplaced(db')
         /\ \A c \in Corrections(db') \ Corrections(db) :
              \A k \in Corrections(db) \cap Corrections(db') :
                db'.claim[c].origin # db.claim[k].origin]_vars
  BY InOrderNext DEF Succeeds, Versioned
<1> QED
  BY <1>1, <1>2, <1>3, PTL DEF Spec, CorrectionReplaces

-----------------------------------------------------------------------------
(* What was shown is what is written: a plan built from two databases that *)
(* read the same makes the same changes.                                   *)

\* Two tables that have the same of the rows S.
Agree(f, f0, S) ==
  \A x \in S : (x \in DOMAIN f <=> x \in DOMAIN f0) /\ (x \in DOMAIN f => f[x] = f0[x])

\* g comes from f, and g0 from f0, by the same changes, to rows in S.
Tied(f, f0, g, g0, S) ==
  /\ Agree(f, f0, S) /\ Agree(g, g0, S)
  /\ \A x \in DOMAIN g \ S : x \in DOMAIN f /\ g[x] = f[x]
  /\ \A x \in DOMAIN g0 \ S : x \in DOMAIN f0 /\ g0[x] = f0[x]

LEMMA TiedAltered ==
  ASSUME NEW f, NEW f0, NEW g, NEW g0, NEW S, Tied(f, f0, g, g0, S)
  PROVE  Altered(f, g) = Altered(f0, g0)
<1> DEFINE New1 == {y \in DOMAIN g : y \in DOMAIN f => f[y] # g[y]}
           New0 == {y \in DOMAIN g0 : y \in DOMAIN f0 => f0[y] # g0[y]}
<1>1. New1 = New0 /\ New1 \subseteq S
  BY DEF Tied, Agree
<1>2. \A y \in New1 : g[y] = g0[y]
  BY <1>1 DEF Tied, Agree
<1> HIDE DEF New1, New0
<1>3. {<<y, g[y]>> : y \in New1} = {<<y, g0[y]>> : y \in New0}
  BY <1>1, <1>2
<1> QED
  BY <1>3 DEF Altered, New1, New0

LEMMA TiedStart ==
  ASSUME NEW f, NEW f0, NEW S, Agree(f, f0, S)
  PROVE  Tied(f, f0, f, f0, S)
  BY DEF Tied

(* The same row is written to both.                                        *)
LEMMA TiedPut ==
  ASSUME NEW f, NEW f0, NEW g, NEW g0, NEW S, Tied(f, f0, g, g0, S), NEW x \in S, NEW v
  PROVE  Tied(f, f0, Put(g, x, v), Put(g0, x, v), S)
  BY DEF Tied, Agree, Put

(* The same rows, among S, are rewritten in both by what they hold.        *)
LEMMA TiedRewritten ==
  ASSUME NEW f, NEW f0, NEW g, NEW g0, NEW S, Tied(f, f0, g, g0, S),
         NEW h, NEW h0, NEW cs, cs \subseteq S,
         DOMAIN h = DOMAIN g, DOMAIN h0 = DOMAIN g0,
         \A x \in DOMAIN g \ cs : h[x] = g[x],
         \A x \in DOMAIN g0 \ cs : h0[x] = g0[x],
         \A x \in cs : x \in DOMAIN g /\ x \in DOMAIN g0 /\ g[x] = g0[x] => h[x] = h0[x]
  PROVE  Tied(f, f0, h, h0, S)
  BY DEF Tied, Agree

LEMMA TiedAt ==
  ASSUME NEW f, NEW f0, NEW g, NEW g0, NEW S, Tied(f, f0, g, g0, S), NEW x \in S, NEW v, NEW v0,
         x \in DOMAIN g /\ x \in DOMAIN g0 /\ g[x] = g0[x] => v = v0
  PROVE  Tied(f, f0, [g EXCEPT ![x] = v], [g0 EXCEPT ![x] = v0], S)
<1> DEFINE h == [g EXCEPT ![x] = v]
           h0 == [g0 EXCEPT ![x] = v0]
<1>1. /\ DOMAIN h = DOMAIN g /\ (x \in DOMAIN g => h[x] = v)
      /\ \A y \in DOMAIN g \ {x} : h[y] = g[y]
  OBVIOUS
<1>2. /\ DOMAIN h0 = DOMAIN g0 /\ (x \in DOMAIN g0 => h0[x] = v0)
      /\ \A y \in DOMAIN g0 \ {x} : h0[y] = g0[y]
  OBVIOUS
<1> HIDE DEF h, h0
<1>3. Tied(f, f0, h, h0, S)
  BY <1>1, <1>2 DEF Tied, Agree
<1> QED
  BY <1>3 DEF h, h0

\* The claims, people and reviews of two databases are tied, and the same links are new.
Alike(d, d0, a, a0, C, P, V) ==
  /\ DOMAIN a = Tables /\ DOMAIN a0 = Tables
  /\ Tied(d.claim, d0.claim, a.claim, a0.claim, C)
  /\ Tied(d.person, d0.person, a.person, a0.person, P)
  /\ Tied(d.review, d0.review, a.review, a0.review, V)
  /\ DOMAIN a.review = Rows /\ DOMAIN a0.review = Rows
  /\ a.link \ d.link = a0.link \ d0.link

LEMMA AlikeChanges ==
  ASSUME NEW d, NEW d0, NEW a, NEW a0, NEW C, NEW P, NEW V, Alike(d, d0, a, a0, C, P, V)
  PROVE  Changes(d, a) = Changes(d0, a0)
<1>1. /\ Altered(d.claim, a.claim) = Altered(d0.claim, a0.claim)
      /\ Altered(d.person, a.person) = Altered(d0.person, a0.person)
      /\ Altered(d.review, a.review) = Altered(d0.review, a0.review)
      /\ a.link \ d.link = a0.link \ d0.link
  BY TiedAltered DEF Alike
<1> QED
  BY <1>1 DEF Changes

LEMMA AlikeStart ==
  ASSUME NEW d, Typed(d), NEW d0, Typed(d0), NEW C, NEW P, NEW V, Agree(d.claim, d0.claim, C),
         Agree(d.person, d0.person, P), Agree(d.review, d0.review, V)
  PROVE  Alike(d, d0, d, d0, C, P, V)
<1>1. DOMAIN d = Tables /\ DOMAIN d0 = Tables /\ DOMAIN d.review = Rows /\ DOMAIN d0.review = Rows
  BY DEF Typed, Tables
<1> QED
  BY <1>1, TiedStart DEF Alike

(* A batch whose every target keeps two databases alike does.              *)
LEMMA AlikePlan ==
  ASSUME NEW d, NEW d0, NEW r, NEW cmd, Shape(cmd), NEW C, NEW P, NEW V, Alike(d, d0, d, d0, C, P, V),
         \A a, a0 : \A x \in Range(cmd.targets) :
           Alike(d, d0, a, a0, C, P, V) =>
             Alike(d, d0, Effect(d, a, x, r, cmd), Effect(d0, a0, x, r, cmd), C, P, V)
  PROVE  Alike(d, d0, Planned(d, r, cmd), Planned(d0, r, cmd), C, P, V)
<1> DEFINE n == Len(cmd.targets)
           t == cmd.targets
<1>1. /\ n \in Nat
      /\ \A x : x \in Range(t) <=> \E i \in 1 .. n : x = t[i]
  BY TargetsOf
<1>2. PICK s : Way(s, d, r, cmd)
  BY <1>1, Ways
<1>3. PICK s0 : Way(s0, d0, r, cmd)
  BY <1>1, Ways
<1>4. /\ s[0] = d /\ s0[0] = d0
      /\ \A i \in 1 .. n : /\ s[i] = Effect(d, s[i - 1], t[i], r, cmd)
                           /\ s0[i] = Effect(d0, s0[i - 1], t[i], r, cmd)
      /\ Planned(d, r, cmd) = s[n] /\ Planned(d0, r, cmd) = s0[n]
  BY <1>2, <1>3 DEF Way
<1> DEFINE G == {i \in 0 .. n : Alike(d, d0, s[i], s0[i], C, P, V)}
<1> HIDE DEF n
<1>5. 0 \in G
  BY <1>1, <1>4
<1>6. ASSUME NEW i \in 1 .. n, i - 1 \in G PROVE i \in G
  <2>1. t[i] \in Range(t) /\ i \in 0 .. n
    BY <1>1
  <2>2. Alike(d, d0, s[i - 1], s0[i - 1], C, P, V)
    BY <1>6
  <2>3. Alike(d, d0, Effect(d, s[i - 1], t[i], r, cmd), Effect(d0, s0[i - 1], t[i], r, cmd), C, P, V)
    BY <2>1, <2>2
  <2> QED
    BY <1>4, <2>1, <2>3
<1>7. n \in G
  <2>1. n \in 0 .. n
    BY <1>1
  <2> HIDE DEF G
  <2> QED
    BY <1>1, <1>5, <1>6, <2>1, CountUp
<1> QED
  BY <1>4, <1>7

(* Marking, ending and reviewing the same rows.                            *)
LEMMA AlikeMarked ==
  ASSUME NEW d, NEW d0, NEW a, NEW a0, NEW C, NEW P, NEW V, Alike(d, d0, a, a0, C, P, V),
         NEW cs, cs \subseteq C, NEW status
  PROVE  Alike(d, d0, Marked(a, cs, status), Marked(a0, cs, status), C, P, V)
<1>1. MarksOnly(a, Marked(a, cs, status), cs, status) /\ MarksOnly(a0, Marked(a0, cs, status), cs, status)
  BY MarkedRows DEF Alike
<1> DEFINE e == Marked(a, cs, status)
           e0 == Marked(a0, cs, status)
<1> HIDE DEF e, e0
<1>2. /\ DOMAIN e.claim = DOMAIN a.claim /\ DOMAIN e0.claim = DOMAIN a0.claim
      /\ \A c \in DOMAIN a.claim : e.claim[c] = IF c \in cs THEN [a.claim[c] EXCEPT !.status = status] ELSE a.claim[c]
      /\ \A c \in DOMAIN a0.claim : e0.claim[c] = IF c \in cs THEN [a0.claim[c] EXCEPT !.status = status] ELSE a0.claim[c]
      /\ Tied(d.claim, d0.claim, a.claim, a0.claim, C)
  BY <1>1 DEF Alike, MarksOnly, OnlyClaims, e, e0
<1>3. Tied(d.claim, d0.claim, e.claim, e0.claim, C)
  <2>1. /\ \A c \in DOMAIN a.claim \ cs : e.claim[c] = a.claim[c]
        /\ \A c \in DOMAIN a0.claim \ cs : e0.claim[c] = a0.claim[c]
    BY <1>2
  <2>2. \A c \in cs : c \in DOMAIN a.claim /\ c \in DOMAIN a0.claim /\ a.claim[c] = a0.claim[c]
                     => e.claim[c] = e0.claim[c]
    BY <1>2
  <2> QED
    BY <1>2, <2>1, <2>2, TiedRewritten
<1> QED
  BY <1>1, <1>3 DEF Alike, MarksOnly, OnlyClaims, e, e0

LEMMA AlikeSuperseded ==
  ASSUME NEW d, NEW d0, NEW a, NEW a0, NEW C, NEW P, NEW V, Alike(d, d0, a, a0, C, P, V),
         NEW cs, cs \subseteq C
  PROVE  Alike(d, d0, Superseded(a, cs), Superseded(a0, cs), C, P, V)
<1>1. EndsOnly(a, Superseded(a, cs), cs) /\ EndsOnly(a0, Superseded(a0, cs), cs)
  BY SupersededRows DEF Alike
<1> DEFINE e == Superseded(a, cs)
           e0 == Superseded(a0, cs)
<1> HIDE DEF e, e0
<1>2. /\ DOMAIN e.claim = DOMAIN a.claim /\ DOMAIN e0.claim = DOMAIN a0.claim
      /\ \A c \in DOMAIN a.claim : e.claim[c] = IF c \in cs THEN [a.claim[c] EXCEPT !.live = FALSE] ELSE a.claim[c]
      /\ \A c \in DOMAIN a0.claim : e0.claim[c] = IF c \in cs THEN [a0.claim[c] EXCEPT !.live = FALSE] ELSE a0.claim[c]
      /\ Tied(d.claim, d0.claim, a.claim, a0.claim, C)
  BY <1>1 DEF Alike, EndsOnly, OnlyClaims, e, e0
<1>3. Tied(d.claim, d0.claim, e.claim, e0.claim, C)
  <2>1. /\ \A c \in DOMAIN a.claim \ cs : e.claim[c] = a.claim[c]
        /\ \A c \in DOMAIN a0.claim \ cs : e0.claim[c] = a0.claim[c]
    BY <1>2
  <2>2. \A c \in cs : c \in DOMAIN a.claim /\ c \in DOMAIN a0.claim /\ a.claim[c] = a0.claim[c]
                     => e.claim[c] = e0.claim[c]
    BY <1>2
  <2> QED
    BY <1>2, <2>1, <2>2, TiedRewritten
<1> QED
  BY <1>1, <1>3 DEF Alike, EndsOnly, OnlyClaims, e, e0

LEMMA AlikeReviewed ==
  ASSUME NEW d, NEW d0, NEW a, NEW a0, NEW C, NEW P, NEW V, Alike(d, d0, a, a0, C, P, V),
         NEW rows, rows \subseteq V, NEW state
  PROVE  Alike(d, d0, Reviewed(a, rows, state), Reviewed(a0, rows, state), C, P, V)
<1> DEFINE e == Reviewed(a, rows, state)
           e0 == Reviewed(a0, rows, state)
<1>1. /\ DOMAIN e = Tables
      /\ e.person = a.person /\ e.claim = a.claim /\ e.link = a.link
      /\ DOMAIN e.review = Rows
      /\ \A row \in Rows : e.review[row] = IF row \in rows THEN state ELSE a.review[row]
  BY ReviewedRows DEF Alike
<1>2. /\ DOMAIN e0 = Tables
      /\ e0.person = a0.person /\ e0.claim = a0.claim /\ e0.link = a0.link
      /\ DOMAIN e0.review = Rows
      /\ \A row \in Rows : e0.review[row] = IF row \in rows THEN state ELSE a0.review[row]
  BY ReviewedRows DEF Alike
<1> HIDE DEF e, e0
<1>3. Tied(d.review, d0.review, e.review, e0.review, V)
  BY <1>1, <1>2 DEF Alike, Tied, Agree
<1> QED
  BY <1>1, <1>2, <1>3 DEF Alike, e, e0

(* The same draft and the same new link, with the review they resolve.     *)
LEMMA AlikeAttributed ==
  ASSUME NEW d, NEW d0, NEW a, NEW a0, NEW C, NEW P, NEW V, Alike(d, d0, a, a0, C, P, V),
         NEW row \in V, NEW p, NEW r, Fresh(d, r), Fresh(d0, r), <<r, row>> \in C, NEW how, NEW k
  PROVE  Alike(d, d0, Attributed(a, row, p, r, how, k), Attributed(a0, row, p, r, how, k), C, P, V)
<1> DEFINE b == Reviewed(a, {row}, "RESOLVED")
           b0 == Reviewed(a0, {row}, "RESOLVED")
           e == Attributed(a, row, p, r, how, k)
           e0 == Attributed(a0, row, p, r, how, k)
           l == Link(<<r, row>>, p, row, how)
<1>1. Alike(d, d0, b, b0, C, P, V)
  BY AlikeReviewed
<1>2. /\ e = [b EXCEPT !.link = @ \cup {l}, !.claim = Put(@, <<r, row>>, k)]
      /\ e0 = [b0 EXCEPT !.link = @ \cup {l}, !.claim = Put(@, <<r, row>>, k)]
  BY DEF Attributed
<1> HIDE DEF b, b0, e, e0
<1>3. /\ DOMAIN e = Tables /\ DOMAIN e0 = Tables
      /\ e.claim = Put(b.claim, <<r, row>>, k) /\ e0.claim = Put(b0.claim, <<r, row>>, k)
      /\ e.person = b.person /\ e0.person = b0.person
      /\ e.review = b.review /\ e0.review = b0.review
      /\ e.link = b.link \cup {l} /\ e0.link = b0.link \cup {l}
  BY <1>1, <1>2 DEF Alike, Tables
<1>4. l.id = <<r, row>>
  BY DEF Link
<1>5. l \notin d.link /\ l \notin d0.link
  BY <1>4 DEF Fresh, Ids
<1> HIDE DEF l
<1>6. Tied(d.claim, d0.claim, e.claim, e0.claim, C)
  BY <1>1, <1>3, TiedPut DEF Alike
<1> QED
  BY <1>1, <1>3, <1>5, <1>6 DEF Alike, e, e0

\* d0 holds what a plan for x reads of d.
Kept(d, d0, cmd, x) ==
  /\ \A c \in ClaimsRead(d, cmd, x) : c \in DOMAIN d.claim \cap DOMAIN d0.claim /\ d0.claim[c] = d.claim[c]
  /\ \A p \in PeopleRead(d, cmd, x) : p \in DOMAIN d.person \cap DOMAIN d0.person /\ d0.person[p] = d.person[p]
  /\ LinksRead(d, cmd, x) \subseteq d.link \cap d0.link
  /\ \A row \in ReviewsRead(d, cmd, x) : row \in Rows /\ d0.review[row] = d.review[row]

(* A plan reads rows that exist.                                           *)
LEMMA ReadsExist ==
  ASSUME NEW d, Consistent(d), NEW cmd, Shape(cmd), NEW x, Accepts(d, cmd, x)
  PROVE  /\ ClaimsRead(d, cmd, x) \subseteq DOMAIN d.claim
         /\ PeopleRead(d, cmd, x) \subseteq DOMAIN d.person
         /\ LinksRead(d, cmd, x) \subseteq d.link
         /\ ReviewsRead(d, cmd, x) \subseteq Rows
<1> DEFINE Exist == /\ ClaimsRead(d, cmd, x) \subseteq DOMAIN d.claim
                    /\ PeopleRead(d, cmd, x) \subseteq DOMAIN d.person
                    /\ LinksRead(d, cmd, x) \subseteq d.link
                    /\ ReviewsRead(d, cmd, x) \subseteq Rows
<1>0. Typed(d) /\ Grounded(d) /\ AlioRows \subseteq Rows
  BY DEF Consistent, Rows
<1>1. /\ \A c \in DOMAIN d.claim : d.claim[c].row \in Rows
      /\ \A l \in d.link : l.row \in Rows
      /\ \A c : c \in Live(d) => c \in DOMAIN d.claim
      /\ \A p : p \in Active(d) => p \in DOMAIN d.person
      /\ \A p : p \in Resolved(d) => p \in DOMAIN d.person
      /\ \A row : ClaimsAt(d, row) \subseteq DOMAIN d.claim
      /\ \A p : ClaimsOf(d, p) \subseteq DOMAIN d.claim
      /\ \A p : LinksOf(d, p) \subseteq d.link
      /\ \A row : LinksOn(d, row) \subseteq d.link
  BY <1>0 DEF Typed, Live, Active, Resolved, ClaimsAt, ClaimsOf, LinksOf, LinksOn
<1>2. CASE cmd.action \in Reviewing
  <2>1. x \in Rows
    <3>1. MayReview(d, x)
      BY <1>2 DEF Accepts, Reviewing
    <3> QED
      BY <1>0, <3>1 DEF MayReview
  <2> QED
    BY <1>1, <1>2, <2>1 DEF ClaimsRead, PeopleRead, LinksRead, ReviewsRead, Reviewing
<1>3. CASE cmd.action = "REGISTER_PERSON"
  <2>1. x \in Rows
    BY <1>0, <1>3 DEF Accepts, MayRegister, Reviewing
  <2> QED
    BY <1>1, <1>3, <2>1 DEF ClaimsRead, PeopleRead, LinksRead, ReviewsRead, Reviewing
<1>4. CASE cmd.action = "LINK_PERSON"
  <2>1. MayLink(d, x, cmd.person, cmd.bridge)
    BY <1>4 DEF Accepts, Reviewing
  <2>2. x \in Rows
    <3>1. PICK c : c \in Listing(d, x)
      BY <2>1, FS_EmptySet DEF MayLink, Listed
    <3> QED
      BY <1>1, <3>1 DEF Listing, ClaimsAt
  <2>3. cmd.person \in DOMAIN d.person /\ {cmd.bridge} \ {None} \subseteq DOMAIN d.claim
    BY <1>1, <2>1 DEF MayLink
  <2> QED
    BY <1>1, <1>4, <2>2, <2>3 DEF ClaimsRead, PeopleRead, LinksRead, ReviewsRead, Reviewing
<1>5. CASE cmd.action \in {"SUBMIT_REVIEW", "CORRECT_CLAIM"}
  <2>1. x \in DOMAIN d.claim
    BY <1>1, <1>5 DEF Accepts, MaySubmit, MayCorrect, Reviewing
  <2> QED
    BY <1>5, <2>1 DEF ClaimsRead, PeopleRead, LinksRead, ReviewsRead, Reviewing
<1>6. CASE cmd.action = "WITHDRAW"
  <2>1. x \in DOMAIN d.claim /\ Restating(d, x) \subseteq DOMAIN d.claim
    BY <1>1, <1>6 DEF Accepts, MayWithdraw, Restating, Reviewing
  <2> QED
    BY <1>6, <2>1 DEF ClaimsRead, PeopleRead, LinksRead, ReviewsRead, Reviewing
<1>7. CASE cmd.action = "PUBLISH"
  <2>1. MayPublish(d, x)
    BY <1>7 DEF Accepts, Reviewing
  <2>2. x \in DOMAIN d.claim /\ Replaced(d, x) \subseteq DOMAIN d.claim
    BY <1>1, <2>1 DEF MayPublish, MayReplace, Replaced
  <2>3. {d.claim[x].subject} \ {Org} \subseteq DOMAIN d.person
    BY <1>1, <2>1 DEF MayPublish
  <2> QED
    BY <1>1, <1>7, <2>2, <2>3 DEF ClaimsRead, PeopleRead, LinksRead, ReviewsRead, Reviewing
<1>8. CASE cmd.action = "RESOLVE_PERSON"
  <2>1. x \in DOMAIN d.person
    BY <1>1, <1>8 DEF Accepts, MayResolve, Reviewing
  <2> QED
    BY <1>1, <1>8, <2>1 DEF ClaimsRead, PeopleRead, LinksRead, ReviewsRead, Reviewing
<1>9. CASE cmd.action = "RENAME_PERSON"
  <2>1. x \in DOMAIN d.person
    BY <1>1, <1>9 DEF Accepts, MayRename, Reviewing
  <2> QED
    BY <1>1, <1>9, <2>1 DEF ClaimsRead, PeopleRead, LinksRead, ReviewsRead, Reviewing
<1>10. CASE cmd.action = "DEACTIVATE_PERSON"
  <2>1. x \in DOMAIN d.person /\ \A l \in LinksOf(d, x) : l.row \in Rows
    BY <1>1, <1>10 DEF Accepts, Reviewing
  <2> QED
    BY <1>1, <1>10, <2>1 DEF ClaimsRead, PeopleRead, LinksRead, ReviewsRead, Reviewing
<1>11. CASE cmd.action = "MERGE_PERSON"
  <2>1. x \in DOMAIN d.person /\ cmd.person \in DOMAIN d.person
    BY <1>1, <1>11 DEF Accepts, MayMerge, Reviewing
  <2> QED
    BY <1>1, <1>11, <2>1 DEF ClaimsRead, PeopleRead, LinksRead, ReviewsRead, Reviewing
<1> QED
  BY <1>2, <1>3, <1>4, <1>5, <1>6, <1>7, <1>8, <1>9, <1>10, <1>11
  DEF Shape, Actions, Batched, Reviewing

LEMMA ReadsAgree ==
  ASSUME NEW d, Consistent(d), NEW d0, Consistent(d0), NEW cmd, Shape(cmd),
         Permitted(d, cmd), Permitted(d0, cmd), Reads(d, cmd) = Reads(d0, cmd),
         NEW x \in Range(cmd.targets)
  PROVE  Kept(d, d0, cmd, x)
<1> DEFINE T == Range(cmd.targets)
           Cs(e) == UNION {ClaimsRead(e, cmd, y) : y \in T}
           Ps(e) == UNION {PeopleRead(e, cmd, y) : y \in T}
           Ls(e) == UNION {LinksRead(e, cmd, y) : y \in T}
           Vs(e) == UNION {ReviewsRead(e, cmd, y) : y \in T}
<1>1. \A e : Reads(e, cmd) = [claim |-> Restrict(e.claim, Cs(e)), person |-> Restrict(e.person, Ps(e)),
                              link |-> Ls(e), review |-> Restrict(e.review, Vs(e))]
  BY DEF Reads
<1>2. \A e, y : Consistent(e) /\ Permitted(e, cmd) /\ y \in T =>
        /\ ClaimsRead(e, cmd, y) \subseteq DOMAIN e.claim
        /\ PeopleRead(e, cmd, y) \subseteq DOMAIN e.person
        /\ LinksRead(e, cmd, y) \subseteq e.link
        /\ ReviewsRead(e, cmd, y) \subseteq Rows
  BY ReadsExist DEF Permitted
<1>3. /\ \A c \in Cs(d0) : c \in DOMAIN d0.claim
      /\ \A p \in Ps(d0) : p \in DOMAIN d0.person
      /\ Ls(d0) \subseteq d0.link
  BY <1>2
<1>4. /\ ClaimsRead(d, cmd, x) \subseteq Cs(d)
      /\ PeopleRead(d, cmd, x) \subseteq Ps(d)
      /\ LinksRead(d, cmd, x) \subseteq Ls(d)
      /\ ReviewsRead(d, cmd, x) \subseteq Vs(d)
  OBVIOUS
<1>5. /\ ClaimsRead(d, cmd, x) \subseteq DOMAIN d.claim
      /\ PeopleRead(d, cmd, x) \subseteq DOMAIN d.person
      /\ LinksRead(d, cmd, x) \subseteq d.link
      /\ ReviewsRead(d, cmd, x) \subseteq Rows
  BY <1>2
<1> HIDE DEF Cs, Ps, Ls, Vs, T
<1>6. /\ Restrict(d.claim, Cs(d)) = Restrict(d0.claim, Cs(d0))
      /\ Restrict(d.person, Ps(d)) = Restrict(d0.person, Ps(d0))
      /\ Ls(d) = Ls(d0)
      /\ Restrict(d.review, Vs(d)) = Restrict(d0.review, Vs(d0))
  BY <1>1
<1>7. ASSUME NEW f, NEW f0, NEW S, NEW S0, Restrict(f, S) = Restrict(f0, S0)
      PROVE  S = S0 /\ \A y \in S : f[y] = f0[y]
  <2>1. DOMAIN Restrict(f, S) = S /\ DOMAIN Restrict(f0, S0) = S0
    BY DEF Restrict
  <2>2. ASSUME NEW y \in S PROVE f[y] = f0[y]
    <3>1. Restrict(f, S)[y] = f[y] /\ Restrict(f0, S0)[y] = f0[y]
      BY <1>7, <2>1 DEF Restrict
    <3> QED
      BY <1>7, <3>1
  <2> QED
    BY <1>7, <2>1, <2>2
<1>8. /\ Cs(d) = Cs(d0) /\ \A c \in Cs(d) : d.claim[c] = d0.claim[c]
      /\ Ps(d) = Ps(d0) /\ \A p \in Ps(d) : d.person[p] = d0.person[p]
      /\ \A row \in Vs(d) : d.review[row] = d0.review[row]
  BY <1>6, <1>7
<1> QED
  BY <1>3, <1>4, <1>5, <1>6, <1>8 DEF Kept

\* Two databases that read the same for x, and what a plan for x may touch.
Same(d, d0, r, cmd, x) ==
  /\ Consistent(d) /\ Consistent(d0) /\ Fresh(d, r) /\ Fresh(d0, r)
  /\ Accepts(d, cmd, x) /\ Accepts(d0, cmd, x)
  /\ Kept(d, d0, cmd, x) /\ Kept(d0, d, cmd, x)

Covers(d, r, cmd, x, C, P, V) ==
  /\ ClaimsRead(d, cmd, x) \cup New(r, ClaimsRead(d, cmd, x) \cup {x}) \subseteq C
  /\ PeopleRead(d, cmd, x) \cup New(r, {x}) \subseteq P
  /\ ReviewsRead(d, cmd, x) \subseteq V

LEMMA ReviewAlike ==
  ASSUME NEW d, NEW d0, NEW r, NEW cmd, NEW x, NEW C, NEW P, NEW V, Covers(d, r, cmd, x, C, P, V),
         NEW a, NEW a0, Alike(d, d0, a, a0, C, P, V), cmd.action \in Reviewing
  PROVE  Alike(d, d0, Effect(d, a, x, r, cmd), Effect(d0, a0, x, r, cmd), C, P, V)
<1>1. {x} \subseteq V
  BY DEF Covers, ReviewsRead, Reviewing
<1>2. CASE cmd.action \in {"HOLD", "REOPEN"}
  <2>1. Effect(d, a, x, r, cmd) = Reviewed(a, {x}, "OPEN") /\ Effect(d0, a0, x, r, cmd) = Reviewed(a0, {x}, "OPEN")
    BY <1>2 DEF Effect
  <2> QED
    BY <1>1, <2>1, AlikeReviewed
<1>3. CASE cmd.action = "EXCLUDE"
  <2>1. Effect(d, a, x, r, cmd) = Reviewed(a, {x}, "REJECTED") /\ Effect(d0, a0, x, r, cmd) = Reviewed(a0, {x}, "REJECTED")
    BY <1>3 DEF Effect
  <2> QED
    BY <1>1, <2>1, AlikeReviewed
<1> QED
  BY <1>2, <1>3 DEF Reviewing

LEMMA SubmitAlike ==
  ASSUME NEW d, NEW d0, NEW r, NEW cmd, NEW x, NEW C, NEW P, NEW V, Covers(d, r, cmd, x, C, P, V),
         NEW a, NEW a0, Alike(d, d0, a, a0, C, P, V), cmd.action = "SUBMIT_REVIEW"
  PROVE  Alike(d, d0, Effect(d, a, x, r, cmd), Effect(d0, a0, x, r, cmd), C, P, V)
<1>1. {x} \subseteq C
  BY DEF Covers, ClaimsRead
<1>2. Effect(d, a, x, r, cmd) = Marked(a, {x}, "REVIEW") /\ Effect(d0, a0, x, r, cmd) = Marked(a0, {x}, "REVIEW")
  BY DEF Effect, Reviewing
<1> QED
  BY <1>1, <1>2, AlikeMarked

LEMMA WithdrawAlike ==
  ASSUME NEW d, NEW d0, NEW r, NEW cmd, NEW x, NEW C, NEW P, NEW V, Covers(d, r, cmd, x, C, P, V),
         NEW a, NEW a0, Alike(d, d0, a, a0, C, P, V), Same(d, d0, r, cmd, x), cmd.action = "WITHDRAW"
  PROVE  Alike(d, d0, Effect(d, a, x, r, cmd), Effect(d0, a0, x, r, cmd), C, P, V)
<1>1. \A e : ClaimsRead(e, cmd, x) = {x} \cup Restating(e, x)
  BY DEF ClaimsRead
<1>2. /\ \A c \in {x} \cup Restating(d, x) : c \in DOMAIN d0.claim /\ d0.claim[c] = d.claim[c]
      /\ \A c \in {x} \cup Restating(d0, x) : c \in DOMAIN d.claim /\ d0.claim[c] = d.claim[c]
  BY <1>1 DEF Same, Kept
<1>3. Restating(d, x) = Restating(d0, x)
  BY <1>2 DEF Restating, Live
<1>4. {x} \cup Restating(d, x) \subseteq C
  BY <1>1 DEF Covers
<1> DEFINE cs == {x} \cup Restating(d, x)
<1>5. Effect(d, a, x, r, cmd) = Marked(a, cs, "WITHHELD") /\ Effect(d0, a0, x, r, cmd) = Marked(a0, cs, "WITHHELD")
  BY <1>3 DEF Effect, Withdraw, Reviewing
<1> HIDE DEF cs
<1> QED
  BY <1>4, <1>5, AlikeMarked DEF cs

LEMMA PublishAlike ==
  ASSUME NEW d, NEW d0, NEW r, NEW cmd, NEW x, NEW C, NEW P, NEW V, Covers(d, r, cmd, x, C, P, V),
         NEW a, NEW a0, Alike(d, d0, a, a0, C, P, V), Same(d, d0, r, cmd, x), cmd.action = "PUBLISH"
  PROVE  Alike(d, d0, Effect(d, a, x, r, cmd), Effect(d0, a0, x, r, cmd), C, P, V)
<1> DEFINE R == Replaced(d, x)
           b == Marked(a, R, "WITHHELD")
           b0 == Marked(a0, R, "WITHHELD")
           e == Superseded(b, R)
           e0 == Superseded(b0, R)
<1>1. {x} \cup R \subseteq ClaimsRead(d, cmd, x)
  BY DEF ClaimsRead
<1>2. d.claim[x] = d0.claim[x] /\ {x} \cup R \subseteq C
  BY <1>1 DEF Same, Kept, Covers
<1>3. Replaced(d0, x) = R
  BY <1>2 DEF Replaced
<1>4. /\ Effect(d, a, x, r, cmd) = Marked(e, {x}, "PUBLISHED")
      /\ Effect(d0, a0, x, r, cmd) = Marked(e0, {x}, "PUBLISHED")
  BY <1>3 DEF Effect, Publish, Reviewing
<1> HIDE DEF R
<1>5. Alike(d, d0, b, b0, C, P, V)
  BY <1>2, AlikeMarked
<1> HIDE DEF b, b0
<1>6. Alike(d, d0, e, e0, C, P, V)
  BY <1>2, <1>5, AlikeSuperseded
<1> HIDE DEF e, e0
<1> QED
  BY <1>2, <1>4, <1>6, AlikeMarked

LEMMA RegisterAlike ==
  ASSUME NEW d, NEW d0, NEW r, NEW cmd, NEW x, NEW C, NEW P, NEW V, Covers(d, r, cmd, x, C, P, V),
         NEW a, NEW a0, Alike(d, d0, a, a0, C, P, V), Same(d, d0, r, cmd, x), cmd.action = "REGISTER_PERSON"
  PROVE  Alike(d, d0, Effect(d, a, x, r, cmd), Effect(d0, a0, x, r, cmd), C, P, V)
<1> DEFINE i == <<r, x>>
           k == Draft("ROLE", i, x, None)
           v == Person(NameOf[x], "RESOLVED")
           b == Attributed(a, x, i, r, "REVIEWED", k)
           b0 == Attributed(a0, x, i, r, "REVIEWED", k)
           e == Register(a, x, r)
           e0 == Register(a0, x, r)
<1>1. i \in C /\ i \in P /\ x \in V
  BY DEF Covers, ReviewsRead, New, Reviewing
<1>2. e = [b EXCEPT !.person = Put(@, i, v)] /\ e0 = [b0 EXCEPT !.person = Put(@, i, v)]
  BY DEF Register, Person
<1>3. Effect(d, a, x, r, cmd) = e /\ Effect(d0, a0, x, r, cmd) = e0
  BY DEF Effect, Reviewing
<1> HIDE DEF k, v, e, e0
<1>4. Alike(d, d0, b, b0, C, P, V)
  BY <1>1, AlikeAttributed DEF Same
<1> HIDE DEF b, b0, i
<1>5. /\ DOMAIN e = Tables /\ DOMAIN e0 = Tables
      /\ e.claim = b.claim /\ e.link = b.link /\ e.review = b.review /\ e.person = Put(b.person, i, v)
      /\ e0.claim = b0.claim /\ e0.link = b0.link /\ e0.review = b0.review /\ e0.person = Put(b0.person, i, v)
  BY <1>2, <1>4 DEF Alike, Tables
<1>6. Tied(d.person, d0.person, e.person, e0.person, P)
  BY <1>1, <1>4, <1>5, TiedPut DEF Alike
<1> QED
  BY <1>3, <1>4, <1>5, <1>6 DEF Alike

(* The actions on one record.                                              *)
LEMMA LinkAlike ==
  ASSUME NEW d, NEW d0, NEW r, NEW cmd, NEW x, NEW C, NEW P, NEW V, Covers(d, r, cmd, x, C, P, V),
         Alike(d, d0, d, d0, C, P, V), Same(d, d0, r, cmd, x), cmd.action = "LINK_PERSON"
  PROVE  Alike(d, d0, Effect(d, d, x, r, cmd), Effect(d0, d0, x, r, cmd), C, P, V)
<1>1. \A e : ClaimsAt(e, x) \subseteq ClaimsRead(e, cmd, x)
  BY DEF ClaimsRead
<1>2. /\ \A c \in ClaimsAt(d, x) : c \in DOMAIN d0.claim /\ d0.claim[c] = d.claim[c]
      /\ \A c \in ClaimsAt(d0, x) : c \in DOMAIN d.claim /\ d0.claim[c] = d.claim[c]
  BY <1>1 DEF Same, Kept
<1>3. Listing(d, x) = Listing(d0, x)
  BY <1>2 DEF Listing, ClaimsAt, Live
<1> DEFINE k == IF x \in AlioRows THEN Draft("ROLE", cmd.person, x, None)
                ELSE Draft("LINKED", cmd.person, x, CHOOSE c \in Listing(d, x) : TRUE)
<1>4. /\ Effect(d, d, x, r, cmd) = Attributed(d, x, cmd.person, r, "REVIEWED", k)
      /\ Effect(d0, d0, x, r, cmd) = Attributed(d0, x, cmd.person, r, "REVIEWED", k)
  BY <1>3 DEF Effect, LinkPerson, Reviewing
<1>5. <<r, x>> \in C /\ x \in V
  BY DEF Covers, ReviewsRead, New, Reviewing
<1> HIDE DEF k
<1> QED
  BY <1>4, <1>5, AlikeAttributed DEF Same

LEMMA CorrectAlike ==
  ASSUME NEW d, NEW d0, NEW r, NEW cmd, NEW x, NEW C, NEW P, NEW V, Covers(d, r, cmd, x, C, P, V),
         Alike(d, d0, d, d0, C, P, V), Same(d, d0, r, cmd, x), cmd.action = "CORRECT_CLAIM"
  PROVE  Alike(d, d0, Effect(d, d, x, r, cmd), Effect(d0, d0, x, r, cmd), C, P, V)
<1> DEFINE k == Draft("CORRECTION", d.claim[x].subject, d.claim[x].row, x)
           e == Effect(d, d, x, r, cmd)
           e0 == Effect(d0, d0, x, r, cmd)
<1>1. d.claim[x] = d0.claim[x] /\ <<r, x>> \in C
  BY DEF Same, Kept, Covers, ClaimsRead, New
<1>2. e = [d EXCEPT !.claim = Put(@, <<r, x>>, k)] /\ e0 = [d0 EXCEPT !.claim = Put(@, <<r, x>>, k)]
  BY <1>1 DEF Effect, Correct, Reviewing
<1> HIDE DEF k, e, e0
<1>3. /\ DOMAIN e = Tables /\ DOMAIN e0 = Tables
      /\ e.person = d.person /\ e.link = d.link /\ e.review = d.review /\ e.claim = Put(d.claim, <<r, x>>, k)
      /\ e0.person = d0.person /\ e0.link = d0.link /\ e0.review = d0.review /\ e0.claim = Put(d0.claim, <<r, x>>, k)
  BY <1>2 DEF Alike, Tables
<1>4. Tied(d.claim, d0.claim, e.claim, e0.claim, C)
  BY <1>1, <1>3, TiedPut DEF Alike
<1> QED
  BY <1>3, <1>4 DEF Alike, e, e0

LEMMA ResolveAlike ==
  ASSUME NEW d, NEW d0, NEW r, NEW cmd, NEW x, NEW C, NEW P, NEW V, Covers(d, r, cmd, x, C, P, V),
         Alike(d, d0, d, d0, C, P, V), Same(d, d0, r, cmd, x), cmd.action = "RESOLVE_PERSON"
  PROVE  Alike(d, d0, Effect(d, d, x, r, cmd), Effect(d0, d0, x, r, cmd), C, P, V)
<1> DEFINE e == Effect(d, d, x, r, cmd)
           e0 == Effect(d0, d0, x, r, cmd)
           v == [d.person[x] EXCEPT !.status = "RESOLVED"]
           v0 == [d0.person[x] EXCEPT !.status = "RESOLVED"]
<1>1. x \in P
  BY DEF Covers, PeopleRead
<1>2. e = [d EXCEPT !.person[x].status = "RESOLVED"] /\ e0 = [d0 EXCEPT !.person[x].status = "RESOLVED"]
  BY DEF Effect, Reviewing
<1> HIDE DEF e, e0
<1>3. /\ DOMAIN e = Tables /\ DOMAIN e0 = Tables
      /\ e.claim = d.claim /\ e.link = d.link /\ e.review = d.review
      /\ e0.claim = d0.claim /\ e0.link = d0.link /\ e0.review = d0.review
      /\ e.person = [d.person EXCEPT ![x] = v] /\ e0.person = [d0.person EXCEPT ![x] = v0]
      /\ d.person[x] = d0.person[x] => v = v0
  BY <1>2 DEF Alike, Tables
<1> HIDE DEF v, v0
<1>4. Tied(d.person, d0.person, e.person, e0.person, P)
  BY <1>1, <1>3, TiedAt DEF Alike
<1> QED
  BY <1>3, <1>4 DEF Alike, e, e0

LEMMA RenameAlike ==
  ASSUME NEW d, NEW d0, NEW r, NEW cmd, NEW x, NEW C, NEW P, NEW V, Covers(d, r, cmd, x, C, P, V),
         Alike(d, d0, d, d0, C, P, V), Same(d, d0, r, cmd, x), cmd.action = "RENAME_PERSON"
  PROVE  Alike(d, d0, Effect(d, d, x, r, cmd), Effect(d0, d0, x, r, cmd), C, P, V)
<1> DEFINE e == Effect(d, d, x, r, cmd)
           e0 == Effect(d0, d0, x, r, cmd)
           v == [d.person[x] EXCEPT !.name = cmd.name, !.aliases = @ \cup {d.person[x].name}]
           v0 == [d0.person[x] EXCEPT !.name = cmd.name, !.aliases = @ \cup {d0.person[x].name}]
<1>1. x \in P
  BY DEF Covers, PeopleRead
<1>2. e = Rename(d, d, x, cmd.name) /\ e0 = Rename(d0, d0, x, cmd.name)
  BY DEF Effect, Reviewing
<1> HIDE DEF e, e0
<1>3. /\ DOMAIN e = Tables /\ DOMAIN e0 = Tables
      /\ e.claim = d.claim /\ e.link = d.link /\ e.review = d.review
      /\ e0.claim = d0.claim /\ e0.link = d0.link /\ e0.review = d0.review
      /\ e.person = [d.person EXCEPT ![x].name = cmd.name, ![x].aliases = @ \cup {d.person[x].name}]
      /\ e0.person = [d0.person EXCEPT ![x].name = cmd.name, ![x].aliases = @ \cup {d0.person[x].name}]
  BY <1>2 DEF Alike, Tables, Rename
<1>4. /\ e.person = [d.person EXCEPT ![x] = v] /\ e0.person = [d0.person EXCEPT ![x] = v0]
      /\ d.person[x] = d0.person[x] => v = v0
  BY <1>3
<1> HIDE DEF v, v0
<1>5. Tied(d.person, d0.person, e.person, e0.person, P)
  BY <1>1, <1>4, TiedAt DEF Alike
<1> QED
  BY <1>3, <1>5 DEF Alike, e, e0

(* Of the links of someone who goes, what is new is that they have ended.  *)
LEMMA EndedAreNew ==
  ASSUME NEW d, Typed(d), Grounded(d), NEW p
  PROVE  Without(d, p) \ d.link = {Ended(l) : l \in LinksOf(d, p)}
<1>1. ASSUME NEW l \in LinksOf(d, p) PROVE Ended(l) \notin d.link
  <2>1. l \in d.link /\ l.live
    BY DEF LinksOf
  <2>2. Ended(l).id = l.id /\ ~ Ended(l).live
    BY <2>1, EndedLinks
  <2> QED
    BY <2>1, <2>2 DEF Grounded
<1> QED
  BY <1>1 DEF Without

\* What two databases that read the same for someone who goes have of them.
SamePerson(d, d0, p) ==
  /\ ClaimsOf(d, p) = ClaimsOf(d0, p) /\ LinksOf(d, p) = LinksOf(d0, p)
  /\ \A c \in ClaimsOf(d, p) : d.claim[c] = d0.claim[c]
  /\ p \in DOMAIN d.person /\ p \in DOMAIN d0.person /\ d.person[p] = d0.person[p]

LEMMA GoneAlike ==
  ASSUME NEW d, NEW d0, NEW r, NEW cmd, NEW x, Same(d, d0, r, cmd, x),
         cmd.action \in {"DEACTIVATE_PERSON", "MERGE_PERSON"}
  PROVE  SamePerson(d, d0, x)
<1>1. \A e : /\ ClaimsRead(e, cmd, x) = ClaimsOf(e, x) /\ LinksOf(e, x) \subseteq LinksRead(e, cmd, x)
             /\ x \in PeopleRead(e, cmd, x)
  BY DEF ClaimsRead, LinksRead, PeopleRead, Reviewing
<1>2. /\ \A c \in ClaimsOf(d, x) : c \in DOMAIN d0.claim /\ d0.claim[c] = d.claim[c]
      /\ \A c \in ClaimsOf(d0, x) : c \in DOMAIN d.claim /\ d0.claim[c] = d.claim[c]
      /\ LinksOf(d, x) \subseteq d0.link /\ LinksOf(d0, x) \subseteq d.link
      /\ x \in DOMAIN d.person /\ x \in DOMAIN d0.person /\ d.person[x] = d0.person[x]
  BY <1>1 DEF Same, Kept
<1>3. ClaimsOf(d, x) = ClaimsOf(d0, x)
  BY <1>2 DEF ClaimsOf, Live
<1>4. LinksOf(d, x) = LinksOf(d0, x)
  BY <1>2 DEF LinksOf
<1> QED
  BY <1>2, <1>3, <1>4 DEF SamePerson

LEMMA DeactivateAlike ==
  ASSUME NEW d, NEW d0, NEW r, NEW cmd, NEW x, NEW C, NEW P, NEW V, Covers(d, r, cmd, x, C, P, V),
         Alike(d, d0, d, d0, C, P, V), Same(d, d0, r, cmd, x), cmd.action = "DEACTIVATE_PERSON"
  PROVE  Alike(d, d0, Effect(d, d, x, r, cmd), Effect(d0, d0, x, r, cmd), C, P, V)
<1> DEFINE e == Effect(d, d, x, r, cmd)
           e0 == Effect(d0, d0, x, r, cmd)
           cs == ClaimsOf(d, x)
           rows == {l.row : l \in LinksOf(d, x)}
<1>1. SamePerson(d, d0, x)
  BY GoneAlike
<1>2. Deactivated(d, e, x) /\ Deactivated(d0, e0, x)
  BY <1>1, DeactivateWrites DEF Same, SamePerson, Consistent, Effect, Reviewing
<1>3. x \in P /\ cs \subseteq C /\ rows \subseteq V
  BY DEF Covers, ClaimsRead, PeopleRead, ReviewsRead, Reviewing
<1>4. cs = ClaimsOf(d0, x) /\ rows = {l.row : l \in LinksOf(d0, x)}
  BY <1>1 DEF SamePerson
<1> HIDE DEF e, e0, cs, rows
<1>5. Tied(d.claim, d0.claim, e.claim, e0.claim, C)
  <2>1. /\ OtherClaims(d, e).claim = e.claim /\ OtherClaims(d0, e0).claim = e0.claim
    BY <1>2 DEF OtherClaims, Deactivated, Tables
  <2>2. /\ DOMAIN e.claim = DOMAIN d.claim /\ DOMAIN e0.claim = DOMAIN d0.claim
        /\ \A c \in DOMAIN d.claim :
             e.claim[c] = IF c \in cs THEN [d.claim[c] EXCEPT !.status = "WITHHELD"] ELSE d.claim[c]
        /\ \A c \in DOMAIN d0.claim :
             e0.claim[c] = IF c \in cs THEN [d0.claim[c] EXCEPT !.status = "WITHHELD"] ELSE d0.claim[c]
    BY <1>2, <1>4, <2>1 DEF Deactivated, MarksOnly, OnlyClaims, cs
  <2>3. /\ \A c \in DOMAIN d.claim \ cs : e.claim[c] = d.claim[c]
        /\ \A c \in DOMAIN d0.claim \ cs : e0.claim[c] = d0.claim[c]
    BY <2>2
  <2>4. \A c \in cs : c \in DOMAIN d.claim /\ c \in DOMAIN d0.claim /\ d.claim[c] = d0.claim[c]
                     => e.claim[c] = e0.claim[c]
    BY <2>2
  <2> QED
    BY <1>3, <2>2, <2>3, <2>4, TiedRewritten DEF Alike
<1>6. Tied(d.person, d0.person, e.person, e0.person, P)
  <2> DEFINE v == [d.person[x] EXCEPT !.active = FALSE]
             v0 == [d0.person[x] EXCEPT !.active = FALSE]
  <2>1. /\ e.person = [d.person EXCEPT ![x] = v] /\ e0.person = [d0.person EXCEPT ![x] = v0]
        /\ v = v0
    BY <1>1, <1>2 DEF Deactivated, SamePerson
  <2> HIDE DEF v, v0
  <2> QED
    BY <1>3, <2>1, TiedAt DEF Alike
<1>7. Tied(d.review, d0.review, e.review, e0.review, V)
  <2>1. /\ DOMAIN d.review = Rows /\ DOMAIN d0.review = Rows /\ Tied(d.review, d0.review, d.review, d0.review, V)
    BY DEF Alike
  <2>2. /\ DOMAIN e.review = Rows /\ DOMAIN e0.review = Rows
        /\ \A row \in Rows : e.review[row] = IF row \in rows THEN "REJECTED" ELSE d.review[row]
        /\ \A row \in Rows : e0.review[row] = IF row \in rows THEN "REJECTED" ELSE d0.review[row]
    BY <1>2, <1>4 DEF Deactivated, rows
  <2>3. /\ DOMAIN e.review = DOMAIN d.review /\ DOMAIN e0.review = DOMAIN d0.review
        /\ \A row \in DOMAIN d.review \ rows : e.review[row] = d.review[row]
        /\ \A row \in DOMAIN d0.review \ rows : e0.review[row] = d0.review[row]
        /\ \A row \in rows : row \in DOMAIN d.review /\ row \in DOMAIN d0.review
                             /\ d.review[row] = d0.review[row] => e.review[row] = e0.review[row]
    BY <2>1, <2>2
  <2> HIDE DEF rows
  <2> QED
    BY <1>3, <2>1, <2>3, TiedRewritten
<1>8. e.link \ d.link = e0.link \ d0.link
  <2>1. e.link = Without(d, x) /\ e0.link = Without(d0, x)
    BY <1>2 DEF Deactivated
  <2>2. /\ Without(d, x) \ d.link = {Ended(l) : l \in LinksOf(d, x)}
        /\ Without(d0, x) \ d0.link = {Ended(l) : l \in LinksOf(d0, x)}
    BY EndedAreNew DEF Same, Consistent
  <2> QED
    BY <1>1, <2>1, <2>2 DEF SamePerson
<1> QED
  BY <1>2, <1>5, <1>6, <1>7, <1>8 DEF Alike, Deactivated, e, e0

LEMMA MergeAlike ==
  ASSUME NEW d, NEW d0, NEW r, NEW cmd, NEW x, NEW C, NEW P, NEW V, Covers(d, r, cmd, x, C, P, V),
         Alike(d, d0, d, d0, C, P, V), Same(d, d0, r, cmd, x), cmd.action = "MERGE_PERSON"
  PROVE  Alike(d, d0, Effect(d, d, x, r, cmd), Effect(d0, d0, x, r, cmd), C, P, V)
<1> DEFINE e == Effect(d, d, x, r, cmd)
           e0 == Effect(d0, d0, x, r, cmd)
           t == cmd.person
           cs == ClaimsOf(d, x)
           ids == New(r, cs)
<1>1. SamePerson(d, d0, x)
  BY GoneAlike
<1>2. MayMerge(d, x, t) /\ e = Merge(d, d, x, t, r) /\ e0 = Merge(d0, d0, x, t, r)
  BY DEF Same, Accepts, Effect, Reviewing
<1>3. t # x /\ t \in DOMAIN d.person /\ t \in DOMAIN d0.person /\ d.person[t] = d0.person[t]
  <2>1. t \in PeopleRead(d, cmd, x)
    BY DEF PeopleRead
  <2> QED
    BY <1>2, <2>1 DEF Same, Kept, MayMerge
<1>4. {x, t} \subseteq P /\ cs \subseteq C /\ ids \subseteq C
  BY DEF Covers, ClaimsRead, PeopleRead, New
<1> HIDE DEF e, e0
<1>5. Merged(d, e, x, t, r) /\ Merged(d0, e0, x, t, r)
  BY <1>1, <1>2, <1>3, MergeWrites DEF Same, SamePerson, Consistent
<1>6. cs = ClaimsOf(d0, x)
  BY <1>1 DEF SamePerson
<1>7. Tied(d.claim, d0.claim, e.claim, e0.claim, C)
  <2>1. \A i \in ids : i \notin DOMAIN d.claim /\ i \notin DOMAIN d0.claim
    BY DEF Same, Fresh, Ids, New
  <2>2. /\ DOMAIN e.claim = DOMAIN d.claim \cup ids /\ DOMAIN e0.claim = DOMAIN d0.claim \cup ids
        /\ \A c \in DOMAIN d.claim :
             e.claim[c] = IF c \in cs THEN [d.claim[c] EXCEPT !.live = FALSE] ELSE d.claim[c]
        /\ \A c \in DOMAIN d0.claim :
             e0.claim[c] = IF c \in cs THEN [d0.claim[c] EXCEPT !.live = FALSE] ELSE d0.claim[c]
    BY <1>5, <1>6, <2>1 DEF Merged
  <2>3. \A i \in ids : e.claim[i] = e0.claim[i]
    <3> SUFFICES ASSUME NEW c \in cs PROVE e.claim[<<r, c>>] = e0.claim[<<r, c>>]
      BY DEF New
    <3>1. e.claim[<<r, c>>] = [d.claim[c] EXCEPT !.subject = t]
      BY <1>5 DEF Merged
    <3>2. e0.claim[<<r, c>>] = [d0.claim[c] EXCEPT !.subject = t]
      BY <1>5, <1>6 DEF Merged
    <3>3. d.claim[c] = d0.claim[c]
      BY <1>1 DEF SamePerson
    <3> QED
      BY <3>1, <3>2, <3>3
  <2> HIDE DEF cs, ids
  <2>4. Agree(d.claim, d0.claim, C)
    BY DEF Alike, Tied
  <2>5. Agree(e.claim, e0.claim, C)
    <3> SUFFICES ASSUME NEW c \in C
                 PROVE  /\ c \in DOMAIN e.claim <=> c \in DOMAIN e0.claim
                        /\ c \in DOMAIN e.claim => e.claim[c] = e0.claim[c]
      BY DEF Agree
    <3>1. CASE c \in ids
      BY <2>2, <2>3, <3>1
    <3>2. CASE c \notin ids
      BY <2>2, <2>4, <3>2 DEF Agree
    <3> QED
      BY <3>1, <3>2
  <2>6. \A c \in DOMAIN e.claim \ C : c \in DOMAIN d.claim /\ e.claim[c] = d.claim[c]
    BY <1>4, <2>2
  <2>7. \A c \in DOMAIN e0.claim \ C : c \in DOMAIN d0.claim /\ e0.claim[c] = d0.claim[c]
    BY <1>4, <2>2
  <2> QED
    BY <2>4, <2>5, <2>6, <2>7 DEF Tied
<1>8. Tied(d.person, d0.person, e.person, e0.person, P)
  <2>1. /\ DOMAIN e.person = DOMAIN d.person /\ DOMAIN e0.person = DOMAIN d0.person
        /\ \A p \in DOMAIN d.person \ {x, t} : e.person[p] = d.person[p]
        /\ \A p \in DOMAIN d0.person \ {x, t} : e0.person[p] = d0.person[p]
    BY <1>5 DEF Merged
  <2>2. e.person[x] = e0.person[x] /\ e.person[t] = e0.person[t]
    BY <1>1, <1>3, <1>5 DEF Merged, SamePerson
  <2> QED
    BY <1>4, <2>1, <2>2, TiedRewritten DEF Alike
<1>9. e.link \ d.link = e0.link \ d0.link
  <2>1. e.link = Without(d, x) \cup Moved(d, x, t, r) /\ e0.link = Without(d0, x) \cup Moved(d0, x, t, r)
    BY <1>5 DEF Merged
  <2>2. /\ Without(d, x) \ d.link = {Ended(l) : l \in LinksOf(d, x)}
        /\ Without(d0, x) \ d0.link = {Ended(l) : l \in LinksOf(d0, x)}
    BY EndedAreNew DEF Same, Consistent
  <2>3. ASSUME NEW m \in LinksOf(d, x) PROVE Linked(d, t, m.row) <=> Linked(d0, t, m.row)
    <3>1. \A b : {l \in LinksOf(b, t) : \E n \in LinksOf(b, x) : n.row = l.row} \subseteq LinksRead(b, cmd, x)
      BY DEF LinksRead, Reviewing
    <3>2. /\ {l \in LinksOf(d, t) : \E n \in LinksOf(d, x) : n.row = l.row} \subseteq d0.link
          /\ {l \in LinksOf(d0, t) : \E n \in LinksOf(d0, x) : n.row = l.row} \subseteq d.link
      BY <3>1 DEF Same, Kept
    <3> QED
      BY <1>1, <2>3, <3>2 DEF Linked, LinksOn, LinksOf, SamePerson
  <2>4. {m \in LinksOf(d, x) : ~ Linked(d, t, m.row)} = {m \in LinksOf(d0, x) : ~ Linked(d0, t, m.row)}
    BY <1>1, <2>3 DEF SamePerson
  <2>5. Moved(d, x, t, r) = Moved(d0, x, t, r)
    BY <2>4 DEF Moved
  <2>6. \A l \in Moved(d, x, t, r) : l \notin d.link /\ l \notin d0.link
    <3>1. \A l \in Moved(d, x, t, r) : l.id[1] = r
      BY DEF Moved, Link
    <3> QED
      BY <3>1 DEF Same, Fresh, Ids
  <2> QED
    BY <1>1, <2>1, <2>2, <2>5, <2>6 DEF SamePerson
<1>10. e.review = d.review /\ e0.review = d0.review /\ DOMAIN e = Tables /\ DOMAIN e0 = Tables
  BY <1>5 DEF Merged
<1> QED
  BY <1>7, <1>8, <1>9, <1>10 DEF Alike, e, e0

(* A command that reads the same of two databases changes them the same.   *)
LEMMA PlanShows ==
  ASSUME NEW d, Consistent(d), NEW d0, Consistent(d0), NEW r, Fresh(d, r), Fresh(d0, r),
         NEW cmd, Shape(cmd), Permitted(d, cmd), Permitted(d0, cmd), Reads(d, cmd) = Reads(d0, cmd)
  PROVE  Changes(d, Planned(d, r, cmd)) = Changes(d0, Planned(d0, r, cmd))
<1> DEFINE T == Range(cmd.targets)
           Cs == UNION {ClaimsRead(d, cmd, x) : x \in T}
           C == Cs \cup New(r, Cs \cup T)
           P == (UNION {PeopleRead(d, cmd, x) : x \in T}) \cup New(r, T)
           V == UNION {ReviewsRead(d, cmd, x) : x \in T}
<1>1. \A x \in T : Kept(d, d0, cmd, x) /\ Kept(d0, d, cmd, x)
  BY ReadsAgree
<1>2. \A x \in T : Same(d, d0, r, cmd, x)
  BY <1>1 DEF Same, Permitted
<1>3. \A x \in T : Covers(d, r, cmd, x, C, P, V)
  BY DEF Covers, New
<1>4. Alike(d, d0, d, d0, C, P, V)
  <2>1. \A y : <<r, y>> \notin Ids(d) /\ <<r, y>> \notin Ids(d0)
    BY DEF Fresh
  <2>2. \A i \in New(r, Cs \cup T) \cup New(r, T) :
          i \notin DOMAIN d.claim /\ i \notin DOMAIN d0.claim /\ i \notin DOMAIN d.person /\ i \notin DOMAIN d0.person
    BY <2>1 DEF New, Ids
  <2>3. Agree(d.claim, d0.claim, C)
    <3>1. \A c \in Cs : c \in DOMAIN d.claim /\ c \in DOMAIN d0.claim /\ d.claim[c] = d0.claim[c]
      BY <1>1 DEF Kept
    <3> HIDE DEF Cs, T
    <3> QED
      BY <2>2, <3>1 DEF Agree
  <2>4. Agree(d.person, d0.person, P)
    <3> DEFINE Ps == UNION {PeopleRead(d, cmd, x) : x \in T}
    <3>1. \A p \in Ps : p \in DOMAIN d.person /\ p \in DOMAIN d0.person /\ d.person[p] = d0.person[p]
      BY <1>1 DEF Kept
    <3>2. P = Ps \cup New(r, T)
      OBVIOUS
    <3> HIDE DEF Ps, P, Cs, T
    <3> QED
      BY <2>2, <3>1, <3>2 DEF Agree
  <2>5. Agree(d.review, d0.review, V)
    <3>1. DOMAIN d.review = Rows /\ DOMAIN d0.review = Rows
      BY DEF Consistent, Typed
    <3> QED
      BY <1>1, <3>1 DEF Kept, Agree
  <2> HIDE DEF C, P, V
  <2> QED
    BY <2>3, <2>4, <2>5, AlikeStart DEF Consistent
<1> HIDE DEF C, P, V
<1>5. Alike(d, d0, Planned(d, r, cmd), Planned(d0, r, cmd), C, P, V)
  <2>1. CASE cmd.action \in Batched
    <3>1. ASSUME NEW a, NEW a0, NEW x \in T, Alike(d, d0, a, a0, C, P, V)
          PROVE  Alike(d, d0, Effect(d, a, x, r, cmd), Effect(d0, a0, x, r, cmd), C, P, V)
      <4>1. Same(d, d0, r, cmd, x) /\ Covers(d, r, cmd, x, C, P, V)
        BY <1>2, <1>3
      <4> HIDE DEF T
      <4>2. CASE cmd.action \in Reviewing
        BY <3>1, <4>1, <4>2, ReviewAlike
      <4>3. CASE cmd.action = "REGISTER_PERSON"
        BY <3>1, <4>1, <4>3, RegisterAlike
      <4>4. CASE cmd.action = "SUBMIT_REVIEW"
        BY <3>1, <4>1, <4>4, SubmitAlike
      <4>5. CASE cmd.action = "PUBLISH"
        BY <3>1, <4>1, <4>5, PublishAlike
      <4>6. CASE cmd.action = "WITHDRAW"
        BY <3>1, <4>1, <4>6, WithdrawAlike
      <4> QED
        BY <2>1, <4>2, <4>3, <4>4, <4>5, <4>6 DEF Batched, Reviewing
    <3> QED
      BY <1>4, <3>1, AlikePlan
  <2>2. CASE cmd.action \notin Batched
    <3> DEFINE x == cmd.targets[1]
    <3>1. /\ Planned(d, r, cmd) = Effect(d, d, x, r, cmd) /\ Planned(d0, r, cmd) = Effect(d0, d0, x, r, cmd)
          /\ x \in T
      BY <2>2, SingleTarget
    <3>2. Same(d, d0, r, cmd, x) /\ Covers(d, r, cmd, x, C, P, V)
      BY <1>2, <1>3, <3>1
    <3> HIDE DEF x, T
    <3>3. CASE cmd.action = "LINK_PERSON"
      BY <1>4, <3>1, <3>2, <3>3, LinkAlike
    <3>4. CASE cmd.action = "CORRECT_CLAIM"
      BY <1>4, <3>1, <3>2, <3>4, CorrectAlike
    <3>5. CASE cmd.action = "RESOLVE_PERSON"
      BY <1>4, <3>1, <3>2, <3>5, ResolveAlike
    <3>6. CASE cmd.action = "RENAME_PERSON"
      BY <1>4, <3>1, <3>2, <3>6, RenameAlike
    <3>7. CASE cmd.action = "DEACTIVATE_PERSON"
      BY <1>4, <3>1, <3>2, <3>7, DeactivateAlike
    <3>8. CASE cmd.action = "MERGE_PERSON"
      BY <1>4, <3>1, <3>2, <3>8, MergeAlike
    <3> QED
      BY <2>2, <3>3, <3>4, <3>5, <3>6, <3>7, <3>8 DEF Shape, Actions
  <2> QED
    BY <2>1, <2>2
<1> QED
  BY <1>5, AlikeChanges

\* What preview p shows is the work of a plan, on a database that reads as the
\* preview does.
Previewed(p) ==
  \E d : /\ Consistent(d) /\ Fresh(d, p.request) /\ Permitted(d, p.cmd)
         /\ Reads(d, p.cmd) = p.reads
         /\ Changes(d, Planned(d, p.request, p.cmd)) = p.shown

Honest == Safe /\ \A a \in Actors : desk[a] # None => Previewed(desk[a])

LEMMA HonestPreview ==
  ASSUME Honest, NEW a \in Actors, Preview(a)
  PROVE  Honest'
<1>1. PICK cmd :
        /\ Permitted(db, cmd)
        /\ desk' = [desk EXCEPT ![a] =
             [request |-> NextRequest, cmd |-> cmd, reads |-> Reads(db, cmd),
              shown |-> Changes(db, Planned(db, NextRequest, cmd))]]
  BY DEF Preview
<1> DEFINE p == [request |-> NextRequest, cmd |-> cmd, reads |-> Reads(db, cmd),
                 shown |-> Changes(db, Planned(db, NextRequest, cmd))]
<1>2. NextRequest \in Requests /\ NextRequest \notin Requested
  BY NextIsNew DEF Preview, Honest, Safe
<1>3. Fresh(db, NextRequest)
  BY <1>2 DEF Requested, Honest, Safe, Unmade
<1>4. Consistent(db)
  BY DEF Honest, Safe
<1>5. Previewed(p)
  BY <1>1, <1>3, <1>4 DEF Previewed
<1> HIDE DEF p
<1>6. desk' = [desk EXCEPT ![a] = p]
  BY <1>1 DEF p
<1>7. Safe'
  BY SafePreview DEF Honest
<1>8. DOMAIN desk = Actors
  BY DEF Honest, Safe, Desks
<1>9. \A b \in Actors : desk'[b] # None => Previewed(desk'[b])
  BY <1>5, <1>6, <1>8 DEF Honest
<1> QED
  BY <1>7, <1>9 DEF Honest

LEMMA HonestNext ==
  ASSUME Honest, [Next]_vars
  PROVE  Honest'
<1>1. Safe'
  BY SafeNext DEF Honest
<1>2. ASSUME \A b \in Actors : desk'[b] = desk[b] \/ desk'[b] = None PROVE Honest'
  <2>1. \A b \in Actors : desk'[b] # None => Previewed(desk'[b])
    BY <1>2 DEF Honest
  <2> QED
    BY <1>1, <2>1 DEF Honest
<1>3. DOMAIN desk = Actors
  BY DEF Honest, Safe, Desks
<1>4. ASSUME NEW a \in Actors, Preview(a) PROVE Honest'
  BY <1>4, HonestPreview
<1>5. ASSUME NEW a \in Actors, Close(a) \/ Commit(a) \/ Replay(a) PROVE Honest'
  <2>1. desk' = [desk EXCEPT ![a] = None] \/ desk' = desk
    BY <1>5 DEF Close, Commit, Replay
  <2>2. \A b \in Actors : desk'[b] = desk[b] \/ desk'[b] = None
    BY <1>3, <2>1
  <2> QED
    BY <1>2, <2>2
<1>6. CASE Materialize \/ UNCHANGED vars
  <2>1. desk' = desk
    BY <1>6 DEF Materialize, vars
  <2> QED
    BY <1>2, <2>1
<1> QED
  BY <1>4, <1>5, <1>6 DEF Next

LEMMA HonestAlways == Spec => []Honest
<1>1. Init => Honest
  BY SafeInit DEF Init, Honest
<1>2. Honest /\ [Next]_vars => Honest'
  BY HonestNext
<1> QED
  BY <1>1, <1>2, PTL DEF Spec

(* Whatever operators write is what one of them was shown and confirmed,   *)
(* once, under a new receipt, whoever else writes between a preview and    *)
(* its commit; only the batch writes without one.                          *)
THEOREM PreviewsAreHonored == Spec => PreviewHonored
<1> DEFINE Imported == /\ receipt' = receipt
                       /\ \A p \in DOMAIN db'.person \ DOMAIN db.person : p[1] = Batch
                       /\ DOMAIN db.person # DOMAIN db'.person
           Confirmed(a) ==
             /\ desk[a] # None
             /\ desk[a].request \notin DOMAIN receipt
             /\ receipt' = Put(receipt, desk[a].request, [actor |-> a, cmd |-> desk[a].cmd])
             /\ Changes(db, db') = desk[a].shown
           Explained == db' # db => Imported \/ \E a \in Actors : Confirmed(a)
<1>1. ASSUME Honest, [Next]_vars PROVE [Explained]_vars
  <2>1. ASSUME NEW a \in Actors, Commit(a) PROVE Explained
    <3> DEFINE r == desk[a].request
               cmd == desk[a].cmd
    <3>1. /\ desk[a] # None /\ r \notin DOMAIN receipt
          /\ receipt' = Put(receipt, r, [actor |-> a, cmd |-> cmd])
          /\ db' = Planned(db, r, cmd)
          /\ Permitted(db, cmd) /\ Reads(db, cmd) = desk[a].reads
      BY <2>1 DEF Commit, Current
    <3>2. Shape(cmd) /\ r \in Requests /\ Consistent(db)
      BY <1>1, <3>1 DEF Honest, Safe, Desks
    <3>3. Fresh(db, r)
      BY <1>1, <3>1, <3>2 DEF Honest, Safe, Unmade
    <3>4. PICK d : /\ Consistent(d) /\ Fresh(d, r) /\ Permitted(d, cmd)
                   /\ Reads(d, cmd) = desk[a].reads
                   /\ Changes(d, Planned(d, r, cmd)) = desk[a].shown
      BY <1>1, <3>1 DEF Honest, Previewed
    <3> HIDE DEF r, cmd
    <3>5. Changes(db, db') = desk[a].shown
      BY <3>1, <3>2, <3>3, <3>4, PlanShows
    <3>6. Confirmed(a)
      BY <3>1, <3>5 DEF r, cmd
    <3> HIDE DEF Confirmed, Imported
    <3> QED
      BY <3>6
  <2>2. CASE Materialize
    <3> DEFINE rows == Creatable(db)
               ids == New(Batch, rows)
    <3>1. DOMAIN db = Tables
      BY <1>1 DEF Honest, Safe, Consistent, Typed, Tables
    <3>2. receipt' = receipt /\ rows # {} /\ Materialized(db, db', rows)
      BY <2>2 DEF Materialize, Materialized
    <3>3. \A row \in rows : <<Batch, row>> \notin DOMAIN db.person
      BY DEF Creatable
    <3> HIDE DEF rows
    <3>4. DOMAIN db'.person = DOMAIN db.person \cup ids
      BY <3>1, <3>2 DEF Materialized, PutAll, New, Tables
    <3>5. \A i \in ids : i[1] = Batch
      BY DEF New
    <3>6. \E i \in ids : i \notin DOMAIN db.person
      BY <3>2, <3>3 DEF New
    <3> HIDE DEF ids
    <3>7. Imported
      BY <3>2, <3>4, <3>5, <3>6
    <3> HIDE DEF Imported, Confirmed
    <3> QED
      BY <3>7
  <2>3. ASSUME UNCHANGED db PROVE Explained
    BY <2>3
  <2> HIDE DEF Explained
  <2> QED
    BY <1>1, <2>1, <2>2, <2>3 DEF Next, Preview, Close, Replay, vars
<1> QED
  BY <1>1, HonestAlways, PTL DEF Spec, PreviewHonored
==============================================================================
