----------------------- MODULE RelationshipGraphProofs -----------------------
(***************************************************************************)
(* Proofs about RelationshipGraph and the projection it is built from, for *)
(* all people, texts and days, and whatever commits beside a request.      *)
(***************************************************************************)
EXTENDS RelationshipGraph, FiniteSetTheorems, WellFoundedInduction, TLAPS

(* Whether two periods overlap does not depend on which is asked about.    *)
LEMMA OverlapSymmetric ==
  ASSUME NEW p, NEW q
  PROVE  Overlap(p, q) = Overlap(q, p)
<1>1. (p.captures \cap q.captures # {}) <=> (q.captures \cap p.captures # {})
  BY Zenon
<1>2. Meet(Interval(p), Interval(q)) <=> Meet(Interval(q), Interval(p))
  BY Zenon DEF Meet
<1> QED
  BY <1>1, <1>2, Zenon DEF Overlap

(* What derive_pair makes of two affiliations is the same in either order. *)
LEMMA DerivedSymmetric ==
  ASSUME NEW l, NEW r, Who(l.claim) \in Nat, Who(r.claim) \in Nat, Derivable(l, r)
  PROVE  Derivable(r, l) /\ Derived(l, r) = Derived(r, l)
<1>1. {l, r} = {r, l}
  OBVIOUS
<1>2. Witnesses(l, r) = Witnesses(r, l)
  BY <1>1 DEF Witnesses
<1>3. Derivable(r, l)
  BY <1>1, <1>2, Zenon DEF Derivable
<1>4. Who(l.claim) # Who(r.claim) /\ l # r
  BY DEF Derivable
<1>5. Overlap(PeriodOf(l), PeriodOf(r)) = Overlap(PeriodOf(r), PeriodOf(l))
  BY OverlapSymmetric
<1>6. CASE Witnesses(l, r) # {}
  <2>1. PICK a \in {l, r} : Lane(a) = "COMMITTEE"
    <3>1. Cardinality({a \in {l, r} : Lane(a) = "COMMITTEE"}) = 1
      BY <1>6 DEF Derivable
    <3> QED
      BY <3>1, FS_EmptySet
  <2>2. Member(l, r) = Member(r, l)
    BY <1>1, Zenon DEF Member
  <2>3. Member(l, r) \in {l, r}
    BY <2>1 DEF Member
  <2>4. Other(l, r, Member(l, r)) = Other(r, l, Member(r, l))
    BY <1>4, <2>2, <2>3 DEF Other
  <2> QED
    BY <1>2, <1>3, <1>6, <2>2, <2>4, Zenon DEF Derived, WitnessRequest
<1>7. CASE Witnesses(l, r) = {}
  <2>1. l.via.kind = r.via.kind
    BY <1>7 DEF Derivable
  <2>2. ASSUME NEW overlap PROVE Common(l, r, overlap) = Common(r, l, overlap)
    BY <1>1, <2>1, Zenon DEF Common
  <2>3. BothBound(l, r) = BothBound(r, l)
    BY Zenon DEF BothBound
  <2>4. First(l, r) = First(r, l) /\ First(l, r) \in {l, r}
    BY <1>4 DEF First
  <2>5. Other(l, r, First(l, r)) = Other(r, l, First(r, l))
    BY <1>4, <2>4 DEF Other
  <2> QED
    BY <1>2, <1>3, <1>5, <1>7, <2>2, <2>3, <2>4, <2>5, Zenon DEF Derived, SharedEntity
<1> QED
  BY <1>6, <1>7

Speaking(affs) == \A a \in affs : Who(a.claim) \in Nat

LEMMA RelationsFlip ==
  ASSUME NEW left, NEW right, NEW candidates, Speaking(left), Speaking(right)
  PROVE  Relations(left, right, candidates) = Relations(right, left, candidates)
<1>1. ASSUME NEW L, NEW R, Speaking(L), Speaking(R), NEW rel \in Relations(L, R, candidates)
      PROVE  rel \in Relations(R, L, candidates)
  <2>1. PICK x \in L \X R : /\ Derivable(x[1], x[2])
                            /\ rel = Derived(x[1], x[2])
                            /\ rel.derived \/ candidates
    BY <1>1 DEF Relations
  <2>2. Derivable(x[2], x[1]) /\ rel = Derived(x[2], x[1])
    BY <1>1, <2>1, DerivedSymmetric DEF Speaking
  <2>3. <<x[2], x[1]>> \in R \X L
    BY <2>1
  <2> DEFINE y == <<x[2], x[1]>>
  <2>4. Derivable(y[1], y[2]) /\ rel = Derived(y[1], y[2])
    BY <2>2
  <2> HIDE DEF y
  <2> QED
    BY <2>1, <2>3, <2>4 DEF Relations, y
<1> QED
  BY <1>1

(* Ends of a relation that one pair of affiliations makes.                 *)
LEMMA DerivedEnds ==
  ASSUME NEW l, NEW r, Derivable(l, r)
  PROVE  Ends(Derived(l, r)) = {l.claim, r.claim}
<1>1. CASE Witnesses(l, r) # {}
  <2>1. PICK a \in {l, r} : Lane(a) = "COMMITTEE"
    <3>1. Cardinality({a \in {l, r} : Lane(a) = "COMMITTEE"}) = 1
      BY <1>1 DEF Derivable
    <3> QED
      BY <3>1, FS_EmptySet
  <2>2. Member(l, r) \in {l, r}
    BY <2>1 DEF Member
  <2>3. {Member(l, r), Other(l, r, Member(l, r))} = {l, r}
    BY <2>2 DEF Other
  <2>4. Ends(Derived(l, r)) = {Member(l, r).claim, Other(l, r, Member(l, r)).claim}
    BY <1>1 DEF Ends, Derived, WitnessRequest
  <2> QED
    BY <2>2, <2>3, <2>4
<1>2. CASE Witnesses(l, r) = {}
  <2>1. Ends(Derived(l, r)) = {First(l, r).claim, Other(l, r, First(l, r)).claim}
    BY <1>2 DEF Ends, Derived, SharedEntity
  <2> QED
    BY <2>1 DEF First, Other
<1> QED
  BY <1>1, <1>2

(* The pages of two people agree about each other, and with a comparison   *)
(* of the two, whoever is asked about first: person_relationships_payload  *)
(* and compare_payload over one set of affiliations.                       *)
THEOREM PagesAgree ==
  ASSUME NEW p \in Nat, NEW q \in Nat, p # q, NEW affs, Speaking(affs), NEW candidates
  PROVE  /\ {rel \in RelationsFor(p, affs, candidates) : Concerns(rel, q)}
              = DirectRelations(p, q, affs, candidates)
         /\ DirectRelations(p, q, affs, candidates) = DirectRelations(q, p, affs, candidates)
<1>1. Speaking(Of(affs, p)) /\ Speaking(Of(affs, q))
  BY DEF Speaking, Of
<1>2. ASSUME NEW rel \in RelationsFor(p, affs, candidates), Concerns(rel, q)
      PROVE  rel \in DirectRelations(p, q, affs, candidates)
  <2>1. PICK x \in Of(affs, p) \X affs : /\ Derivable(x[1], x[2])
                                         /\ rel = Derived(x[1], x[2])
                                         /\ rel.derived \/ candidates
    BY <1>2 DEF RelationsFor, Relations
  <2>2. Who(x[2].claim) = q
    <3>1. Ends(rel) = {x[1].claim, x[2].claim}
      BY <2>1, DerivedEnds
    <3>2. Who(x[1].claim) = p
      BY DEF Of
    <3> QED
      BY <1>2, <3>1, <3>2 DEF Concerns
  <2>3. x \in Of(affs, p) \X Of(affs, q)
    BY <2>2 DEF Of
  <2> QED
    BY <2>1, <2>3 DEF DirectRelations, Relations
<1>3. ASSUME NEW rel \in DirectRelations(p, q, affs, candidates)
      PROVE  rel \in RelationsFor(p, affs, candidates) /\ Concerns(rel, q)
  <2>1. PICK x \in Of(affs, p) \X Of(affs, q) : /\ Derivable(x[1], x[2])
                                                /\ rel = Derived(x[1], x[2])
                                                /\ rel.derived \/ candidates
    BY <1>3 DEF DirectRelations, Relations
  <2>2. x \in Of(affs, p) \X affs
    BY DEF Of
  <2>3. Ends(rel) = {x[1].claim, x[2].claim} /\ Who(x[2].claim) = q
    BY <2>1, DerivedEnds DEF Of
  <2> QED
    BY <2>1, <2>2, <2>3 DEF RelationsFor, Relations, Concerns
<1>4. DirectRelations(p, q, affs, candidates) = DirectRelations(q, p, affs, candidates)
  BY <1>1, RelationsFlip DEF DirectRelations
<1> QED
  BY <1>2, <1>3, <1>4

-----------------------------------------------------------------------------
(* Periods *)

(* A text that states both ends of the period it is about.                 *)
States(t) ==
  /\ t.unit \in Units /\ t.endUnit \in Units
  /\ t.held.from \in Nat /\ t.held.till \in Nat /\ t.held.from <= t.held.till

LEMMA UnitHolds ==
  ASSUME NEW d \in Nat, NEW u \in Units
  PROVE  /\ FirstOf(d, u) \in Nat /\ FirstOf(d, u) <= d
         /\ LastOf(FirstOf(d, u), u) \in Nat /\ d <= LastOf(FirstOf(d, u), u)
<1> DEFINE n == UnitDays(u)
<1>1. n \in Nat \ {0}
  BY CalendarAssumption DEF Units, UnitDays
<1>2. d % n \in 0 .. n - 1 /\ d % n <= d
  BY <1>1
<1>3. FirstOf(d, u) = d - (d % n)
  BY DEF FirstOf
<1> HIDE DEF n
<1>4. FirstOf(d, u) \in Nat /\ FirstOf(d, u) <= d /\ d <= FirstOf(d, u) + n - 1
  BY <1>1, <1>2, <1>3
<1>5. FirstOf(FirstOf(d, u), u) = FirstOf(d, u)
  <2>1. (d - (d % n)) % n = 0
    BY <1>1, <1>2
  <2> QED
    BY <1>3, <1>4, <2>1 DEF FirstOf, n
<1>6. LastOf(FirstOf(d, u), u) = FirstOf(d, u) + n - 1
  BY <1>5 DEF LastOf, n
<1> QED
  BY <1>1, <1>4, <1>6

Biographical == {"EDUCATION", "CAREER", "TERM"}

(* Where both ends are stated, the interval used lies within the period    *)
(* the text is about: nothing is added by rounding to days.                *)
LEMMA IntervalWithin ==
  ASSUME NEW t, States(t), t.lane \in Biographical, Interval(Period(t)) # None
  PROVE  /\ Period(t).captures = {}
         /\ t.held.from <= Interval(Period(t)).from
         /\ Interval(Period(t)).till <= t.held.till
         /\ Interval(Period(t)).from \in Nat /\ Interval(Period(t)).till \in Nat
<1> DEFINE start == LastOf(FirstOf(t.held.from, t.unit), t.unit)
           end == FirstOf(t.held.till, t.endUnit)
<1>1. start \in Nat /\ t.held.from <= start /\ end \in Nat /\ end <= t.held.till
  BY UnitHolds DEF States
<1>2. CASE t.lane = "TERM"
  <2>1. Period(t) = [Undated EXCEPT !.start = t.held.from, !.end = t.held.till]
    BY <1>2 DEF Period
  <2>2. /\ Period(t).start = t.held.from /\ Period(t).end = t.held.till
        /\ Period(t).captures = {} /\ Period(t).ongoing = FALSE
    BY <2>1 DEF Undated
  <2>3. Interval(Period(t)) = [from |-> t.held.from, till |-> t.held.till]
    BY <2>2 DEF Interval
  <2> QED
    BY <2>2, <2>3 DEF States
<1>3. CASE t.lane \in {"EDUCATION", "CAREER"}
  <2>1. /\ Period(t).start = Bounds(t).start /\ Period(t).end = Bounds(t).end
        /\ Period(t).captures = Bounds(t).captures
    BY <1>3 DEF Period, Bounds, Undated
  <2>2. Bounds(t).captures = {}
    BY DEF Bounds, Undated
  <2>3. Bounds(t).start # None
    BY <2>1 DEF Interval
  <2>4. Bounds(t).start = start /\ Bounds(t).end = end
    BY <1>1, <2>3, NoneAssumption DEF Bounds, Undated, StatedStart, StatedEnd, States
  <2>5. Interval(Period(t)) = [from |-> start, till |-> end]
    BY <1>1, <2>1, <2>4, NoneAssumption DEF Interval
  <2> QED
    BY <1>1, <2>1, <2>2, <2>5
<1> QED
  BY <1>2, <1>3 DEF Biographical

(* temporal_overlap is right for two texts that state both ends of their   *)
(* period, to the day, the month or the year: an overlap that is verified  *)
(* from their intervals is one.                                            *)
THEOREM StatedOverlapIsReal ==
  ASSUME NEW t, NEW u, States(t), States(u), t.lane \in Biographical, u.lane \in Biographical,
         Interval(Period(t)) # None, Interval(Period(u)) # None,
         Overlap(Period(t), Period(u)) = "VERIFIED"
  PROVE  Meet(t.held, u.held)
<1>1. Period(t).captures \cap Period(u).captures = {}
  BY IntervalWithin
<1>2. Meet(Interval(Period(t)), Interval(Period(u)))
  BY <1>1 DEF Overlap
<1> QED
  BY <1>2, IntervalWithin DEF Meet, States

LEMMA Remainder ==
  ASSUME NEW n \in Nat \ {0}, NEW k \in Nat, NEW r \in 0 .. n - 1
  PROVE  (n * k + r) % n = r
<1> DEFINE x == n * k + r
           q == x \div n
           s == x % n
<1>1. n * k \in Nat /\ x \in Nat
  OBVIOUS
<1>2. q \in Nat /\ s \in 0 .. n - 1 /\ x = n * q + s
  BY <1>1
<1> HIDE DEF q, s
<1>3. CASE q = k
  BY <1>1, <1>2, <1>3 DEF s
<1>4. CASE q > k
  <2> DEFINE j == q - k - 1
  <2>1. j \in Nat /\ q = k + 1 + j
    BY <1>2, <1>4
  <2> HIDE DEF j
  <2>2. n * q = n * k + n + n * j /\ n * j \in Nat
    BY <2>1
  <2> QED
    BY <1>1, <1>2, <2>2
<1>5. CASE q < k
  <2> DEFINE j == k - q - 1
  <2>1. j \in Nat /\ k = q + 1 + j
    BY <1>2, <1>5
  <2> HIDE DEF j
  <2>2. n * k = n * q + n + n * j /\ n * j \in Nat /\ n * q \in Nat
    BY <1>2, <2>1
  <2> QED
    BY <1>1, <1>2, <2>2
<1> QED
  BY <1>2, <1>3, <1>4, <1>5

MonthStart(d) == d - (d % MonthDays)

LEMMA MonthsOrder ==
  ASSUME NEW d \in Nat, NEW e \in Nat, Month(d) < Month(e)
  PROVE  MonthStart(d) + MonthDays <= MonthStart(e)
<1>1. MonthStart(d) = MonthDays * Month(d) /\ MonthStart(e) = MonthDays * Month(e)
  BY CalendarAssumption DEF Month, MonthStart
<1>2. Month(d) \in Nat /\ Month(e) \in Nat /\ MonthDays \in Nat \ {0}
  BY CalendarAssumption DEF Month
<1> DEFINE k == Month(e) - Month(d) - 1
<1>3. k \in Nat /\ Month(e) = Month(d) + 1 + k
  BY <1>2
<1> HIDE DEF k
<1>4. MonthDays * Month(e) = MonthDays * Month(d) + MonthDays + MonthDays * k
  BY <1>2, <1>3
<1>5. MonthDays * k \in Nat /\ MonthDays * Month(d) \in Nat
  BY <1>2, <1>3
<1> QED
  BY <1>1, <1>2, <1>4, <1>5

LEMMA MonthOfUnit ==
  ASSUME NEW d \in Nat, NEW u \in {"DAY", "MONTH"}
  PROVE  /\ MonthStart(FirstOf(d, u)) = MonthStart(d)
         /\ MonthStart(LastOf(FirstOf(d, u), u)) = MonthStart(d)
         /\ FirstOf(d, u) \in Nat /\ LastOf(FirstOf(d, u), u) \in Nat
         /\ MonthStart(d) <= d /\ d < MonthStart(d) + MonthDays
<1> DEFINE m == MonthStart(d)
<1>1. MonthDays \in Nat \ {0} /\ d % MonthDays \in 0 .. MonthDays - 1 /\ d % MonthDays <= d
  BY CalendarAssumption
<1>2. m \in Nat /\ m <= d /\ d < m + MonthDays /\ m % MonthDays = 0
  BY <1>1 DEF MonthStart
<1>3. FirstOf(d, u) \in Nat /\ LastOf(FirstOf(d, u), u) \in Nat
  BY UnitHolds DEF Units
<1>4. CASE u = "DAY"
  <2>1. FirstOf(d, u) = d /\ LastOf(FirstOf(d, u), u) = d
    BY <1>4 DEF FirstOf, LastOf, UnitDays
  <2> QED
    BY <1>2, <1>3, <2>1
<1>5. CASE u = "MONTH"
  <2>1. FirstOf(d, u) = m /\ FirstOf(m, u) = m
    BY <1>2, <1>5 DEF FirstOf, UnitDays, MonthStart
  <2>2. LastOf(FirstOf(d, u), u) = m + MonthDays - 1
    BY <1>5, <2>1 DEF LastOf, UnitDays
  <2>3. (m + MonthDays - 1) % MonthDays = MonthDays - 1
    <3>1. m = MonthDays * Month(d) /\ Month(d) \in Nat
      BY <1>1 DEF MonthStart, Month
    <3>2. MonthDays - 1 \in 0 .. MonthDays - 1
      BY <1>1
    <3>3. (MonthDays * Month(d) + (MonthDays - 1)) % MonthDays = MonthDays - 1
      BY <1>1, <3>1, <3>2, Remainder
    <3> QED
      BY <1>1, <1>2, <3>1, <3>3
  <2>4. MonthStart(m) = m /\ MonthStart(m + MonthDays - 1) = m
    BY <1>1, <1>2, <2>3 DEF MonthStart
  <2> QED
    BY <1>2, <1>3, <2>1, <2>2, <2>4
<1> QED
  BY <1>4, <1>5

(* career_transitions is right for texts that state the end of the one and *)
(* the start of the other to the day or the month: the one was over before *)
(* the other began.                                                        *)
THEOREM StatedMovesAreOrdered ==
  ASSUME NEW a, NEW b, States(Text(a.claim)), States(Text(b.claim)),
         Lane(a) = "CAREER", Lane(b) = "CAREER", LeftBefore(a, b),
         Text(a.claim).endUnit # "YEAR", Text(b.claim).unit # "YEAR"
  PROVE  Text(a.claim).held.till < Text(b.claim).held.from
<1> DEFINE t == Text(a.claim)
           u == Text(b.claim)
           end == FirstOf(t.held.till, t.endUnit)
           start == LastOf(FirstOf(u.held.from, u.unit), u.unit)
<1>1. t.endUnit \in {"DAY", "MONTH"} /\ u.unit \in {"DAY", "MONTH"}
  BY DEF States, Units
<1>2. PeriodOf(a).end = Bounds(t).end /\ PeriodOf(b).start = Bounds(u).start
  BY DEF PeriodOf, Lane, Period, Bounds, Undated
<1>3. PeriodOf(a).end = end
  BY <1>2, NoneAssumption DEF LeftBefore, Bounds, Undated, StatedEnd
<1>4. PeriodOf(b).start = start
  BY <1>2, NoneAssumption DEF LeftBefore, Bounds, Undated, StatedStart
<1>5. Month(end) < Month(start)
  BY <1>3, <1>4 DEF LeftBefore
<1>6. end \in Nat /\ start \in Nat
  BY <1>1, MonthOfUnit DEF States
<1>7. MonthStart(end) + MonthDays <= MonthStart(start)
  BY <1>5, <1>6, MonthsOrder
<1>8. /\ MonthStart(end) = MonthStart(t.held.till)
      /\ MonthStart(start) = MonthStart(u.held.from)
      /\ t.held.till < MonthStart(t.held.till) + MonthDays
      /\ MonthStart(u.held.from) <= u.held.from
  BY <1>1, MonthOfUnit DEF States
<1>9. MonthStart(t.held.till) \in Int /\ MonthStart(u.held.from) \in Int /\ MonthDays \in Nat
  BY CalendarAssumption DEF MonthStart, States
<1> QED
  BY <1>7, <1>8, <1>9 DEF States

-----------------------------------------------------------------------------
(* The search for a path *)

(* What holds of 0, and of a number when it holds of the one before, holds *)
(* of every number up to n.                                                *)
LEMMA CountUp ==
  ASSUME NEW n \in Nat, NEW G, 0 \in G,
         \A i \in 1 .. n : i - 1 \in G => i \in G
  PROVE  \A i \in 0 .. n : i \in G
<1> SUFFICES ASSUME NEW k \in 0 .. n, k \notin G PROVE FALSE
  OBVIOUS
<1> DEFINE T == {i \in 0 .. n : i \notin G}
<1>1. IsWellFoundedOn(OpToRel(<, Nat), Nat)
  BY NatLessThanWellFounded
<1>2. T \subseteq Nat /\ T # {}
  OBVIOUS
<1>3. PICK x \in T : \A y \in T : ~ (<<y, x>> \in OpToRel(<, Nat))
  <2> HIDE DEF T
  <2> QED BY <1>1, <1>2, WFMin, Zenon
<1>4. x \in 1 .. n /\ x - 1 \in Nat /\ x - 1 < x /\ x - 1 \in 0 .. n
  OBVIOUS
<1>5. x - 1 \notin T
  BY <1>2, <1>3, <1>4 DEF OpToRel
<1> QED
  BY <1>4, <1>5

LEMMA Enumerates ==
  ASSUME NEW S, IsFiniteSet(S)
  PROVE  LET order == SetToSeq(S) IN
         /\ order \in Seq(S) /\ Len(order) = Cardinality(S) /\ DOMAIN order = 1 .. Cardinality(S)
         /\ Cardinality(S) \in Nat
         /\ \A i, j \in DOMAIN order : order[i] = order[j] => i = j
         /\ \A x \in S : \E i \in DOMAIN order : order[i] = x
<1> DEFINE n == Cardinality(S)
           order == SetToSeq(S)
<1>1. n \in Nat /\ ExistsBijection(1 .. n, S)
  BY FS_CardinalityType
<1>2. \E f \in [1 .. n -> S] : IsInjective(f)
  BY <1>1 DEF ExistsBijection, Bijection, Injection
<1>3. order \in [1 .. n -> S] /\ IsInjective(order)
  BY <1>2 DEF SetToSeq
<1> HIDE DEF order
<1>4. order \in Injection(1 .. n, S)
  BY <1>3 DEF Injection
<1>5. IsFiniteSet(1 .. n) /\ Cardinality(1 .. n) = n
  BY <1>1, FS_Interval
<1>6. order \in Surjection(1 .. n, S)
  <2> HIDE DEF n
  <2> QED BY <1>4, <1>5, FS_Injection DEF n
<1>7. order \in Seq(S) /\ Len(order) = n /\ DOMAIN order = 1 .. n
  <2> HIDE DEF n
  <2> QED BY <1>1, <1>3
<1>8. \A x \in S : \E i \in 1 .. n : order[i] = x
  BY <1>6 DEF Surjection
<1>9. \A i, j \in DOMAIN order : order[i] = order[j] => i = j
  BY <1>3 DEF IsInjective
<1> QED
  BY <1>1, <1>7, <1>8, <1>9 DEF order

LEMMA Elements ==
  ASSUME NEW S, NEW s \in Seq(S), s # <<>>
  PROVE  /\ Len(s) \in Nat \ {0} /\ DOMAIN s = 1 .. Len(s) /\ Head(s) = s[1]
         /\ \A i \in 1 .. Len(s) : s[i] \in S
OBVIOUS

LEMMA Widen ==
  ASSUME NEW S, NEW T, S \subseteq T, NEW s \in Seq(S)
  PROVE  s \in Seq(T)
OBVIOUS

LEMMA Joined ==
  ASSUME NEW S, NEW v \in Seq(S), NEW u \in Seq(S)
  PROVE  /\ v \o u \in Seq(S) /\ Len(v \o u) = Len(v) + Len(u)
         /\ DOMAIN (v \o u) = 1 .. Len(v) + Len(u)
         /\ \A i \in 1 .. Len(v) : (v \o u)[i] = v[i]
         /\ \A i \in 1 .. Len(u) : (v \o u)[Len(v) + i] = u[i]
OBVIOUS

LEMMA Shifted ==
  ASSUME NEW S, NEW s \in Seq(S), NEW u \in Seq(S), s # <<>>, NEW t, t = Tail(s) \o u
  PROVE  /\ t \in Seq(S) /\ Len(t) = Len(s) - 1 + Len(u) /\ DOMAIN t = 1 .. Len(s) - 1 + Len(u)
         /\ \A i \in 1 .. Len(s) - 1 : t[i] = s[i + 1]
         /\ \A i \in 1 .. Len(u) : t[Len(s) - 1 + i] = u[i]
<1> DEFINE v == Tail(s)
<1>1. v \in Seq(S) /\ Len(v) = Len(s) - 1 /\ \A i \in 1 .. Len(s) - 1 : v[i] = s[i + 1]
  OBVIOUS
<1>0. t = v \o u
  OBVIOUS
<1> HIDE DEF v
<1>2. /\ t \in Seq(S) /\ Len(t) = Len(v) + Len(u) /\ DOMAIN t = 1 .. Len(v) + Len(u)
      /\ \A i \in 1 .. Len(v) : t[i] = v[i]
      /\ \A i \in 1 .. Len(u) : t[Len(v) + i] = u[i]
  <2>1. /\ t \in Seq(S) /\ Len(t) = Len(v) + Len(u) /\ DOMAIN t = 1 .. Len(v) + Len(u)
        /\ \A i \in 1 .. Len(v) : t[i] = v[i]
    BY <1>0, <1>1, Joined
  <2>2. \A i \in 1 .. Len(u) : t[Len(v) + i] = u[i]
    BY <1>0, <1>1, Joined
  <2> QED BY <2>1, <2>2
<1> QED
  BY <1>1, <1>2 DEF v

\* Edges between two nodes, which may be the same.
Pairs(edges) == \A e \in edges : \E a, b : e.ends = {a, b}
Nodes(edges) == UNION {e.ends : e \in edges}

LEMMA AcrossIs ==
  ASSUME NEW edges, Pairs(edges), NEW e \in edges, NEW x \in e.ends
  PROVE  e.ends = {x, Across(e, x)}
<1>1. PICK a, b : e.ends = {a, b}
  BY DEF Pairs
<1>2. CASE e.ends = {x}
  BY <1>2 DEF Across
<1>3. CASE e.ends # {x}
  <2>1. \E n \in e.ends : n # x
    BY <1>1, <1>3
  <2>2. Across(e, x) \in e.ends /\ Across(e, x) # x
    BY <1>3, <2>1 DEF Across
  <2> QED BY <1>1, <2>2
<1> QED BY <1>2, <1>3

(* How far from the origin a search has met each node: by a chain of edges *)
(* as long as that; nodes still queued stand in the order of their         *)
(* distances, and what is next to a node that is not has been met.         *)
Measured(s, d, origin, edges, max) ==
  LET met == DOMAIN s.previous IN
  /\ origin \in met /\ d \in [met -> 0 .. max] /\ d[origin] = 0
  /\ s.previous[origin] = <<>> /\ met \subseteq Nodes(edges)
  /\ \A x \in met \ {origin} : \E y \in met, e \in edges :
       s.previous[x] = <<y, e>> /\ e.ends = {x, y} /\ d[x] = d[y] + 1
Queued(s, d) ==
  /\ s.queue \in Seq([node : DOMAIN s.previous, depth : Nat])
  /\ \A i \in DOMAIN s.queue : s.queue[i].depth = d[s.queue[i].node]
  /\ \A i, j \in DOMAIN s.queue : s.queue[i].node = s.queue[j].node => i = j
  /\ \A i, j \in DOMAIN s.queue :
       /\ i <= j => s.queue[i].depth <= s.queue[j].depth
       /\ s.queue[j].depth <= s.queue[1].depth + 1
Past(s, x) == x \in DOMAIN s.previous /\ \A i \in DOMAIN s.queue : s.queue[i].node # x
Explored(s, d, target, edges, max) ==
  \A x : Past(s, x) =>
    /\ x # target
    /\ \A i \in DOMAIN s.queue : d[x] <= s.queue[i].depth
    /\ d[x] < max => \A e \in edges : x \in e.ends =>
                       \A y \in e.ends : y \in DOMAIN s.previous /\ d[y] <= d[x] + 1
Search1(s, d, origin, target, edges, max) ==
  /\ Measured(s, d, origin, edges, max)
  /\ Queued(s, d)
  /\ Explored(s, d, target, edges, max)

\* Turns that were not in vain.
Turned(s) == Cardinality(DOMAIN s.previous) - Len(s.queue)

LEMMA TurnDoes ==
  ASSUME NEW edges, Pairs(edges), IsFiniteSet(Nodes(edges)), NEW origin, NEW target, NEW max \in Nat,
         NEW s, NEW d, Search1(s, d, origin, target, edges, max),
         s.queue # <<>>, Head(s.queue).node # target
  PROVE  LET t == Turn(s, edges, target, max) IN
         /\ \E f : Search1(t, f, origin, target, edges, max)
         /\ Turned(t) = Turned(s) + 1
<1> DEFINE met == DOMAIN s.previous
           node == Head(s.queue).node
           depth == Head(s.queue).depth
           new == IF Extends(depth, max)
                  THEN {Across(e, node) : e \in Around(edges, node)} \ met ELSE {}
           order == SetToSeq(new)
           more == [i \in DOMAIN order |-> [node |-> order[i], depth |-> depth + 1]]
           t == Turn(s, edges, target, max)
           f == [n \in met \cup new |-> IF n \in new THEN depth + 1 ELSE d[n]]
           L == Len(s.queue)
           m == Cardinality(new)
<1>0. Measured(s, d, origin, edges, max) /\ Queued(s, d) /\ Explored(s, d, target, edges, max)
  BY DEF Search1
<1>1. /\ s.queue \in Seq([node : met, depth : Nat]) /\ L \in Nat \ {0} /\ DOMAIN s.queue = 1 .. L
      /\ node \in met /\ depth \in Nat /\ depth = d[node] /\ depth <= max /\ node # target
      /\ node = s.queue[1].node /\ depth = s.queue[1].depth
  <2>1. s.queue \in Seq([node : met, depth : Nat])
    BY <1>0 DEF Queued
  <2>2. L \in Nat \ {0} /\ DOMAIN s.queue = 1 .. L /\ Head(s.queue) = s.queue[1]
    BY <2>1, Elements
  <2>3. s.queue[1] \in [node : met, depth : Nat]
    <3> DEFINE R == [node : met, depth : Nat]
    <3> HIDE DEF R
    <3>1. s.queue[1] \in R
      <4>1. s.queue \in Seq(R)
        BY <2>1 DEF R
      <4> QED BY <2>2, <4>1, Elements
    <3> QED BY <3>1 DEF R
  <2>4. d[node] \in 0 .. max /\ depth = d[node]
    <3>1. node = s.queue[1].node /\ depth = s.queue[1].depth /\ 1 \in DOMAIN s.queue /\ node \in met
      BY <2>2, <2>3
    <3> HIDE DEF node, depth, met
    <3>2. depth = d[node]
      BY <1>0, <3>1 DEF Queued
    <3>3. d[node] \in 0 .. max
      BY <1>0, <3>1 DEF Measured, met
    <3> QED BY <3>2, <3>3
  <2> QED BY <2>1, <2>2, <2>3, <2>4
<1>2. /\ new \cap met = {} /\ new \subseteq Nodes(edges)
      /\ \A n \in new : depth < max /\ \E e \in Around(edges, node) : Across(e, node) = n
      /\ \A e \in edges : node \in e.ends /\ depth < max => \A y \in e.ends : y \in met \cup new
  <2>1. \A e \in Around(edges, node) : e \in edges /\ node \in e.ends /\ e.ends = {node, Across(e, node)}
    BY AcrossIs DEF Around
  <2>2. \A n \in new : depth < max /\ n \notin met /\ \E e \in Around(edges, node) : Across(e, node) = n
    BY DEF Extends
  <2>3. ASSUME NEW e \in edges, node \in e.ends, depth < max, NEW y \in e.ends
        PROVE  y \in met \cup new
    <3>1. e \in Around(edges, node) /\ y \in {node, Across(e, node)}
      BY <2>1, <2>3 DEF Around
    <3> QED BY <1>1, <2>3, <3>1 DEF Extends
  <2>4. new \subseteq Nodes(edges)
    <3> HIDE DEF new
    <3> QED BY <2>1, <2>2 DEF Nodes
  <2> HIDE DEF new
  <2> QED BY <2>2, <2>3, <2>4
<1>3. t = [queue |-> Tail(s.queue) \o more,
           previous |-> [n \in met \cup new |->
             IF n \in new THEN <<node, CHOOSE e \in Around(edges, node) : Across(e, node) = n>>
             ELSE s.previous[n]]]
  BY Zenon DEF Turn
<1> HIDE DEF t, new, node, depth
<1>4. IsFiniteSet(new) /\ m \in Nat
  BY <1>2, FS_Subset, FS_CardinalityType
<1>5. /\ order \in Seq(new) /\ Len(order) = m /\ DOMAIN order = 1 .. m
      /\ \A i, j \in DOMAIN order : order[i] = order[j] => i = j
      /\ \A x \in new : \E i \in DOMAIN order : order[i] = x
  BY <1>4, Enumerates, Zenon
<1> HIDE DEF order, m, f
<1>6. /\ DOMAIN t.previous = met \cup new
      /\ \A n \in met : t.previous[n] = s.previous[n]
      /\ \A n \in new : \E e \in edges : t.previous[n] = <<node, e>> /\ e.ends = {n, node}
  <2>1. \A n \in met : n \notin new
    BY <1>2
  <2>2. ASSUME NEW n \in new
        PROVE  \E e \in edges : t.previous[n] = <<node, e>> /\ e.ends = {n, node}
    <3> DEFINE e == CHOOSE e \in Around(edges, node) : Across(e, node) = n
    <3>1. e \in Around(edges, node) /\ Across(e, node) = n
      BY <1>2
    <3>2. t.previous[n] = <<node, e>>
      BY <1>3
    <3> HIDE DEF e
    <3>3. e \in edges /\ node \in e.ends
      BY <3>1 DEF Around
    <3>4. e.ends = {node, n}
      BY <3>1, <3>3, AcrossIs
    <3> QED BY <3>2, <3>3, <3>4
  <2> QED BY <1>3, <2>1, <2>2
<1>7. /\ t.queue \in Seq([node : met \cup new, depth : Nat]) /\ Len(t.queue) = L - 1 + m
      /\ DOMAIN t.queue = 1 .. L - 1 + m
      /\ \A i \in 1 .. L - 1 : t.queue[i] = s.queue[i + 1]
      /\ \A i \in 1 .. m : t.queue[L - 1 + i].node = order[i] /\ t.queue[L - 1 + i].depth = depth + 1
  <2> DEFINE R == [node : met \cup new, depth : Nat]
  <2>1. t.queue = Tail(s.queue) \o more
    BY <1>3
  <2>2. \A i \in 1 .. m : more[i] = [node |-> order[i], depth |-> depth + 1]
    BY <1>5
  <2>3. more \in Seq(R) /\ Len(more) = m
    <3>1. \A i \in 1 .. m : order[i] \in new
      BY <1>5
    <3>2. more = [i \in 1 .. m |-> [node |-> order[i], depth |-> depth + 1]]
      BY <1>5
    <3>3. \A i \in 1 .. m : [node |-> order[i], depth |-> depth + 1] \in R
      BY <1>1, <3>1
    <3> HIDE DEF more, R
    <3> QED BY <1>4, <3>2, <3>3
  <2>4. s.queue \in Seq(R)
    <3>1. [node : met, depth : Nat] \subseteq R
      OBVIOUS
    <3> HIDE DEF R
    <3> QED BY <1>1, <3>1, Widen
  <2> HIDE DEF more, R
  <2>5. /\ t.queue \in Seq(R) /\ Len(t.queue) = L - 1 + m
        /\ DOMAIN t.queue = 1 .. L - 1 + m
        /\ \A i \in 1 .. L - 1 : t.queue[i] = s.queue[i + 1]
        /\ \A i \in 1 .. m : t.queue[L - 1 + i] = more[i]
    <3> DEFINE q == s.queue
               r == t.queue
    <3>1. q \in Seq(R) /\ q # <<>> /\ more \in Seq(R) /\ r = Tail(q) \o more
      BY <2>1, <2>3, <2>4
    <3> HIDE DEF q, r
    <3>2. /\ r \in Seq(R) /\ Len(r) = Len(q) - 1 + Len(more)
          /\ DOMAIN r = 1 .. Len(q) - 1 + Len(more)
          /\ \A i \in 1 .. Len(q) - 1 : r[i] = q[i + 1]
      BY <3>1, Shifted
    <3>3. \A i \in 1 .. Len(more) : r[Len(q) - 1 + i] = more[i]
      BY <3>1, Shifted
    <3> QED BY <2>3, <3>2, <3>3 DEF q, r
  <2>6. ASSUME NEW i \in 1 .. m
        PROVE  t.queue[L - 1 + i].node = order[i] /\ t.queue[L - 1 + i].depth = depth + 1
    <3>1. t.queue[L - 1 + i] = [node |-> order[i], depth |-> depth + 1]
      BY <2>2, <2>5
    <3> HIDE DEF L
    <3> QED BY <3>1
  <2> QED BY <2>5, <2>6 DEF R
<1>8. /\ f \in [met \cup new -> 0 .. max]
      /\ \A n \in met : f[n] = d[n] /\ d[n] \in 0 .. max
      /\ \A n \in new : f[n] = depth + 1 /\ n \notin met
  <2>1. d \in [met -> 0 .. max]
    BY <1>0 DEF Measured
  <2>2. \A n \in new : depth + 1 \in 0 .. max /\ n \notin met
    <3> SUFFICES ASSUME NEW n \in new PROVE depth + 1 \in 0 .. max /\ n \notin met
      OBVIOUS
    <3>1. depth < max /\ n \notin met
      BY <1>2
    <3>2. depth \in Nat
      BY <1>1
    <3> QED BY <3>1, <3>2
  <2> QED BY <2>1, <2>2 DEF f
<1>9. Measured(t, f, origin, edges, max)
  <2>1. /\ origin \in met /\ d[origin] = 0 /\ s.previous[origin] = <<>> /\ met \subseteq Nodes(edges)
    BY <1>0 DEF Measured
  <2>2. ASSUME NEW x \in (met \cup new) \ {origin}
        PROVE  \E y \in met \cup new, e \in edges :
                 t.previous[x] = <<y, e>> /\ e.ends = {x, y} /\ f[x] = f[y] + 1
    <3>1. CASE x \in new
      <4>1. PICK e \in edges : t.previous[x] = <<node, e>> /\ e.ends = {x, node}
        BY <1>6, <3>1
      <4>2. f[x] = f[node] + 1
        BY <1>1, <1>8, <3>1
      <4> QED BY <1>1, <4>1, <4>2
    <3>2. CASE x \in met
      <4>1. PICK y \in met, e \in edges : s.previous[x] = <<y, e>> /\ e.ends = {x, y} /\ d[x] = d[y] + 1
        BY <1>0, <2>2, <3>2 DEF Measured
      <4>2. t.previous[x] = <<y, e>> /\ f[x] = f[y] + 1
        BY <1>6, <1>8, <3>2, <4>1
      <4> QED BY <4>1, <4>2
    <3> QED BY <3>1, <3>2
  <2>3. t.previous[origin] = <<>> /\ f[origin] = 0
    BY <1>6, <1>8, <2>1
  <2>4. met \cup new \subseteq Nodes(edges)
    BY <1>2, <2>1
  <2> QED BY <1>6, <1>8, <2>1, <2>2, <2>3, <2>4 DEF Measured
<1>20. /\ L \in Nat /\ L >= 1 /\ m \in Nat /\ depth \in Nat /\ depth <= max /\ DOMAIN s.queue = 1 .. L
       /\ node \in met /\ depth = d[node] /\ node # target
       /\ node = s.queue[1].node /\ depth = s.queue[1].depth
  BY <1>1, <1>4
<1> HIDE DEF L, more
<1>10. \A i \in 1 .. L - 1 + m :
         \/ /\ i \in 1 .. L - 1 /\ i + 1 \in 1 .. L /\ t.queue[i] = s.queue[i + 1]
            /\ s.queue[i + 1].node \in met /\ f[s.queue[i + 1].node] = s.queue[i + 1].depth
            /\ s.queue[i + 1].depth \in Nat
         \/ \E j \in 1 .. m : /\ i = L - 1 + j /\ order[j] \in new
                              /\ t.queue[i].node = order[j] /\ t.queue[i].depth = depth + 1
  <2> SUFFICES ASSUME NEW i \in 1 .. L - 1 + m
               PROVE  \/ /\ i \in 1 .. L - 1 /\ i + 1 \in 1 .. L /\ t.queue[i] = s.queue[i + 1]
                         /\ s.queue[i + 1].node \in met /\ f[s.queue[i + 1].node] = s.queue[i + 1].depth
                         /\ s.queue[i + 1].depth \in Nat
                      \/ \E j \in 1 .. m : /\ i = L - 1 + j /\ order[j] \in new
                                           /\ t.queue[i].node = order[j] /\ t.queue[i].depth = depth + 1
    OBVIOUS
  <2>1. CASE i \in 1 .. L - 1
    <3>1. i + 1 \in 1 .. L /\ t.queue[i] = s.queue[i + 1]
      BY <1>20, <1>7, <2>1
    <3>2. s.queue[i + 1] \in [node : met, depth : Nat]
      <4> DEFINE R == [node : met, depth : Nat]
                 q == s.queue
      <4>1. q \in Seq(R) /\ q # <<>> /\ i + 1 \in 1 .. Len(q)
        BY <1>1, <3>1 DEF L
      <4> HIDE DEF R, q
      <4>2. q[i + 1] \in R
        BY <4>1, Elements
      <4> QED BY <4>2 DEF R, q
    <3>3. s.queue[i + 1].depth = d[s.queue[i + 1].node]
      BY <1>0, <1>20, <3>1 DEF Queued
    <3> QED BY <1>8, <2>1, <3>1, <3>2, <3>3
  <2>2. CASE i \notin 1 .. L - 1
    <3> DEFINE j == i - (L - 1)
    <3>1. j \in 1 .. m /\ i = L - 1 + j
      BY <1>20, <2>2
    <3> HIDE DEF j
    <3>2. order[j] \in new
      BY <1>5, <3>1
    <3> QED BY <1>7, <3>1, <3>2
  <2> QED BY <2>1, <2>2
<1>10a. \A i \in 1 .. L - 1 + m :
          \/ t.queue[i].depth = depth + 1
          \/ \E k \in 1 .. L : t.queue[i].depth = s.queue[k].depth /\ s.queue[k].depth \in Nat
  BY <1>10, Zenon
<1>11. \A i \in 1 .. L : depth <= s.queue[i].depth /\ s.queue[i].depth <= depth + 1
  <2> SUFFICES ASSUME NEW i \in 1 .. L
               PROVE  depth <= s.queue[i].depth /\ s.queue[i].depth <= depth + 1
    OBVIOUS
  <2>1. 1 \in DOMAIN s.queue /\ i \in DOMAIN s.queue /\ 1 <= i /\ depth = s.queue[1].depth
    BY <1>20
  <2>2. s.queue[1].depth <= s.queue[i].depth /\ s.queue[i].depth <= s.queue[1].depth + 1
    BY <1>0, <2>1 DEF Queued
  <2> QED BY <2>1, <2>2
<1>12. Queued(t, f)
  <2>1. ASSUME NEW i \in 1 .. L - 1 + m PROVE t.queue[i].depth = f[t.queue[i].node]
    BY <1>8, <1>10
  <2>2. ASSUME NEW i \in 1 .. L - 1 + m, NEW j \in 1 .. L - 1 + m, t.queue[i].node = t.queue[j].node
        PROVE  i = j
    <3>1. CASE t.queue[i].node \in met
      <4>1. i + 1 \in 1 .. L /\ j + 1 \in 1 .. L /\ s.queue[i + 1].node = s.queue[j + 1].node
        BY <1>8, <1>10, <2>2, <3>1
      <4>2. i + 1 = j + 1
        BY <1>0, <1>20, <4>1 DEF Queued
      <4> QED BY <4>2
    <3>2. CASE t.queue[i].node \notin met
      <4>1. PICK k \in 1 .. m : i = L - 1 + k /\ t.queue[i].node = order[k]
        BY <1>10, <3>2
      <4>2. PICK l \in 1 .. m : j = L - 1 + l /\ t.queue[j].node = order[l]
        BY <1>10, <2>2, <3>2
      <4>3. k = l
        BY <1>5, <2>2, <4>1, <4>2
      <4> QED BY <4>1, <4>2, <4>3
    <3> QED BY <3>1, <3>2
  <2>3. ASSUME NEW i \in 1 .. L - 1 + m
        PROVE  depth <= t.queue[i].depth /\ t.queue[i].depth <= depth + 1
    <3>1. t.queue[i].depth = depth + 1 \/ \E k \in 1 .. L : t.queue[i].depth = s.queue[k].depth
      BY <1>10
    <3> QED BY <1>11, <1>20, <3>1
  <2>4. ASSUME NEW i \in 1 .. L - 1 + m, NEW j \in 1 .. L - 1 + m, i <= j
        PROVE  t.queue[i].depth <= t.queue[j].depth
    <3>1. CASE j \in 1 .. L - 1
      <4>1. i \in 1 .. L - 1
        BY <1>20, <2>4, <3>1
      <4>2. /\ i + 1 \in 1 .. L /\ j + 1 \in 1 .. L /\ i + 1 <= j + 1
            /\ t.queue[i] = s.queue[i + 1] /\ t.queue[j] = s.queue[j + 1]
        <5>1. i + 1 \in 1 .. L /\ j + 1 \in 1 .. L /\ i + 1 <= j + 1
          BY <1>20, <2>4, <3>1, <4>1
        <5>2. t.queue[i] = s.queue[i + 1] /\ t.queue[j] = s.queue[j + 1]
          BY <1>7, <3>1, <4>1
        <5> QED BY <5>1, <5>2
      <4>3. i + 1 \in DOMAIN s.queue /\ j + 1 \in DOMAIN s.queue
        BY <1>20, <4>2
      <4>4. s.queue[i + 1].depth <= s.queue[j + 1].depth
        BY <1>0, <4>2, <4>3 DEF Queued
      <4> QED BY <4>2, <4>4
    <3>2. CASE j \notin 1 .. L - 1
      <4>1. t.queue[j].depth = depth + 1
        BY <1>10, <3>2
      <4> QED BY <1>20, <2>3, <4>1
    <3> QED BY <3>1, <3>2
  <2>5. ASSUME NEW j \in 1 .. L - 1 + m PROVE t.queue[j].depth <= t.queue[1].depth + 1
    <3>1. 1 \in 1 .. L - 1 + m
      BY <1>20
    <3>2. t.queue[1].depth \in Nat /\ t.queue[j].depth \in Nat
      <4>1. ASSUME NEW i \in 1 .. L - 1 + m PROVE t.queue[i].depth \in Nat
        <5>1. t.queue[i].depth = depth + 1 \/ t.queue[i].depth \in Nat
          BY <1>10a, Zenon
        <5>2. depth + 1 \in Nat
          BY <1>20
        <5> QED BY <5>1, <5>2, Zenon
      <4> QED BY <3>1, <4>1
    <3>3. depth <= t.queue[1].depth /\ t.queue[j].depth <= depth + 1
      BY <2>3, <3>1
    <3>4. depth \in Nat
      BY <1>20
    <3> QED BY <3>2, <3>3, <3>4
  <2> QED BY <1>6, <1>7, <2>1, <2>2, <2>4, <2>5 DEF Queued
<1>13. Explored(t, f, target, edges, max)
  <2> SUFFICES ASSUME NEW x, Past(t, x)
               PROVE  /\ x # target
                      /\ \A i \in DOMAIN t.queue : f[x] <= t.queue[i].depth
                      /\ f[x] < max => \A e \in edges : x \in e.ends =>
                           \A y \in e.ends : y \in DOMAIN t.previous /\ f[y] <= f[x] + 1
    BY DEF Explored
  <2>1. x \in met /\ f[x] = d[x]
    <3>1. x \in met \cup new /\ \A i \in 1 .. L - 1 + m : t.queue[i].node # x
      BY <1>6, <1>7 DEF Past
    <3>2. x \notin new
      <4>1. ASSUME NEW j \in 1 .. m PROVE order[j] # x
        <5>1. L - 1 + j \in 1 .. L - 1 + m
          BY <1>20
        <5> QED BY <1>7, <3>1, <5>1
      <4> QED BY <1>5, <4>1
    <3> QED BY <1>8, <3>1, <3>2
  <2>2. x = node \/ Past(s, x)
    <3> SUFFICES ASSUME x # node, NEW i \in 1 .. L PROVE s.queue[i].node # x
      BY <1>20, <2>1 DEF Past
    <3>1. CASE i = 1
      BY <1>20, <3>1
    <3>2. CASE i # 1
      <4> DEFINE j == i - 1
      <4>1. j \in 1 .. L - 1 /\ i = j + 1 /\ j \in 1 .. L - 1 + m
        BY <1>20, <3>2
      <4> HIDE DEF j
      <4>2. t.queue[j] = s.queue[i] /\ t.queue[j].node # x
        BY <1>7, <4>1 DEF Past
      <4> QED BY <4>2
    <3> QED BY <3>1, <3>2
  <2>3. d[x] <= depth /\ x # target /\ d[x] \in Nat
    <3>1. CASE x = node
      BY <1>20, <3>1
    <3>2. CASE Past(s, x)
      <4>1. 1 \in DOMAIN s.queue
        BY <1>20
      <4> QED BY <1>0, <1>20, <1>8, <2>1, <3>2, <4>1 DEF Explored
    <3> QED BY <2>2, <3>1, <3>2
  <2>4. ASSUME NEW i \in DOMAIN t.queue PROVE f[x] <= t.queue[i].depth
    <3>1. i \in 1 .. L - 1 + m
      BY <1>7
    <3>2. \/ t.queue[i].depth = depth + 1
          \/ \E k \in 1 .. L : t.queue[i].depth = s.queue[k].depth /\ t.queue[i].depth \in Nat
      BY <1>10, <3>1
    <3>3. depth <= t.queue[i].depth /\ t.queue[i].depth \in Nat
      BY <1>11, <1>20, <3>2
    <3> QED BY <1>20, <2>1, <2>3, <3>3
  <2>5. ASSUME d[x] < max, NEW e \in edges, x \in e.ends, NEW y \in e.ends
        PROVE  y \in met \cup new /\ f[y] <= d[x] + 1
    <3>1. CASE x = node
      <4>1. y \in met \cup new
        BY <1>20, <1>2, <2>5, <3>1
      <4>2. CASE y \in new
        BY <1>20, <1>8, <3>1, <4>2
      <4>3. CASE y \in met
        <5>1. CASE Past(s, y)
          <6>1. d[y] <= depth
            BY <1>0, <1>20, <5>1 DEF Explored
          <6> QED BY <1>20, <1>8, <3>1, <4>3, <6>1
        <5>2. CASE ~ Past(s, y)
          <6>1. PICK i \in 1 .. L : s.queue[i].node = y
            BY <1>20, <4>3, <5>2 DEF Past
          <6>2. s.queue[i].depth = d[y]
            BY <1>0, <1>20, <6>1 DEF Queued
          <6> QED BY <1>20, <1>8, <1>11, <3>1, <4>3, <6>1, <6>2
        <5> QED BY <5>1, <5>2
      <4> QED BY <4>1, <4>2, <4>3
    <3>2. CASE Past(s, x)
      <4>1. y \in met /\ d[y] <= d[x] + 1
        BY <1>0, <2>5, <3>2 DEF Explored
      <4> QED BY <1>8, <4>1
    <3> QED BY <2>2, <3>1, <3>2
  <2> QED BY <1>6, <2>1, <2>3, <2>4, <2>5
<1>14. Turned(t) = Turned(s) + 1
  <2>1. IsFiniteSet(met) /\ Cardinality(met) \in Nat
    <3>1. met \subseteq Nodes(edges)
      BY <1>0 DEF Measured
    <3> QED BY <3>1, FS_Subset, FS_CardinalityType
  <2>2. Cardinality(met \cap new) = 0
    BY <1>2, FS_EmptySet
  <2>3. Cardinality(met \cup new) = Cardinality(met) + m
    <3> HIDE DEF met
    <3>1. Cardinality(met \cup new) = Cardinality(met) + Cardinality(new) - Cardinality(met \cap new)
      BY <1>4, <2>1, FS_Union, Zenon
    <3> QED BY <1>4, <2>1, <2>2, <3>1 DEF m
  <2> HIDE DEF met
  <2> QED BY <1>20, <1>6, <1>7, <2>1, <2>3 DEF Turned, met
<1>15. Search1(t, f, origin, target, edges, max)
  BY <1>9, <1>12, <1>13 DEF Search1
<1> QED
  BY <1>14, <1>15 DEF t

\* The states of a search, turn by turn.
Turns(turn, n, p, q, edges, max) ==
  /\ turn[0] = Origin(p)
  /\ \A i \in 1 .. n : turn[i] = Turn(turn[i - 1], edges, Person(q), max)

LEMMA MetIs ==
  ASSUME NEW p, NEW q, NEW edges, NEW max, Cardinality(Nodes(edges)) \in Nat
  PROVE  \E turn : /\ Turns(turn, Cardinality(Nodes(edges)), p, q, edges, max)
                   /\ Met(p, q, edges, max) = turn[Cardinality(Nodes(edges))].previous
<1> DEFINE n == Cardinality(Nodes(edges))
           E(a) == Turn(a, edges, Person(q), max)
           Upto(m, s) == s = [i \in 0 .. m |-> IF i = 0 THEN Origin(p) ELSE E(s[i - 1])]
           G == {m \in 0 .. n : \E s : Upto(m, s)}
<1>1. Met(p, q, edges, max) = (CHOOSE s : Upto(n, s))[n].previous
  BY DEF Met, Nodes
<1> HIDE DEF E
<1>2. 0 \in G
  <2>1. Upto(0, [i \in 0 .. 0 |-> Origin(p)])
    OBVIOUS
  <2>2. \E s : Upto(0, s)
    <3> HIDE DEF Upto
    <3> QED BY <2>1
  <2> QED BY <2>2
<1>3. ASSUME NEW m \in 1 .. n, m - 1 \in G PROVE m \in G
  <2>1. PICK s : Upto(m - 1, s)
    BY <1>3
  <2> DEFINE t == [i \in 0 .. m |-> IF i < m THEN s[i] ELSE E(s[m - 1])]
  <2>2. Upto(m, t)
    BY <2>1
  <2>3. \E u : Upto(m, u)
    <3> HIDE DEF Upto, t
    <3> QED BY <2>2
  <2> QED BY <2>3
<1>4. n \in G
  <2>1. n \in Nat /\ n \in 0 .. n
    OBVIOUS
  <2> HIDE DEF G, n
  <2> QED BY <2>1, <1>2, <1>3, CountUp
<1> DEFINE turn == CHOOSE s : Upto(n, s)
<1>5. Upto(n, turn)
  BY <1>4
<1>6. turn = [i \in 0 .. n |-> IF i = 0 THEN Origin(p) ELSE E(turn[i - 1])]
  BY <1>5
<1>7. Met(p, q, edges, max) = turn[n].previous
  BY <1>1
<1> HIDE DEF turn
<1>8. turn[0] = Origin(p) /\ \A i \in 1 .. n : turn[i] = E(turn[i - 1])
  <2>1. n \in Nat
    OBVIOUS
  <2> HIDE DEF n
  <2>2. 0 \in 0 .. n /\ \A i \in 1 .. n : i \in 0 .. n /\ i # 0
    BY <2>1
  <2>3. turn[0] = Origin(p)
    BY <1>6, <2>2
  <2>4. ASSUME NEW i \in 1 .. n PROVE turn[i] = E(turn[i - 1])
    BY <1>6, <2>2
  <2> QED BY <2>3, <2>4
<1> QED
  BY <1>7, <1>8 DEF E, Turns

Stopped(s, target) == s.queue = <<>> \/ Head(s.queue).node = target

LEMMA Starting ==
  ASSUME NEW p, NEW target, NEW edges, NEW max \in Nat, Person(p) \in Nodes(edges)
  PROVE  /\ \E d : Search1(Origin(p), d, Person(p), target, edges, max)
         /\ Turned(Origin(p)) = 0
<1> DEFINE s == Origin(p)
           o == Person(p)
           d == [n \in {o} |-> 0]
<1>1. /\ s.queue = <<[node |-> o, depth |-> 0]>> /\ DOMAIN s.previous = {o} /\ s.previous[o] = <<>>
      /\ Len(s.queue) = 1 /\ DOMAIN s.queue = {1} /\ s.queue[1].node = o /\ s.queue[1].depth = 0
  BY DEF Origin
<1>2. s.queue \in Seq([node : {o}, depth : Nat])
  BY <1>1
<1>3. d \in [{o} -> 0 .. max] /\ d[o] = 0
  OBVIOUS
<1> HIDE DEF s, o, d
<1>4. Measured(s, d, o, edges, max)
  BY <1>1, <1>3 DEF Measured, o
<1>5. Queued(s, d)
  BY <1>1, <1>2, <1>3 DEF Queued
<1>6. Explored(s, d, target, edges, max)
  BY <1>1 DEF Explored, Past
<1>7. Turned(s) = 0
  <2>1. Cardinality({o}) = 1
    BY FS_Singleton
  <2>2. Cardinality(DOMAIN s.previous) = 1 /\ Len(s.queue) = 1
    BY <1>1, <2>1
  <2> QED BY <2>2 DEF Turned
<1> QED
  BY <1>4, <1>5, <1>6, <1>7 DEF Search1, s, o

(* The loop ends with an empty queue or the target at its head.            *)
LEMMA SearchEnds ==
  ASSUME NEW p, NEW q, NEW edges, NEW max \in Nat, Pairs(edges), IsFiniteSet(Nodes(edges)),
         Person(p) \in Nodes(edges)
  PROVE  \E s, d : /\ Search1(s, d, Person(p), Person(q), edges, max)
                   /\ Stopped(s, Person(q))
                   /\ Met(p, q, edges, max) = s.previous
<1> DEFINE n == Cardinality(Nodes(edges))
           I(s) == \E d : Search1(s, d, Person(p), Person(q), edges, max)
<1>1. n \in Nat
  BY FS_CardinalityType
<1>2. PICK turn : Turns(turn, n, p, q, edges, max) /\ Met(p, q, edges, max) = turn[n].previous
  BY <1>1, MetIs
<1> DEFINE G == {i \in 0 .. n : I(turn[i]) /\ (Stopped(turn[i], Person(q)) \/ Turned(turn[i]) = i)}
<1>3. 0 \in G
  BY <1>1, <1>2, Starting DEF Turns
<1>4. ASSUME NEW i \in 1 .. n, i - 1 \in G PROVE i \in G
  <2>1. turn[i] = Turn(turn[i - 1], edges, Person(q), max)
    BY <1>2 DEF Turns
  <2>2. CASE Stopped(turn[i - 1], Person(q))
    <3>1. turn[i] = turn[i - 1]
      BY <2>1, <2>2 DEF Turn, Stopped
    <3> QED BY <1>4, <2>2, <3>1
  <2>3. CASE ~ Stopped(turn[i - 1], Person(q))
    <3>1. PICK d : Search1(turn[i - 1], d, Person(p), Person(q), edges, max)
      BY <1>4
    <3>2. turn[i - 1].queue # <<>> /\ Head(turn[i - 1].queue).node # Person(q)
      BY <2>3 DEF Stopped
    <3>3. I(turn[i]) /\ Turned(turn[i]) = Turned(turn[i - 1]) + 1
      BY <2>1, <3>1, <3>2, TurnDoes
    <3>4. Turned(turn[i - 1]) = i - 1
      BY <1>4, <2>3
    <3> HIDE DEF I
    <3> QED BY <3>3, <3>4
  <2> QED BY <2>2, <2>3
<1>5. n \in G
  <2>1. n \in 0 .. n
    BY <1>1
  <2> HIDE DEF G, n
  <2> QED BY <1>1, <1>3, <1>4, <2>1, CountUp
<1> DEFINE s == turn[n]
<1>6. PICK d : Search1(s, d, Person(p), Person(q), edges, max)
  BY <1>5
<1>7. Stopped(s, Person(q))
  <2> SUFFICES ASSUME ~ Stopped(s, Person(q)) PROVE FALSE
    OBVIOUS
  <2>1. Turned(s) = n /\ s.queue # <<>>
    BY <1>5 DEF Stopped
  <2>2. Len(s.queue) \in Nat \ {0}
    <3> DEFINE R == [node : DOMAIN s.previous, depth : Nat]
    <3>1. s.queue \in Seq(R)
      BY <1>6 DEF Search1, Queued
    <3> HIDE DEF R, s
    <3> QED BY <2>1, <3>1, Elements
  <2>3. Cardinality(DOMAIN s.previous) \in Nat /\ Cardinality(DOMAIN s.previous) <= n
    <3>1. DOMAIN s.previous \subseteq Nodes(edges)
      BY <1>6 DEF Search1, Measured
    <3> HIDE DEF s
    <3> QED BY <3>1, FS_Subset, FS_CardinalityType
  <2> HIDE DEF s, n
  <2> QED BY <1>1, <2>1, <2>2, <2>3 DEF Turned
<1> QED
  BY <1>2, <1>6, <1>7

(* The chain of a node is made of edges, as many as its distance.          *)
LEMMA ChainIs ==
  ASSUME NEW s, NEW d, NEW origin, NEW edges, NEW max \in Nat,
         Measured(s, d, origin, edges, max), NEW node \in DOMAIN s.previous
  PROVE  /\ Chain(s.previous, node) \in Seq(edges)
         /\ Len(Chain(s.previous, node)) = d[node]
<1> DEFINE met == DOMAIN s.previous
           prev == s.previous
           E(g, x) == IF prev[x] = <<>> THEN <<>> ELSE Append(g[prev[x][1]], prev[x][2])
           G == {k \in 0 .. max : \E g : DOMAIN g = met /\ \A x \in met : d[x] <= k => g[x] = E(g, x)}
           Whole(g) == g = [x \in met |-> E(g, x)]
<1>0. d \in [met -> 0 .. max] /\ origin \in met /\ d[origin] = 0 /\ prev[origin] = <<>>
  BY DEF Measured
<1>1. ASSUME NEW x \in met, x # origin
      PROVE  /\ prev[x] # <<>> /\ prev[x][1] \in met /\ prev[x][2] \in edges
             /\ d[x] = d[prev[x][1]] + 1
  <2>1. PICK y \in met, e \in edges : prev[x] = <<y, e>> /\ d[x] = d[y] + 1
    BY <1>1 DEF Measured
  <2> QED BY <2>1
<1> HIDE DEF met, prev
<1>1a. ASSUME NEW x \in met, d[x] <= 0 PROVE x = origin
  <2> SUFFICES ASSUME x # origin PROVE FALSE
    OBVIOUS
  <2> DEFINE y == prev[x][1]
  <2>1. y \in met /\ d[x] = d[y] + 1
    BY <1>1
  <2> HIDE DEF y
  <2>2. d[y] \in Nat
    BY <1>0, <2>1
  <2> QED BY <1>1a, <2>1, <2>2
<1>2. 0 \in G
  <2> DEFINE g == [x \in met |-> <<>>]
  <2>1. ASSUME NEW x \in met, d[x] <= 0 PROVE g[x] = E(g, x)
    <3>1. x = origin
      BY <1>1a, <2>1
    <3> QED BY <1>0, <3>1
  <2>2. DOMAIN g = met /\ 0 \in 0 .. max
    OBVIOUS
  <2> HIDE DEF g, E
  <2> QED BY <2>1, <2>2
<1>3. ASSUME NEW k \in 1 .. max, k - 1 \in G PROVE k \in G
  <2>1. PICK h : DOMAIN h = met /\ \A x \in met : d[x] <= k - 1 => h[x] = E(h, x)
    BY <1>3
  <2> DEFINE g == [x \in met |-> IF d[x] <= k - 1 THEN h[x] ELSE E(h, x)]
  <2>2. ASSUME NEW x \in met, d[x] <= k PROVE g[x] = E(g, x)
    <3>1. g[x] = E(h, x)
      BY <2>1
    <3>2. CASE x = origin
      BY <1>0, <3>1, <3>2
    <3>3. CASE x # origin
      <4> DEFINE y == prev[x][1]
      <4>1. y \in met /\ d[y] <= k - 1
        BY <1>0, <1>1, <2>2, <3>3
      <4>2. g[y] = h[y]
        BY <4>1
      <4> QED BY <3>1, <4>2
    <3> QED BY <3>2, <3>3
  <2>3. DOMAIN g = met /\ k \in 0 .. max
    OBVIOUS
  <2> HIDE DEF g, E
  <2> QED BY <2>2, <2>3
<1>4. max \in G
  <2>1. max \in 0 .. max
    OBVIOUS
  <2> HIDE DEF G
  <2> QED BY <1>2, <1>3, <2>1, CountUp
<1>5. \E g : Whole(g)
  <2>1. PICK g : DOMAIN g = met /\ \A x \in met : d[x] <= max => g[x] = E(g, x)
    BY <1>4
  <2>2. \A x \in met : g[x] = E(g, x)
    BY <1>0, <2>1
  <2> DEFINE h == [x \in met |-> g[x]]
  <2>3. ASSUME NEW x \in met PROVE h[x] = E(h, x)
    <3>1. CASE x = origin
      BY <1>0, <2>2, <3>1
    <3>2. CASE x # origin
      <4>1. prev[x][1] \in met
        BY <1>1, <3>2
      <4> QED BY <2>2, <4>1
    <3> QED BY <3>1, <3>2
  <2>4. h = [x \in met |-> E(h, x)]
    <3> HIDE DEF E
    <3>1. \A x \in met : g[x] = E(h, x)
      BY <2>3
    <3> QED BY <3>1
  <2> HIDE DEF h, E
  <2> QED BY <2>4
<1> DEFINE chain == CHOOSE g : Whole(g)
<1>6. Chain(prev, node) = chain[node]
  BY DEF Chain, met, prev
<1>7. Whole(chain)
  <2> HIDE DEF Whole
  <2> QED BY <1>5
<1> HIDE DEF chain
<1>8. \A x \in met : chain[x] = E(chain, x)
  <2> HIDE DEF E
  <2> QED BY <1>7
<1> DEFINE H == {k \in 0 .. max : \A x \in met : d[x] <= k => chain[x] \in Seq(edges) /\ Len(chain[x]) = d[x]}
<1>9. 0 \in H
  <2>1. ASSUME NEW x \in met, d[x] <= 0 PROVE chain[x] \in Seq(edges) /\ Len(chain[x]) = d[x]
    <3>1. x = origin
      BY <1>1a, <2>1
    <3>2. chain[x] = <<>>
      BY <1>0, <1>8, <3>1
    <3> QED BY <1>0, <3>1, <3>2
  <2> QED BY <2>1
<1>10. ASSUME NEW k \in 1 .. max, k - 1 \in H PROVE k \in H
  <2>1. ASSUME NEW x \in met, d[x] <= k PROVE chain[x] \in Seq(edges) /\ Len(chain[x]) = d[x]
    <3>1. CASE x = origin
      <4>1. chain[x] = <<>>
        BY <1>0, <1>8, <3>1
      <4> QED BY <1>0, <3>1, <4>1
    <3>2. CASE x # origin
      <4> DEFINE y == prev[x][1]
                 e == prev[x][2]
      <4>1. y \in met /\ d[y] <= k - 1 /\ e \in edges /\ d[x] = d[y] + 1 /\ prev[x] # <<>>
        BY <1>0, <1>1, <2>1, <3>2
      <4>2. chain[x] = Append(chain[y], e)
        BY <1>8, <4>1
      <4>3. chain[y] \in Seq(edges) /\ Len(chain[y]) = d[y]
        BY <1>10, <4>1
      <4> HIDE DEF y, e
      <4> QED BY <4>1, <4>2, <4>3
    <3> QED BY <3>1, <3>2
  <2>2. k \in 0 .. max
    OBVIOUS
  <2> QED BY <2>1, <2>2
<1>11. max \in H
  <2>1. max \in 0 .. max
    OBVIOUS
  <2> HIDE DEF H
  <2> QED BY <1>9, <1>10, <2>1, CountUp
<1>12. node \in met /\ d[node] <= max
  BY <1>0 DEF met
<1> QED
  BY <1>6, <1>11, <1>12 DEF prev

\* The balls of all radii up to one.
Balls(ball, n, p, edges) ==
  /\ ball[0] = {Person(p)}
  /\ \A i \in 1 .. n :
       ball[i] = ball[i - 1] \cup UNION {e.ends : e \in {x \in edges : x.ends \cap ball[i - 1] # {}}}

LEMMA BallIs ==
  ASSUME NEW p, NEW edges, NEW n \in Nat
  PROVE  \E ball : Balls(ball, n, p, edges) /\ Ball(p, edges, n) = ball[n]
<1> DEFINE home == {Person(p)}
           E(b) == b \cup UNION {e.ends : e \in {x \in edges : x.ends \cap b # {}}}
           Upto(m, s) == s = [i \in 0 .. m |-> IF i = 0 THEN home ELSE E(s[i - 1])]
           G == {m \in 0 .. n : \E s : Upto(m, s)}
<1>1. Ball(p, edges, n) = (CHOOSE s : Upto(n, s))[n]
  BY DEF Ball
<1> HIDE DEF E, home
<1>2. 0 \in G
  <2>1. Upto(0, [i \in 0 .. 0 |-> home])
    OBVIOUS
  <2>2. \E s : Upto(0, s)
    <3> HIDE DEF Upto
    <3> QED BY <2>1
  <2> QED BY <2>2
<1>3. ASSUME NEW m \in 1 .. n, m - 1 \in G PROVE m \in G
  <2>1. PICK s : Upto(m - 1, s)
    BY <1>3
  <2> DEFINE t == [i \in 0 .. m |-> IF i < m THEN s[i] ELSE E(s[m - 1])]
  <2>2. Upto(m, t)
    BY <2>1
  <2>3. \E u : Upto(m, u)
    <3> HIDE DEF Upto, t
    <3> QED BY <2>2
  <2> QED BY <2>3
<1>4. n \in G
  <2>1. n \in 0 .. n
    OBVIOUS
  <2> HIDE DEF G
  <2> QED BY <2>1, <1>2, <1>3, CountUp
<1> DEFINE ball == CHOOSE s : Upto(n, s)
<1>5. Upto(n, ball)
  BY <1>4
<1>6. ball = [i \in 0 .. n |-> IF i = 0 THEN home ELSE E(ball[i - 1])]
  BY <1>5
<1>7. Ball(p, edges, n) = ball[n]
  BY <1>1
<1> HIDE DEF ball
<1>8. ball[0] = home /\ \A i \in 1 .. n : ball[i] = E(ball[i - 1])
  <2>1. 0 \in 0 .. n /\ \A i \in 1 .. n : i \in 0 .. n /\ i # 0
    OBVIOUS
  <2>2. ball[0] = home
    BY <1>6, <2>1
  <2>3. ASSUME NEW i \in 1 .. n PROVE ball[i] = E(ball[i - 1])
    BY <1>6, <2>1
  <2> QED BY <2>2, <2>3
<1> QED
  BY <1>7, <1>8 DEF E, home, Balls

(* What was met is no farther than it was measured to be.                  *)
LEMMA MetWithin ==
  ASSUME NEW p, NEW edges, NEW max \in Nat, NEW s, NEW d,
         Measured(s, d, Person(p), edges, max), NEW n \in Nat, NEW x \in DOMAIN s.previous, d[x] <= n
  PROVE  x \in Ball(p, edges, n)
<1> DEFINE met == DOMAIN s.previous
<1>0. d \in [met -> 0 .. max] /\ d[Person(p)] = 0
  BY DEF Measured
<1>1. PICK ball : Balls(ball, n, p, edges) /\ Ball(p, edges, n) = ball[n]
  BY BallIs
<1>2. ASSUME NEW y \in met, y # Person(p)
      PROVE  \E z \in met, e \in edges : e.ends = {y, z} /\ d[y] = d[z] + 1
  BY <1>2 DEF Measured
<1> HIDE DEF met
<1> DEFINE G == {k \in 0 .. n : \A y \in met : d[y] <= k => y \in ball[k]}
<1>3. 0 \in G
  <2>1. ASSUME NEW y \in met, d[y] <= 0 PROVE y \in ball[0]
    <3>1. y = Person(p)
      BY <1>0, <1>2, <2>1
    <3> QED BY <1>1, <3>1 DEF Balls
  <2> QED BY <2>1
<1>4. ASSUME NEW k \in 1 .. n, k - 1 \in G PROVE k \in G
  <2>0. ball[k] = ball[k - 1] \cup UNION {e.ends : e \in {u \in edges : u.ends \cap ball[k - 1] # {}}}
    BY <1>1 DEF Balls
  <2>1. ASSUME NEW y \in met, d[y] <= k PROVE y \in ball[k]
    <3>1. CASE d[y] <= k - 1
      BY <1>4, <2>0, <3>1
    <3>2. CASE ~ d[y] <= k - 1
      <4>1. y # Person(p)
        BY <1>0, <3>2
      <4>2. PICK z \in met, e \in edges : e.ends = {y, z} /\ d[y] = d[z] + 1
        BY <1>2, <4>1
      <4>3. z \in ball[k - 1]
        <5>1. d[z] <= k - 1
          BY <1>0, <2>1, <4>2
        <5> QED BY <1>4, <5>1
      <4>4. e \in {u \in edges : u.ends \cap ball[k - 1] # {}} /\ y \in e.ends
        BY <4>2, <4>3
      <4> QED BY <2>0, <4>4
    <3> QED BY <3>1, <3>2
  <2> QED BY <2>1
<1>5. n \in G
  <2>1. n \in 0 .. n
    OBVIOUS
  <2> HIDE DEF G
  <2> QED BY <1>3, <1>4, <2>1, CountUp
<1> QED
  BY <1>1, <1>5 DEF met

(* As far as the search has gone, what is within a distance was met.       *)
LEMMA WithinMet ==
  ASSUME NEW p, NEW target, NEW edges, NEW max \in Nat, NEW s, NEW d,
         Search1(s, d, Person(p), target, edges, max), NEW n \in 0 .. max,
         s.queue = <<>> \/ n <= s.queue[1].depth, NEW x \in Ball(p, edges, n)
  PROVE  x \in DOMAIN s.previous /\ d[x] <= n
<1> DEFINE met == DOMAIN s.previous
<1>0. /\ d \in [met -> 0 .. max] /\ Person(p) \in met /\ d[Person(p)] = 0
      /\ Queued(s, d) /\ Explored(s, d, target, edges, max)
  BY DEF Search1, Measured
<1>1. PICK ball : Balls(ball, n, p, edges) /\ Ball(p, edges, n) = ball[n]
  BY BallIs
<1>2. ASSUME NEW y \in met, d[y] < n PROVE Past(s, y)
  <2> SUFFICES ASSUME NEW i \in DOMAIN s.queue, s.queue[i].node = y PROVE FALSE
    BY DEF Past
  <2>1. s.queue # <<>> /\ 1 \in DOMAIN s.queue /\ 1 <= i /\ s.queue[1].depth \in Nat
        /\ s.queue[i].depth \in Nat
    <3> DEFINE R == [node : met, depth : Nat]
               q == s.queue
    <3>1. q \in Seq(R)
      BY <1>0 DEF Queued
    <3>2. i \in DOMAIN q
      OBVIOUS
    <3> HIDE DEF R, q
    <3>3. q # <<>>
      BY <3>1, <3>2
    <3>4. Len(q) \in Nat \ {0} /\ DOMAIN q = 1 .. Len(q) /\ \A j \in 1 .. Len(q) : q[j] \in R
      BY <3>1, <3>3, Elements
    <3>5. 1 \in DOMAIN q /\ 1 <= i /\ q[1] \in R /\ q[i] \in R
      BY <3>2, <3>4
    <3> QED BY <3>3, <3>5 DEF R, q
  <2>2. s.queue[1].depth <= s.queue[i].depth /\ s.queue[i].depth = d[y]
    BY <1>0, <2>1 DEF Queued
  <2> QED BY <1>0, <1>2, <2>1, <2>2
<1> HIDE DEF met
<1> DEFINE G == {k \in 0 .. n : \A y \in ball[k] : y \in met /\ d[y] <= k}
<1>3. 0 \in G
  BY <1>0, <1>1 DEF Balls
<1>4. ASSUME NEW k \in 1 .. n, k - 1 \in G PROVE k \in G
  <2>0. ball[k] = ball[k - 1] \cup UNION {e.ends : e \in {u \in edges : u.ends \cap ball[k - 1] # {}}}
    BY <1>1 DEF Balls
  <2>1. ASSUME NEW y \in ball[k] PROVE y \in met /\ d[y] <= k
    <3>1. CASE y \in ball[k - 1]
      <4>1. y \in met /\ d[y] <= k - 1
        BY <1>4, <3>1
      <4> QED BY <1>0, <4>1
    <3>2. CASE y \notin ball[k - 1]
      <4>0. PICK e \in edges : y \in e.ends /\ e.ends \cap ball[k - 1] # {}
        BY <2>0, <3>2
      <4>1. PICK z \in e.ends : z \in ball[k - 1]
        BY <4>0
      <4>2. z \in met /\ d[z] <= k - 1
        BY <1>4, <4>1
      <4>3. d[z] < n /\ d[z] < max
        BY <1>0, <4>2
      <4>4. Past(s, z)
        BY <1>2, <4>2, <4>3
      <4>5. y \in met /\ d[y] <= d[z] + 1
        BY <1>0, <4>0, <4>1, <4>3, <4>4 DEF Explored, met
      <4> QED BY <1>0, <4>2, <4>5
    <3> QED BY <3>1, <3>2
  <2> QED BY <2>1
<1>5. n \in G
  <2>1. n \in 0 .. n /\ n \in Nat
    OBVIOUS
  <2> HIDE DEF G
  <2> QED BY <1>3, <1>4, <2>1, CountUp
<1> QED
  BY <1>1, <1>5 DEF met

(* shortest_evidence_path over any finite graph: what it finds is a path   *)
(* of edges from the origin to the target that none is shorter than, and   *)
(* it finds none only if there is none of the length asked for.            *)
THEOREM SearchIsShortest ==
  ASSUME NEW p, NEW q, NEW edges, NEW max \in Nat, Pairs(edges), IsFiniteSet(Nodes(edges))
  PROVE  Shortest(Search(p, q, edges, max), p, q, edges, max)
<1> DEFINE target == Person(q)
           stand == \A x \in {p, q} : \E e \in edges : Person(x) \in e.ends
           paths == Search(p, q, edges, max)
<1>1. stand <=> {Person(p), target} \subseteq Nodes(edges)
  BY DEF Nodes
<1>2. CASE ~ stand
  <2>1. paths = {}
    BY <1>1, <1>2 DEF Search, Nodes
  <2> QED BY <1>2, <2>1 DEF Shortest
<1>3. CASE stand
  <2>1. PICK s, d : /\ Search1(s, d, Person(p), target, edges, max)
                    /\ Stopped(s, target)
                    /\ Met(p, q, edges, max) = s.previous
    BY <1>1, <1>3, SearchEnds
  <2>2. paths = IF target \in DOMAIN s.previous THEN {Chain(s.previous, target)} ELSE {}
    BY <1>1, <1>3, <2>1 DEF Search, Nodes
  <2> HIDE DEF paths
  <2>3. Measured(s, d, Person(p), edges, max) /\ d \in [DOMAIN s.previous -> 0 .. max]
    BY <2>1 DEF Search1, Measured
  <2>4. CASE target \notin DOMAIN s.previous
    <3>1. paths = {}
      BY <2>2, <2>4
    <3>2. s.queue = <<>>
      <4> SUFFICES ASSUME s.queue # <<>> PROVE FALSE
        OBVIOUS
      <4>1. Head(s.queue).node = target
        BY <2>1 DEF Stopped
      <4> DEFINE R == [node : DOMAIN s.previous, depth : Nat]
                 u == s.queue
      <4>2. u \in Seq(R) /\ u # <<>>
        BY <2>1 DEF Search1, Queued
      <4> HIDE DEF R, u
      <4>3. Head(u) \in R
        BY <4>2
      <4> QED BY <2>4, <4>1, <4>3 DEF R, u
    <3>3. target \notin Ball(p, edges, max)
      <4>1. max \in 0 .. max
        OBVIOUS
      <4> QED BY <2>1, <2>4, <3>2, <4>1, WithinMet
    <3> HIDE DEF target
    <3> QED BY <3>1, <3>3 DEF Shortest, target, paths
  <2>5. CASE target \in DOMAIN s.previous
    <3> DEFINE path == Chain(s.previous, target)
    <3>1. path \in Seq(edges) /\ Len(path) = d[target] /\ d[target] \in 0 .. max
      BY <2>3, <2>5, ChainIs
    <3>2. paths = {path}
      BY <2>2, <2>5
    <3> HIDE DEF path
    <3>3. s.queue # <<>> /\ s.queue[1].depth = d[target]
      <4>1. ~ Past(s, target)
        BY <2>1 DEF Search1, Explored
      <4>2. PICK i \in DOMAIN s.queue : TRUE
        BY <2>5, <4>1 DEF Past
      <4> DEFINE R == [node : DOMAIN s.previous, depth : Nat]
                 u == s.queue
      <4>3. u \in Seq(R) /\ i \in DOMAIN u
        BY <2>1 DEF Search1, Queued
      <4> HIDE DEF R
      <4>4. u # <<>> /\ Head(u) = u[1] /\ 1 \in DOMAIN u
        <5> HIDE DEF u
        <5> QED BY <4>3
      <4>5. u[1].node = target
        BY <2>1, <4>4 DEF Stopped
      <4> QED BY <2>1, <4>4, <4>5 DEF Search1, Queued
    <3>4. target \in Ball(p, edges, Len(path))
      BY <2>3, <2>5, <3>1, MetWithin
    <3>5. ASSUME NEW n \in 0 .. Len(path) - 1 PROVE target \notin Ball(p, edges, n)
      <4>1. n \in 0 .. max /\ n <= s.queue[1].depth /\ ~ d[target] <= n
        BY <3>1, <3>3
      <4> QED BY <2>1, <4>1, WithinMet
    <3>6. ToSet(path) \subseteq edges
      BY <3>1 DEF ToSet
    <3>7. Len(path) <= max
      BY <3>1
    <3> HIDE DEF target
    <3> QED BY <1>3, <3>2, <3>4, <3>5, <3>6, <3>7 DEF Shortest, target, paths
  <2> QED BY <2>4, <2>5
<1> QED BY <1>2, <1>3

-----------------------------------------------------------------------------
(* What a request has read is finite, and so is the graph made of it.       *)

LEMMA FewImages ==
  ASSUME NEW S, IsFiniteSet(S), NEW f, DOMAIN f = S
  PROVE  IsFiniteSet({f[x] : x \in S})
<1> DEFINE T == {f[x] : x \in S}
           g == [x \in S |-> f[x]]
<1>1. g \in Surjection(S, T)
  BY DEF Surjection
<1> QED
  BY <1>1, FS_Surjection, Zenon

LEMMA FewTogether ==
  ASSUME NEW S, IsFiniteSet(S), NEW f, DOMAIN f = S, \A x \in S : IsFiniteSet(f[x])
  PROVE  IsFiniteSet(UNION {f[x] : x \in S})
<1> DEFINE T == {f[x] : x \in S}
<1>1. IsFiniteSet(T)
  BY FewImages
<1>2. \A t \in T : IsFiniteSet(t)
  OBVIOUS
<1> HIDE DEF T
<1>3. IsFiniteSet(UNION T)
  BY <1>1, <1>2, FS_UNION
<1> QED
  BY <1>3 DEF T

LEMMA FewOf ==
  ASSUME NEW x
  PROVE  IsFiniteSet({x})
BY FS_Singleton

LEMMA FewMore ==
  ASSUME NEW S, NEW T, IsFiniteSet(S), IsFiniteSet(T)
  PROVE  IsFiniteSet(S \cup T)
BY FS_Union

LEMMA FewLess ==
  ASSUME NEW S, NEW T, IsFiniteSet(S)
  PROVE  IsFiniteSet(S \ T)
<1>1. S \ T \subseteq S
  OBVIOUS
<1> QED BY <1>1, FS_Subset

LEMMA AtMostOne ==
  ASSUME NEW a, NEW S
  PROVE  IsFiniteSet({a} \cap S)
<1>1. IsFiniteSet({a})
  BY FS_Singleton
<1>2. {a} \cap S \subseteq {a}
  OBVIOUS
<1> QED
  BY <1>1, <1>2, FS_Subset

(* A claim gives finitely many affiliations.                               *)
LEMMA FewVias ==
  ASSUME NEW t, NEW ctx
  PROVE  IsFiniteSet(Vias(t, ctx))
<1>1. CASE t.lane \in {"COMMITTEE", "PARTY", "DART", "EDUCATION", "CAREER"}
  <2>1. Vias(t, ctx) = {} \/ \E x : Vias(t, ctx) = {x}
    BY <1>1 DEF Vias
  <2>2. CASE Vias(t, ctx) = {}
    BY <2>2, FS_EmptySet
  <2>3. ASSUME NEW x, Vias(t, ctx) = {x} PROVE IsFiniteSet(Vias(t, ctx))
    <3> HIDE DEF Vias
    <3> QED BY <2>3, FewOf
  <2> QED BY <2>1, <2>2, <2>3
<1>2. CASE t.lane = "ALIO"
  <2> DEFINE S == {t.at} \cap ctx.orgs
             f == [o \in S |-> Via(<<"organization", o>>, "PUBLIC_INSTITUTION", TRUE)]
  <2>1. IsFiniteSet(S) /\ DOMAIN f = S
    BY AtMostOne
  <2>2. Vias(t, ctx) = {f[o] : o \in S}
    BY <1>2 DEF Vias
  <2> HIDE DEF S, f
  <2> QED BY <2>1, <2>2, FewImages
<1>3. CASE t.lane = "WITNESS"
  <2> DEFINE S == {t.at} \cap DOMAIN ctx.lists
             f == [k \in S |-> Via(<<"organization", ctx.lists[k]>>, CommitteeKind(t.name), TRUE)]
  <2>1. IsFiniteSet(S) /\ DOMAIN f = S
    BY AtMostOne
  <2>2. Vias(t, ctx) = {f[k] : k \in S}
    BY <1>3 DEF Vias
  <2> HIDE DEF S, f
  <2> QED BY <2>1, <2>2, FewImages
<1>4. CASE t.lane = "TERM"
  <2> DEFINE S == {t.name} \ {None}
             f == [n \in S |-> Via(<<"term", t.at, n>>, "PARTY", TRUE)]
             a == Via(<<"term", t.at>>, "LEGISLATIVE_TERM", TRUE)
  <2>1. S \subseteq {t.name} /\ DOMAIN f = S
    OBVIOUS
  <2>2. IsFiniteSet(S)
    <3>1. IsFiniteSet({t.name})
      BY FewOf
    <3> HIDE DEF S
    <3> QED BY <2>1, <3>1, FS_Subset
  <2>3. Vias(t, ctx) = {a} \cup {f[n] : n \in S}
    BY <1>4 DEF Vias
  <2> HIDE DEF S, f, a
  <2>4. IsFiniteSet({f[n] : n \in S})
    BY <2>1, <2>2, FewImages
  <2>5. IsFiniteSet({a})
    BY FewOf
  <2> QED BY <2>3, <2>4, <2>5, FewMore
<1>5. CASE t.lane \notin {"COMMITTEE", "PARTY", "ALIO", "DART", "WITNESS", "EDUCATION", "CAREER", "TERM"}
  <2>1. Vias(t, ctx) = {}
    BY <1>5 DEF Vias
  <2> QED BY <2>1, FS_EmptySet
<1> QED
  BY <1>1, <1>2, <1>3, <1>4, <1>5

LEMMA FewAffiliations ==
  ASSUME NEW cs, IsFiniteSet(cs), NEW ctx
  PROVE  IsFiniteSet(Affiliations(cs, ctx))
<1> DEFINE F(c) == {Affiliation(c, v) : v \in Vias(Text(c), ctx)}
           f == [c \in cs |-> F(c)]
<1>1. ASSUME NEW c \in cs PROVE IsFiniteSet(F(c))
  <2> DEFINE S == Vias(Text(c), ctx)
             g == [v \in S |-> Affiliation(c, v)]
  <2>1. IsFiniteSet(S) /\ DOMAIN g = S
    BY FewVias
  <2>2. F(c) = {g[v] : v \in S}
    OBVIOUS
  <2> HIDE DEF S, g, F
  <2> QED BY <2>1, <2>2, FewImages
<1>2. Affiliations(cs, ctx) = UNION {f[c] : c \in cs}
  BY DEF Affiliations
<1>3. DOMAIN f = cs /\ \A c \in cs : IsFiniteSet(f[c])
  <2> HIDE DEF F
  <2> QED BY <1>1
<1> HIDE DEF f
<1> QED
  BY <1>2, <1>3, FewTogether

(* The edges a request has read of finitely many claims are of two ends    *)
(* each, and the nodes at those ends are finitely many.                    *)
LEMMA FewEdges ==
  ASSUME NEW v, IsFiniteSet(v.claims), IsFiniteSet(v.links), NEW extra
  PROVE  LET edges == Edges(Known(v), Links(v), extra) IN
         Pairs(edges) /\ IsFiniteSet(Nodes(edges))
<1> DEFINE edges == Edges(Known(v), Links(v), extra)
           near == {x \in Known(v) : x.via.bound /\ x.via.kind \notin Unwalked \ extra}
           far == Links(v)
           f == [a \in near |-> [ends |-> {Person(Who(a.claim)), ViaNode(a.via.key)}, claim |-> a.claim]]
           g == [l \in far |-> [ends |-> {ViaNode(<<"organization", l.from>>), ViaNode(<<"organization", l.to>>)},
                                claim |-> l.claim]]
           h == [t \in v.links |-> [from |-> t.org, to |-> Crosswalk(v.orgs, t.name), claim |-> <<t.org, None>>]]
<1>1. edges = {f[a] : a \in near} \cup {g[l] : l \in far}
  <2> HIDE DEF far
  <2> QED BY DEF Edges, far
<1>2. IsFiniteSet(near)
  <2>1. IsFiniteSet(Known(v))
    BY FewAffiliations DEF Known
  <2>2. near \subseteq Known(v)
    OBVIOUS
  <2> HIDE DEF near
  <2> QED BY <2>1, <2>2, FS_Subset
<1>3. IsFiniteSet(far)
  <2>1. far = {h[t] : t \in v.links} /\ DOMAIN h = v.links
    BY DEF Links
  <2> HIDE DEF h, far
  <2> QED BY <2>1, FewImages
<1>4. \A a \in near : f[a].ends = {Person(Who(a.claim)), ViaNode(a.via.key)}
  <2> HIDE DEF near
  <2> QED OBVIOUS
<1>5. \A l \in far : g[l].ends = {ViaNode(<<"organization", l.from>>), ViaNode(<<"organization", l.to>>)}
  <2> HIDE DEF far
  <2> QED OBVIOUS
<1>6. DOMAIN f = near /\ DOMAIN g = far
  <2> HIDE DEF near, far
  <2> QED OBVIOUS
<1> HIDE DEF edges, near, far, f, g, h
<1>7. Pairs(edges)
  <2> SUFFICES ASSUME NEW e \in edges PROVE \E a, b : e.ends = {a, b}
    BY DEF Pairs
  <2>1. CASE e \in {f[a] : a \in near}
    <3>1. PICK a \in near : e = f[a]
      BY <2>1
    <3> QED BY <1>4, <3>1
  <2>2. CASE e \in {g[l] : l \in far}
    <3>1. PICK l \in far : e = g[l]
      BY <2>2
    <3> QED BY <1>5, <3>1
  <2> QED BY <1>1, <2>1, <2>2
<1>8. IsFiniteSet(edges)
  <2>1. IsFiniteSet({f[a] : a \in near})
    BY <1>2, <1>6, FewImages
  <2>2. IsFiniteSet({g[l] : l \in far})
    BY <1>3, <1>6, FewImages
  <2> QED BY <1>1, <2>1, <2>2, FewMore
<1>9. \A e \in edges : IsFiniteSet(e.ends)
  <2> SUFFICES ASSUME NEW e \in edges PROVE IsFiniteSet(e.ends)
    OBVIOUS
  <2>1. PICK a, b : e.ends = {a, b}
    BY <1>7 DEF Pairs
  <2>2. {a, b} = {a} \cup {b}
    OBVIOUS
  <2>3. IsFiniteSet({a}) /\ IsFiniteSet({b})
    BY FewOf
  <2> QED BY <2>1, <2>2, <2>3, FewMore
<1> DEFINE k == [e \in edges |-> e.ends]
<1>10. Nodes(edges) = UNION {k[e] : e \in edges}
  BY DEF Nodes
<1>11. DOMAIN k = edges /\ \A e \in edges : IsFiniteSet(k[e])
  BY <1>9
<1>12. IsFiniteSet(Nodes(edges))
  <2> HIDE DEF k
  <2> QED BY <1>8, <1>10, <1>11, FewTogether
<1> QED
  BY <1>7, <1>12 DEF edges

-----------------------------------------------------------------------------
(* What an answer rests on *)

LEMMA KnownClaims ==
  ASSUME NEW v, NEW a \in Known(v)
  PROVE  a.claim \in v.claims
<1>1. PICK c \in v.claims : a \in {Affiliation(c, w) : w \in Vias(Text(c), Context(v))}
  BY Zenon DEF Known, Affiliations
<1>2. PICK w : a = Affiliation(c, w)
  BY <1>1
<1> QED
  BY <1>2 DEF Affiliation

LEMMA RelationClaims ==
  ASSUME NEW v, NEW L, NEW R, L \subseteq Known(v), R \subseteq Known(v), NEW candidates,
         NEW rel \in Relations(L, R, candidates)
  PROVE  Ends(rel) \subseteq v.claims
<1>1. PICK x \in L \X R : Derivable(x[1], x[2]) /\ rel = Derived(x[1], x[2])
  BY DEF Relations
<1>2. Ends(rel) = {x[1].claim, x[2].claim}
  BY <1>1, DerivedEnds
<1> QED
  BY <1>2, KnownClaims

LEMMA MoveClaims ==
  ASSUME NEW v, NEW L, L \subseteq Known(v), NEW candidates, NEW m \in Moves(L, candidates)
  PROVE  {m[1].claim, m[2].claim} \subseteq v.claims
<1>1. m[1] \in L /\ m[2] \in L
  BY DEF Moves
<1> QED
  BY <1>1, KnownClaims

LEMMA PairClaims ==
  ASSUME NEW p, NEW parts, NEW pair \in Cosponsors(p, parts)
  PROVE  \A b \in pair.bills : OnBill(pair.claims, b) \subseteq OnBill(parts, b)
BY DEF Cosponsors, OnBill

StatementsOf(a) ==
  {Ends(rel) : rel \in a.relations}
  \cup {{m[1].claim, m[2].claim} : m \in a.moves}
  \cup UNION {{OnBill(pair.claims, b) : b \in pair.bills} : pair \in a.pairs}

LEMMA PageClaims ==
  ASSUME NEW r, NEW v, r.kind \in Kinds, NEW cs \in StatementsOf(Page(r, v))
  PROVE  cs \subseteq v.claims \/ \E b : cs \subseteq OnBill(v.parts, b)
<1> DEFINE a == Page(r, v)
<1>1. ASSUME NEW rel \in a.relations PROVE Ends(rel) \subseteq v.claims
  <2>1. \A p : Of(Known(v), p) \subseteq Known(v)
    BY DEF Of
  <2>2. CASE r.kind = "PERSON"
    <3>1. rel \in Relations(Of(Known(v), r.who[1]), Known(v), r.candidates)
      BY <1>1, <2>2 DEF Page, PersonPage, RelationsFor
    <3> QED
      BY <2>1, <3>1, RelationClaims
  <2>3. CASE r.kind = "COMPARE"
    <3>1. rel \in Relations(Of(Known(v), r.who[1]), Of(Known(v), r.who[2]), r.candidates)
      BY <1>1, <2>3 DEF Page, ComparePage, DirectRelations
    <3> QED
      BY <2>1, <3>1, RelationClaims
  <2>4. CASE r.kind = "PATH"
    BY <1>1, <2>4 DEF Page, PathPage, Nothing
  <2> QED
    BY <2>2, <2>3, <2>4 DEF Kinds
<1>2. ASSUME NEW m \in a.moves PROVE {m[1].claim, m[2].claim} \subseteq v.claims
  <2>1. CASE r.kind = "PERSON"
    <3>1. m \in Moves(Of(Known(v), r.who[1]), r.candidates)
      BY <1>2, <2>1 DEF Page, PersonPage
    <3>2. Of(Known(v), r.who[1]) \subseteq Known(v)
      BY DEF Of
    <3> QED
      BY <3>1, <3>2, MoveClaims
  <2>2. CASE r.kind \in {"COMPARE", "PATH"}
    BY <1>2, <2>2 DEF Page, ComparePage, PathPage, Nothing
  <2> QED
    BY <2>1, <2>2 DEF Kinds
<1>3. ASSUME NEW pair \in a.pairs
      PROVE  \A b \in pair.bills : OnBill(pair.claims, b) \subseteq OnBill(v.parts, b)
  <2>1. CASE r.kind \in {"PERSON", "COMPARE"}
    <3>1. pair \in Cosponsors(r.who[1], v.parts)
      BY <1>3, <2>1 DEF Page, PersonPage, ComparePage
    <3> QED
      BY <3>1, PairClaims
  <2>2. CASE r.kind = "PATH"
    BY <1>3, <2>2 DEF Page, PathPage, Nothing
  <2> QED
    BY <2>1, <2>2 DEF Kinds
<1> HIDE DEF a
<1>4. cs \in StatementsOf(a)
  BY DEF a
<1> QED
  BY <1>1, <1>2, <1>3, <1>4 DEF StatementsOf

-----------------------------------------------------------------------------
(* The invariant: the database is backed at every moment, what a request   *)
(* has read in one statement stood at one of the moments since it began, a *)
(* bill that is still to be asked for has no parts read, and the answer of *)
(* a request is the page of what it read.                                  *)

Asked(r) == r.kind \in Kinds /\ r.max \in Nat /\ (r.kind # "PERSON" => Len(r.who) = 2)

Shapes ==
  /\ DOMAIN view = DOMAIN Fresh /\ view = [x \in DOMAIN Fresh |-> view[x]]
  /\ DOMAIN bounds = {"requests", "edits", "drafts"}
  /\ bounds = [x \in {"requests", "edits", "drafts"} |-> bounds[x]]
  /\ bounds.drafts \subseteq Claims
  /\ \A r \in bounds.requests : Asked(r)
  /\ request # None => Asked(request)

Moments == db \in seen /\ \A d \in seen : Backed(d)

ReadTogether ==
  /\ \E d \in seen : view.claims \subseteq d.claims
  /\ \A b : \E d \in seen : OnBill(view.parts, b) \subseteq d.claims
  /\ \E d \in seen : view.links \subseteq d.targets

Unread ==
  /\ view.parts # {} => view.at \in {"PARTS", "ANSWER"}
  /\ \A c \in view.parts : Text(c).at \notin view.left

Answered ==
  answer # None => request # None /\ (answer = Nothing \/ answer = Page(request, view))

IInv == Shapes /\ Moments /\ ReadTogether /\ Unread /\ Answered

LEMMA InitHolds == Init => IInv
<1> SUFFICES ASSUME Init PROVE IInv
  OBVIOUS
<1>1. PICK s \in Starts :
        /\ db = s.db
        /\ bounds = [requests |-> s.requests, edits |-> s.edits, drafts |-> s.drafts]
        /\ request = None /\ view = Fresh /\ answer = None /\ seen = {s.db}
  BY DEF Init
<1>2. Shapes
  BY <1>1, StartsAssumption DEF Shapes, Fresh, Asked
<1>3. Moments
  BY <1>1, StartsAssumption DEF Moments
<1>4. ReadTogether /\ Unread /\ Answered
  BY <1>1 DEF ReadTogether, Unread, Answered, Fresh, OnBill
<1> QED
  BY <1>2, <1>3, <1>4 DEF IInv

(* A commit beside the request.                                            *)
LEMMA CommitKeeps ==
  ASSUME IInv, NEW d, Backed(d), Committed(d)
  PROVE  IInv'
<1>1. Shapes'
  BY DEF IInv, Shapes, Committed
<1>2. Moments'
  BY DEF IInv, Moments, Committed
<1>3. ReadTogether' /\ Unread'
  BY DEF IInv, ReadTogether, Unread, OnBill, Committed
<1>4. Answered'
  BY DEF IInv, Answered, Committed, Page, PersonPage, ComparePage, PathPage, Known, Links, Context, PathOf
<1> QED
  BY <1>1, <1>2, <1>3, <1>4 DEF IInv

LEMMA EditBacked ==
  ASSUME IInv, Edit
  PROVE  \E d : Backed(d) /\ Committed(d)
<1>1. Backed(db) /\ db \in Rows /\ IsFiniteSet(db.claims) /\ IsFiniteSet(db.targets)
  BY DEF IInv, Moments, Backed
<1>2. ASSUME NEW c \in Claims, Publish(c) PROVE \E d : Backed(d) /\ Committed(d)
  <2> DEFINE d == [db EXCEPT !.claims = @ \cup {c}]
  <2>0. IsFiniteSet(db.claims \cup {c})
    BY <1>1, FewOf, FewMore
  <2>1. Backed(d)
    BY <1>1, <1>2, <2>0 DEF Publish, Backed, Rows
  <2> QED
    BY <1>2, <2>1 DEF Publish
<1>3. ASSUME NEW c \in Claims, Withdraw(c) PROVE \E d : Backed(d) /\ Committed(d)
  <2> DEFINE d == [db EXCEPT !.claims = @ \ {c}]
  <2>0. IsFiniteSet(db.claims \ {c})
    BY <1>1, FewLess
  <2>1. Backed(d)
    BY <1>1, <2>0 DEF Backed, Rows
  <2> QED
    BY <1>3, <2>1 DEF Withdraw
<1>4. ASSUME NEW p \in People, Deactivate(p) PROVE \E d : Backed(d) /\ Committed(d)
  <2> DEFINE d == [db EXCEPT !.active = @ \ {p}, !.claims = @ \ ClaimsOf(db, p)]
  <2>0. IsFiniteSet(db.claims \ ClaimsOf(db, p))
    BY <1>1, FewLess
  <2>1. Backed(d)
    BY <1>1, <2>0 DEF Backed, Rows, ClaimsOf
  <2> QED
    BY <1>4, <2>1 DEF Deactivate
<1>5. ASSUME NEW p \in People, NEW t \in People, Merge(p, t)
      PROVE  \E d : Backed(d) /\ Committed(d)
  <2> DEFINE copies == {<<c[1], t>> : c \in ClaimsOf(db, p)}
             d == [db EXCEPT !.active = @ \ {p},
                             !.linked = IF p \in @ THEN (@ \ {p}) \cup {t} ELSE @,
                             !.claims = (@ \ ClaimsOf(db, p)) \cup copies]
  <2>1. copies \subseteq Claims /\ \A c \in copies : Who(c) = t
    BY <1>1, <1>5 DEF ClaimsOf, Claims, Who, Rows
  <2>2. t \in db.active /\ p # t
    BY <1>5 DEF Merge
  <2>3. IsFiniteSet(copies)
    <3> DEFINE S == ClaimsOf(db, p)
               f == [c \in S |-> <<c[1], t>>]
    <3>1. DOMAIN f = S /\ copies = {f[c] : c \in S}
      OBVIOUS
    <3>2. S \subseteq db.claims
      BY DEF ClaimsOf
    <3> HIDE DEF S, f, copies
    <3>3. IsFiniteSet(S)
      BY <1>1, <3>2, FS_Subset
    <3> QED BY <3>1, <3>3, FewImages
  <2> HIDE DEF copies
  <2>4. IsFiniteSet((db.claims \ ClaimsOf(db, p)) \cup copies)
    BY <1>1, <2>3, FewLess, FewMore
  <2>5. Backed(d)
    BY <1>1, <2>1, <2>2, <2>4 DEF Backed, Rows, ClaimsOf
  <2> USE DEF copies
  <2> QED
    BY <1>5, <2>5 DEF Merge
<1>6. ASSUME NEW k \in DOMAIN ListOrg, WithdrawList(k) PROVE \E d : Backed(d) /\ Committed(d)
  <2> DEFINE d == [db EXCEPT !.claims = @ \ Restating(db, k)]
  <2>0. IsFiniteSet(db.claims \ Restating(db, k))
    BY <1>1, FewLess
  <2>1. Backed(d)
    BY <1>1, <2>0 DEF Backed, Rows
  <2> QED
    BY <1>6, <2>1 DEF WithdrawList
<1>7. ASSUME NEW k \in DOMAIN ListOrg, CorrectList(k) PROVE \E d : Backed(d) /\ Committed(d)
  <2> DEFINE d == [db EXCEPT !.lists = @ \ {k}]
  <2>1. Backed(d)
    BY <1>1 DEF Backed, Rows
  <2> QED
    BY <1>7, <2>1 DEF CorrectList
<1>8. ASSUME NEW o \in Orgs, Found(o) PROVE \E d : Backed(d) /\ Committed(d)
  <2> DEFINE d == [db EXCEPT !.orgs = @ \cup {o}]
  <2>1. Backed(d)
    BY <1>1 DEF Backed, Rows
  <2> QED
    BY <1>8, <2>1 DEF Found
<1>9. ASSUME NEW o \in Orgs, ImportClassified(o) PROVE \E d : Backed(d) /\ Committed(d)
  <2> DEFINE d == [db EXCEPT !.orgs = @ \cup {o}, !.classified = @ \cup {o}]
  <2>1. Backed(d)
    BY <1>1 DEF Backed, Rows
  <2> QED
    BY <1>9, <2>1 DEF ImportClassified
<1>10. ASSUME NEW k \in DOMAIN ListOrg, ImportList(k) PROVE \E d : Backed(d) /\ Committed(d)
  <2> DEFINE d == [db EXCEPT !.orgs = @ \cup {ListOrg[k]}, !.lists = @ \cup {k}]
  <2>1. Backed(d)
    BY <1>1, ListsAssumption DEF Backed, Rows
  <2> QED
    BY <1>10, <2>1 DEF ImportList
<1>11. ASSUME NEW t \in Targets, ImportTarget(t) PROVE \E d : Backed(d) /\ Committed(d)
  <2> DEFINE d == [db EXCEPT !.targets = @ \cup {t}]
  <2>0. IsFiniteSet(db.targets \cup {t})
    BY <1>1, FewOf, FewMore
  <2>1. Backed(d)
    BY <1>1, <2>0 DEF Backed, Rows
  <2> QED
    BY <1>11, <2>1 DEF ImportTarget
<1>12. ASSUME NEW o \in Orgs, WithdrawClassification(o)
       PROVE  \E d : Backed(d) /\ Committed(d)
  <2> DEFINE d == [db EXCEPT !.classified = @ \ {o}]
  <2>1. Backed(d)
    BY <1>1 DEF Backed, Rows
  <2> QED
    BY <1>12, <2>1 DEF WithdrawClassification
<1>13. ASSUME NEW t \in Targets, WithdrawTarget(t) PROVE \E d : Backed(d) /\ Committed(d)
  <2> DEFINE d == [db EXCEPT !.targets = @ \ {t}]
  <2>0. IsFiniteSet(db.targets \ {t})
    BY <1>1, FewLess
  <2>1. Backed(d)
    BY <1>1, <2>0 DEF Backed, Rows
  <2> QED
    BY <1>13, <2>1 DEF WithdrawTarget
<1> QED
  BY <1>2, <1>3, <1>4, <1>5, <1>6, <1>7, <1>8, <1>9, <1>10, <1>11, <1>12, <1>13 DEF Edit

(* A read that leaves the claims and the parts read so far alone: before   *)
(* the parts are read, or with nothing of what is still to be asked for.   *)
LEMMA OtherReads ==
  ASSUME IInv, Reading, answer = None, answer' = None \/ answer' = Nothing, request # None,
         DOMAIN view' = DOMAIN Fresh, view' = [x \in DOMAIN Fresh |-> view'[x]],
         view'.claims = view.claims, view'.parts = view.parts, view'.links = view.links,
         view.at \notin {"PARTS", "ANSWER"} \/ view' = view
  PROVE  IInv'
<1>1. Shapes' /\ Moments' /\ ReadTogether'
  BY DEF IInv, Shapes, Moments, ReadTogether, OnBill, Reading
<1>2. Answered' /\ Unread'
  BY DEF IInv, Answered, Unread, Reading
<1> QED
  BY <1>1, <1>2 DEF IInv

LEMMA ServeKeeps ==
  ASSUME IInv, Serve
  PROVE  IInv'
<1>0. request # None /\ answer = None /\ Reading
  BY DEF Serve, Check, ReadPeople, ReadOrganizations, ReadClaims, ReadLists, ReadRegistry,
         ReadListed, ReadLinks, ReadBills, ReadParts, Answer, At
<1> USE <1>0
<1>1. DOMAIN view = DOMAIN Fresh /\ view = [x \in DOMAIN Fresh |-> view[x]]
  BY DEF IInv, Shapes
<1>2. CASE Check
  BY <1>1, <1>2, OtherReads DEF Check, At, Fresh
<1>3. CASE ReadPeople
  BY <1>1, <1>3, OtherReads DEF ReadPeople, At, Fresh
<1>4. CASE ReadOrganizations
  BY <1>1, <1>4, OtherReads DEF ReadOrganizations, At, Fresh
<1>5. CASE ReadLists
  BY <1>1, <1>5, OtherReads DEF ReadLists, At, Fresh
<1>6. CASE ReadRegistry
  BY <1>1, <1>6, OtherReads DEF ReadRegistry, At, Fresh
<1>7. CASE ReadListed
  BY <1>1, <1>7, OtherReads DEF ReadListed, At, Fresh
<1>8. CASE ReadLinks
  <2>1. /\ view'.links \subseteq db.targets /\ view'.claims = view.claims /\ view'.parts = view.parts
        /\ view.at \notin {"PARTS", "ANSWER"}
    BY <1>1, <1>8 DEF ReadLinks, At, Fresh
  <2>2. Shapes'
    BY <1>1, <1>8 DEF IInv, Shapes, ReadLinks, Reading, Fresh
  <2>3. Moments' /\ ReadTogether' /\ Unread'
    BY <2>1 DEF IInv, Moments, ReadTogether, Unread, OnBill, Reading
  <2>4. Answered'
    BY <1>8 DEF Answered, ReadLinks
  <2> QED
    BY <2>2, <2>3, <2>4 DEF IInv
<1>9. CASE ReadBills
  BY <1>1, <1>9, OtherReads DEF ReadBills, At, Fresh
<1>10. CASE ReadClaims
  <2>1. /\ view'.claims \subseteq db.claims /\ view'.parts = view.parts /\ view'.links = view.links
        /\ view.at \notin {"PARTS", "ANSWER"}
    BY <1>1, <1>10 DEF ReadClaims, Contexts, At, Fresh
  <2>2. Shapes'
    BY <1>1, <1>10 DEF IInv, Shapes, ReadClaims, Reading, Fresh
  <2>3. Moments' /\ ReadTogether' /\ Unread'
    BY <2>1 DEF IInv, Moments, ReadTogether, Unread, OnBill, Reading
  <2>4. Answered'
    BY <1>10 DEF Answered, ReadClaims
  <2> QED
    BY <2>2, <2>3, <2>4 DEF IInv
<1>11. CASE ReadParts
  <2>1. PICK some \in Portions(view.left) :
          view' = [view EXCEPT
                     !.at = IF some = view.left THEN "ANSWER" ELSE @,
                     !.left = @ \ some,
                     !.parts = @ \cup {c \in db.claims : Text(c).lane = "BILL" /\ Text(c).at \in some}]
    BY <1>11 DEF ReadParts
  <2>2. some \subseteq view.left
    BY DEF Portions
  <2>3. /\ view'.claims = view.claims /\ view'.links = view.links
        /\ view'.left = view.left \ some
        /\ view'.at \in {"PARTS", "ANSWER"}
    BY <1>1, <1>11, <2>1 DEF ReadParts, At, Fresh
  <2> DEFINE read == {c \in db.claims : Text(c).lane = "BILL" /\ Text(c).at \in some}
  <2>4. view'.parts = view.parts \cup read
    BY <1>1, <2>1 DEF Fresh
  <2>5. Shapes'
    BY <1>1, <1>11, <2>1 DEF IInv, Shapes, Reading, Fresh
  <2>6. Moments' /\ seen' = seen /\ db \in seen
    BY DEF IInv, Moments, Reading
  <2>7. Unread'
    BY <2>3, <2>4 DEF IInv, Unread
  <2>8. ASSUME NEW b PROVE \E d \in seen' : OnBill(view'.parts, b) \subseteq d.claims
    <3>1. CASE b \in some
      <4>1. OnBill(view'.parts, b) \subseteq read
        BY <2>2, <2>4, <3>1 DEF IInv, Unread, OnBill
      <4> QED
        BY <2>6, <4>1
    <3>2. CASE b \notin some
      <4>1. OnBill(view'.parts, b) \subseteq OnBill(view.parts, b)
        BY <2>4, <3>2 DEF OnBill
      <4> QED
        BY <2>6, <4>1 DEF IInv, ReadTogether
    <3> QED
      BY <3>1, <3>2
  <2>9. ReadTogether'
    BY <2>3, <2>6, <2>8 DEF IInv, ReadTogether
  <2>10. Answered'
    BY <1>11 DEF Answered, ReadParts
  <2> QED
    BY <2>5, <2>6, <2>7, <2>9, <2>10 DEF IInv
<1>12. CASE Answer
  <2>1. Shapes' /\ Moments' /\ ReadTogether' /\ Unread'
    BY <1>12 DEF IInv, Shapes, Moments, ReadTogether, Unread, OnBill, Reading, Answer
  <2>2. request' = request /\ view' = view /\ answer' = Page(request, view)
    BY <1>12 DEF Answer, Reading
  <2>3. Answered'
    BY <2>2 DEF Answered, Page, PersonPage, ComparePage, PathPage, Known, Links, Context, PathOf
  <2> QED
    BY <2>1, <2>3 DEF IInv
<1> QED
  BY <1>2, <1>3, <1>4, <1>5, <1>6, <1>7, <1>8, <1>9, <1>10, <1>11, <1>12 DEF Serve

LEMMA NextKeeps == IInv /\ [Next]_vars => IInv'
<1> SUFFICES ASSUME IInv, [Next]_vars PROVE IInv'
  OBVIOUS
<1>1. CASE Edit
  BY <1>1, EditBacked, CommitKeeps
<1>2. ASSUME NEW r \in bounds.requests, Ask(r) PROVE IInv'
  <2>1. Shapes'
    BY <1>2 DEF IInv, Shapes, Ask, Fresh
  <2>2. Moments' /\ ReadTogether' /\ Unread' /\ Answered'
    BY <1>2 DEF IInv, Moments, ReadTogether, Unread, OnBill, Answered, Ask, Fresh
  <2> QED
    BY <2>1, <2>2 DEF IInv
<1>3. CASE Serve
  BY <1>3, ServeKeeps
<1>4. CASE Expire
  <2>1. Shapes' /\ Moments' /\ ReadTogether' /\ Unread'
    BY <1>4 DEF IInv, Shapes, Moments, ReadTogether, Unread, OnBill, Expire
  <2>2. Answered'
    BY <1>4 DEF IInv, Answered, Expire, Page, PersonPage, ComparePage, PathPage, Known, Links, Context, PathOf
  <2> QED
    BY <2>1, <2>2 DEF IInv
<1>5. CASE Done
  <2>1. Shapes'
    BY <1>5 DEF IInv, Shapes, Done, Fresh
  <2>2. Moments' /\ ReadTogether' /\ Unread' /\ Answered'
    BY <1>5 DEF IInv, Moments, ReadTogether, Unread, OnBill, Answered, Done, Fresh
  <2> QED
    BY <2>1, <2>2 DEF IInv
<1>6. CASE UNCHANGED vars
  <2>1. Shapes' /\ Moments' /\ ReadTogether' /\ Unread'
    BY <1>6 DEF IInv, Shapes, Moments, ReadTogether, Unread, OnBill, vars
  <2>2. Answered'
    BY <1>6 DEF IInv, Answered, vars, Page, PersonPage, ComparePage, PathPage, Known, Links, Context, PathOf
  <2> QED
    BY <2>1, <2>2 DEF IInv
<1> QED
  BY <1>1, <1>2, <1>3, <1>4, <1>5, <1>6 DEF Next

LEMMA AnswersStand == IInv => RelationsWereCurrent
<1> SUFFICES ASSUME IInv, answer # None, NEW cs \in Statements
             PROVE  \E d \in seen : Standing(d, cs)
  BY DEF RelationsWereCurrent
<1>1. cs \in StatementsOf(answer)
  BY DEF Statements, StatementsOf
<1>2. request.kind \in Kinds
  BY DEF IInv, Shapes, Answered, Asked
<1>3. cs \subseteq view.claims \/ \E b : cs \subseteq OnBill(view.parts, b)
  <2>1. CASE answer = Nothing
    BY <1>1, <2>1 DEF StatementsOf, Nothing
  <2>2. CASE answer = Page(request, view)
    BY <1>1, <1>2, <2>2, PageClaims
  <2> QED
    BY <2>1, <2>2 DEF IInv, Answered
<1>4. PICK d \in seen : cs \subseteq d.claims
  BY <1>3 DEF IInv, ReadTogether
<1>5. Backed(d)
  BY DEF IInv, Moments
<1> QED
  BY <1>4, <1>5 DEF Standing, Backed

(* Whatever operators and importers commit between the reads of a request, *)
(* every relation and move answered, and every bill of a pair, rests on    *)
(* claims that were published together, of people who stood, at one moment *)
(* of the request, however few bills are asked for in a statement.         *)
THEOREM AnswersAreCurrent == Spec => []RelationsWereCurrent
<1>1. Init => IInv
  BY InitHolds
<1>2. IInv /\ [Next]_vars => IInv'
  BY NextKeeps
<1>3. IInv => RelationsWereCurrent
  BY AnswersStand
<1> QED
  BY <1>1, <1>2, <1>3, PTL DEF Spec


-----------------------------------------------------------------------------
(* The path answered is that of the page, over what was read.              *)

LEMMA PathsStand == IInv => PathIsShortest
<1> SUFFICES ASSUME IInv, answer # None, answer.known, request.kind # "PERSON" PROVE
             Shortest(answer.path, request.who[1], request.who[2],
                      Edges(Known(view), Links(view), request.extra), request.max)
  BY DEF PathIsShortest
<1>1. request.kind \in {"COMPARE", "PATH"} /\ request.max \in Nat /\ Len(request.who) = 2
  BY DEF IInv, Shapes, Answered, Asked, Kinds
<1>2. answer = Page(request, view)
  BY DEF IInv, Answered, Nothing
<1>3. answer.path = PathOf(request, view)
  BY <1>1, <1>2 DEF Page, ComparePage, PathPage, Nothing
<1>4. IsFiniteSet(view.claims) /\ IsFiniteSet(view.links)
  <2>1. PICK d \in seen : view.claims \subseteq d.claims
    BY DEF IInv, ReadTogether
  <2>2. PICK e \in seen : view.links \subseteq e.targets
    BY DEF IInv, ReadTogether
  <2>3. IsFiniteSet(d.claims) /\ IsFiniteSet(e.targets)
    BY DEF IInv, Moments, Backed
  <2>4. IsFiniteSet(view.claims)
    BY <2>1, <2>3, FS_Subset
  <2>5. IsFiniteSet(view.links)
    BY <2>2, <2>3, FS_Subset
  <2> QED
    BY <2>4, <2>5
<1> DEFINE edges == Edges(Known(view), Links(view), request.extra)
<1>5. Pairs(edges) /\ IsFiniteSet(Nodes(edges))
  BY <1>4, FewEdges
<1>6. answer.path = Search(request.who[1], request.who[2], edges, request.max)
  BY <1>1, <1>3 DEF PathOf
<1> HIDE DEF edges
<1>7. Shortest(answer.path, request.who[1], request.who[2], edges, request.max)
  BY <1>1, <1>5, <1>6, SearchIsShortest
<1> QED
  BY <1>7 DEF edges

(* Whatever commits between its reads, a request for a path is answered    *)
(* with one exactly when the two people are joined, over the claims it has *)
(* read, by no more edges than were asked for, and then with a shortest,   *)
(* each of whose edges is a claim it has read.                             *)
THEOREM PathsAreShortest == Spec => []PathIsShortest
<1>1. Init => IInv
  BY InitHolds
<1>2. IInv /\ [Next]_vars => IInv'
  BY NextKeeps
<1>3. IInv => PathIsShortest
  BY PathsStand
<1> QED
  BY <1>1, <1>2, <1>3, PTL DEF Spec

-----------------------------------------------------------------------------
(* What is concluded from the periods that sources state *)

LEMMA BoundsAre ==
  ASSUME NEW t, Truthful(t)
  PROVE  /\ Bounds(t).asOf = None /\ Bounds(t).ongoing = FALSE /\ Bounds(t).captures = {}
         /\ Bounds(t).start # None =>
              /\ t.unit \in Units /\ Bounds(t).start = LastOf(FirstOf(t.held.from, t.unit), t.unit)
              /\ Bounds(t).end = StatedEnd(t)
         /\ Bounds(t).end # None =>
              /\ t.endUnit \in Units /\ Bounds(t).end = FirstOf(t.held.till, t.endUnit)
<1> DEFINE start == IF t.unit = None THEN None ELSE LastOf(StatedStart(t), t.unit)
           end == StatedEnd(t)
<1>1. Bounds(t) = Undated \/ Bounds(t) = [Undated EXCEPT !.start = start, !.end = end]
  BY DEF Bounds
<1>2. t.unit \in Units \cup {None} /\ t.endUnit \in Units \cup {None}
  BY DEF Truthful
<1>3. start # None => t.unit \in Units /\ start = LastOf(FirstOf(t.held.from, t.unit), t.unit)
  BY <1>2 DEF StatedStart
<1>4. end # None => t.endUnit \in Units /\ end = FirstOf(t.held.till, t.endUnit)
  BY <1>2 DEF StatedEnd
<1> HIDE DEF start, end
<1>5. CASE Bounds(t) = Undated
  BY <1>5 DEF Undated
<1>6. CASE Bounds(t) = [Undated EXCEPT !.start = start, !.end = end]
  <2>1. /\ Bounds(t).start = start /\ Bounds(t).end = end
        /\ Bounds(t).asOf = None /\ Bounds(t).ongoing = FALSE /\ Bounds(t).captures = {}
    BY <1>6 DEF Undated
  <2> QED BY <1>3, <1>4, <2>1 DEF end
<1> QED
  BY <1>1, <1>5, <1>6

\* The interval used lies within the period that the text is about.
LEMMA IntervalHeld ==
  ASSUME NEW t, t.lane \in PeriodLanes, Truthful(t), Interval(Period(t)) # None
  PROVE  /\ Interval(Period(t)).from \in Nat /\ Interval(Period(t)).till \in Nat
         /\ t.held.from <= Interval(Period(t)).from /\ Interval(Period(t)).till <= t.held.till
<1> DEFINE p == Period(t)
<1>1. p.start # None /\ (p.end # None \/ (p.ongoing /\ p.asOf # None))
  BY DEF Interval
<1>2. t.held.from \in Nat /\ t.held.till \in Nat
  BY DEF Truthful
<1>3. CASE t.lane \in {"COMMITTEE", "PARTY", "ALIO", "DART", "WITNESS"}
  <2>1. p.end = None /\ p.ongoing = FALSE
    BY <1>3 DEF Period, Undated
  <2> QED BY <1>1, <2>1
<1>4. CASE t.lane = "TERM"
  <2>1. p.start = t.held.from /\ p.end = t.held.till
    BY <1>4 DEF Period, Undated
  <2>2. Interval(p) = [from |-> t.held.from, till |-> t.held.till]
    BY <1>1, <1>2, <2>1, NoneAssumption DEF Interval
  <2> QED BY <1>2, <2>2
<1>5. CASE t.lane \in {"EDUCATION", "CAREER"}
  <2>1. /\ p.start = Bounds(t).start /\ p.end = Bounds(t).end
        /\ p.ongoing => t.lane = "CAREER" /\ t.ongoing /\ p.asOf = t.listed
    <3>1. CASE t.lane = "EDUCATION"
      <4>1. p = Bounds(t)
        BY <3>1 DEF Period
      <4> QED BY <4>1, BoundsAre
    <3>2. CASE t.lane = "CAREER"
      <4>1. p = [Bounds(t) EXCEPT !.asOf = t.listed, !.ongoing = t.ongoing]
        BY <3>2 DEF Period
      <4>2. DOMAIN Bounds(t) = {"start", "end", "asOf", "ongoing", "captures"}
        BY DEF Bounds, Undated
      <4> HIDE DEF p
      <4> QED BY <3>2, <4>1, <4>2
    <3> QED BY <1>5, <3>1, <3>2
  <2> DEFINE start == LastOf(FirstOf(t.held.from, t.unit), t.unit)
  <2>2. /\ t.unit \in Units /\ p.start = start /\ p.end = StatedEnd(t)
    BY <1>1, <2>1, BoundsAre
  <2>3. start \in Nat /\ t.held.from <= start
    <3>1. /\ FirstOf(t.held.from, t.unit) \in Nat /\ LastOf(FirstOf(t.held.from, t.unit), t.unit) \in Nat
          /\ t.held.from <= LastOf(FirstOf(t.held.from, t.unit), t.unit)
      BY <1>2, <2>2, UnitHolds
    <3> QED BY <3>1
  <2> HIDE DEF p, start
  <2>4. CASE p.end # None
    <3> DEFINE end == FirstOf(t.held.till, t.endUnit)
    <3>1. t.endUnit \in Units /\ p.end = end
      BY <2>1, <2>4, BoundsAre
    <3>2. end \in Nat /\ end <= t.held.till
      BY <1>2, <3>1, UnitHolds
    <3>3. Interval(p) = [from |-> start, till |-> end]
      BY <1>1, <2>2, <2>4, <3>1 DEF Interval
    <3> HIDE DEF end
    <3> QED BY <2>3, <3>2, <3>3 DEF p
  <2>5. CASE p.end = None
    <3>1. p.ongoing /\ p.asOf # None
      BY <1>1, <2>5 DEF p
    <3>2. t.lane = "CAREER" /\ t.ongoing /\ p.asOf = t.listed
      BY <2>1, <3>1
    <3>3. t.listed \in Nat /\ t.listed <= t.held.till
      BY <3>1, <3>2 DEF Truthful, Holds
    <3>4. Interval(p) = [from |-> start, till |-> t.listed]
      BY <1>1, <2>2, <2>5, <3>1, <3>2 DEF Interval
    <3> QED BY <2>3, <3>3, <3>4 DEF p
  <2> QED BY <2>4, <2>5
<1> QED
  BY <1>3, <1>4, <1>5 DEF PeriodLanes

LEMMA AsOfHeld ==
  ASSUME NEW t, t.lane \in PeriodLanes, Truthful(t), t.lane = "CAREER" => t.ongoing,
         Period(t).asOf # None
  PROVE  Period(t).asOf \in Nat /\ Holds(t, Period(t).asOf)
<1>1. CASE t.lane \in {"EDUCATION", "TERM"}
  <2>1. Period(t).asOf = None
    BY <1>1, BoundsAre DEF Period, Undated
  <2> QED BY <2>1
<1>2. CASE t.lane \in {"COMMITTEE", "PARTY", "ALIO", "DART", "WITNESS"}
  <2>1. Period(t).asOf = t.listed
    BY <1>2 DEF Period, Undated
  <2> QED BY <1>2, <2>1 DEF Truthful
<1>3. CASE t.lane = "CAREER"
  <2>1. Period(t).asOf = t.listed
    <3>1. Period(t) = [Bounds(t) EXCEPT !.asOf = t.listed, !.ongoing = t.ongoing]
      BY <1>3 DEF Period
    <3>2. DOMAIN Bounds(t) = {"start", "end", "asOf", "ongoing", "captures"}
      BY DEF Bounds, Undated
    <3> HIDE DEF Period
    <3> QED BY <3>1, <3>2
  <2> QED BY <1>3, <2>1 DEF Truthful
<1> QED
  BY <1>1, <1>2, <1>3 DEF PeriodLanes

LEMMA CapturesAre ==
  ASSUME NEW t, t.lane \in PeriodLanes, Truthful(t)
  PROVE  \A x \in Period(t).captures : x = t.capture /\ x # None
<1>1. CASE t.lane \in {"COMMITTEE", "PARTY", "ALIO", "DART"}
  <2>1. Period(t).captures = {t.capture} \ {None}
    BY <1>1 DEF Period, Undated
  <2> QED BY <2>1
<1>2. CASE t.lane \in {"WITNESS", "TERM", "EDUCATION"}
  <2>1. Period(t).captures = {}
    BY <1>2, BoundsAre DEF Period, Undated
  <2> QED BY <2>1
<1>3. CASE t.lane = "CAREER"
  <2>1. Period(t) = [Bounds(t) EXCEPT !.asOf = t.listed, !.ongoing = t.ongoing]
    BY <1>3 DEF Period
  <2>2. DOMAIN Bounds(t) = {"start", "end", "asOf", "ongoing", "captures"}
    BY DEF Bounds, Undated
  <2>3. Period(t).captures = Bounds(t).captures
    <3> HIDE DEF Period
    <3> QED BY <2>1, <2>2
  <2>4. Period(t).captures = {}
    BY <2>3, BoundsAre
  <2> QED BY <2>4
<1> QED
  BY <1>1, <1>2, <1>3 DEF PeriodLanes

\* A line that was over, or undated, when it was recorded.
Later(t) == t.lane = "CAREER" /\ ~t.ongoing /\ Interval(Period(t)) = None

LEMMA ListedHeld ==
  ASSUME NEW t, NEW u, {t.lane, u.lane} \subseteq PeriodLanes, Truthful(t), Truthful(u),
         ~ Later(u), Interval(Period(u)) = None, Listed(Interval(Period(t)), Period(u))
  PROVE  Meet(t.held, u.held)
<1>1. Interval(Period(t)) # None /\ Period(u).asOf # None
  BY DEF Listed
<1> DEFINE a == Interval(Period(t))
           d == Period(u).asOf
<1>2. a.from \in Nat /\ a.till \in Nat /\ t.held.from <= a.from /\ a.till <= t.held.till
  BY <1>1, IntervalHeld
<1>3. u.lane = "CAREER" => u.ongoing
  BY DEF Later
<1>4. d \in Nat /\ Holds(u, d)
  BY <1>1, <1>3, AsOfHeld
<1>5. a.from <= d /\ d <= a.till
  BY DEF Listed
<1>6. t.held.from \in Nat /\ t.held.till \in Nat /\ u.held.from \in Nat /\ u.held.till \in Nat
  BY DEF Truthful
<1> HIDE DEF a, d
<1> QED
  BY <1>2, <1>4, <1>5, <1>6 DEF Meet, Holds

LEMMA OverlapHeld ==
  ASSUME NEW x \in Texts, NEW y \in Texts,
         {TextOf[x].lane, TextOf[y].lane} \subseteq PeriodLanes,
         ~ Later(TextOf[x]), ~ Later(TextOf[y]),
         Overlap(Period(TextOf[x]), Period(TextOf[y])) = "VERIFIED"
  PROVE  Meet(TextOf[x].held, TextOf[y].held)
<1> DEFINE t == TextOf[x]
           u == TextOf[y]
           a == Interval(Period(t))
           b == Interval(Period(u))
<1>1. Truthful(t) /\ Truthful(u)
  BY SourcesAssumption
<1>2. t.held.from \in Nat /\ t.held.till \in Nat /\ u.held.from \in Nat /\ u.held.till \in Nat
  BY <1>1 DEF Truthful
<1>3. CASE Period(t).captures \cap Period(u).captures # {}
  <2>1. t.capture = u.capture /\ t.capture # None
    BY <1>1, <1>3, CapturesAre
  <2>2. t \in Captured(t.capture) /\ u \in Captured(t.capture)
    BY <2>1 DEF Captured
  <2>3. PICK d \in {z.listed : z \in Captured(t.capture)} \cap Nat :
               \A z \in Captured(t.capture) : Holds(z, d)
    BY <2>1, SourcesAssumption
  <2>4. Holds(t, d) /\ Holds(u, d) /\ d \in Nat
    BY <2>2, <2>3
  <2> HIDE DEF t, u
  <2>5. Meet(t.held, u.held)
    BY <1>2, <2>4 DEF Holds, Meet
  <2> QED BY <2>5 DEF t, u
<1>4. CASE Period(t).captures \cap Period(u).captures = {}
  <2>1. \/ a # None /\ b # None /\ Meet(a, b)
        \/ (a = None \/ b = None) /\ (Listed(a, Period(u)) \/ Listed(b, Period(t)))
    BY <1>4 DEF Overlap
  <2>2. CASE a # None /\ b # None /\ Meet(a, b)
    <3>1. a.from \in Nat /\ a.till \in Nat /\ t.held.from <= a.from /\ a.till <= t.held.till
      BY <1>1, <2>2, IntervalHeld
    <3>2. b.from \in Nat /\ b.till \in Nat /\ u.held.from <= b.from /\ b.till <= u.held.till
      BY <1>1, <2>2, IntervalHeld
    <3> HIDE DEF t, u, a, b
    <3>3. Meet(t.held, u.held)
      BY <1>2, <2>2, <3>1, <3>2 DEF Meet
    <3> QED BY <3>3 DEF t, u
  <2>3. CASE Listed(a, Period(u)) /\ b = None
    BY <1>1, <2>3, ListedHeld
  <2>4. CASE Listed(b, Period(t)) /\ a = None
    <3>1. Meet(u.held, t.held)
      BY <1>1, <2>4, ListedHeld
    <3> QED BY <3>1 DEF Meet
  <2>5. Listed(a, Period(u)) => a # None
    BY DEF Listed
  <2>6. Listed(b, Period(t)) => b # None
    BY DEF Listed
  <2> QED BY <2>1, <2>2, <2>3, <2>4, <2>5, <2>6
<1> QED
  BY <1>3, <1>4

\* An end stated to the day or the month is in the month it is about, and a
\* start likewise.
LEMMA EndHeld ==
  ASSUME NEW t, t.lane \in PeriodLanes, Truthful(t), Period(t).end # None, t.endUnit # "YEAR"
  PROVE  /\ Period(t).end \in Nat /\ t.held.till \in Nat
         /\ MonthStart(Period(t).end) = MonthStart(t.held.till)
<1>0. t.held.till \in Nat
  BY DEF Truthful
<1>1. CASE t.lane \in {"COMMITTEE", "PARTY", "ALIO", "DART", "WITNESS"}
  <2>1. Period(t).end = None
    BY <1>1 DEF Period, Undated
  <2> QED BY <2>1
<1>2. CASE t.lane = "TERM"
  <2>1. Period(t).end = t.held.till
    BY <1>2 DEF Period, Undated
  <2> QED BY <1>0, <2>1
<1>3. CASE t.lane \in {"EDUCATION", "CAREER"}
  <2>1. Period(t).end = Bounds(t).end
    BY <1>3 DEF Period, Bounds, Undated
  <2>2. t.endUnit \in {"DAY", "MONTH"} /\ Period(t).end = FirstOf(t.held.till, t.endUnit)
    BY <2>1, BoundsAre DEF Units
  <2> QED BY <1>0, <2>2, MonthOfUnit
<1> QED
  BY <1>1, <1>2, <1>3 DEF PeriodLanes

LEMMA StartHeld ==
  ASSUME NEW t, t.lane \in PeriodLanes, Truthful(t), Period(t).start # None, t.unit # "YEAR"
  PROVE  /\ Period(t).start \in Nat /\ t.held.from \in Nat
         /\ MonthStart(Period(t).start) = MonthStart(t.held.from)
<1>0. t.held.from \in Nat
  BY DEF Truthful
<1>1. CASE t.lane \in {"COMMITTEE", "PARTY", "ALIO", "WITNESS"}
  <2>1. Period(t).start = None
    BY <1>1 DEF Period, Undated
  <2> QED BY <2>1
<1>2. CASE t.lane \in {"TERM", "DART"}
  <2>1. Period(t).start = t.held.from
    BY <1>2 DEF Period, Undated
  <2> QED BY <1>0, <2>1
<1>3. CASE t.lane \in {"EDUCATION", "CAREER"}
  <2>1. Period(t).start = Bounds(t).start
    BY <1>3 DEF Period, Bounds, Undated
  <2>2. t.unit \in {"DAY", "MONTH"} /\ Period(t).start = LastOf(FirstOf(t.held.from, t.unit), t.unit)
    BY <2>1, BoundsAre DEF Units
  <2> QED BY <1>0, <2>2, MonthOfUnit
<1> QED
  BY <1>1, <1>2, <1>3 DEF PeriodLanes

LEMMA MoveHeld ==
  ASSUME NEW a, NEW b, {Lane(a), Lane(b)} \subseteq PeriodLanes,
         Truthful(Text(a.claim)), Truthful(Text(b.claim)), LeftBefore(a, b),
         Text(a.claim).endUnit # "YEAR", Text(b.claim).unit # "YEAR"
  PROVE  Text(a.claim).held.till < Text(b.claim).held.from
<1> DEFINE end == PeriodOf(a).end
           start == PeriodOf(b).start
           till == Text(a.claim).held.till
           from == Text(b.claim).held.from
<1>1. end \in Nat /\ till \in Nat /\ MonthStart(end) = MonthStart(till)
  BY EndHeld DEF LeftBefore, PeriodOf, Lane
<1>2. start \in Nat /\ from \in Nat /\ MonthStart(start) = MonthStart(from)
  BY StartHeld DEF LeftBefore, PeriodOf, Lane
<1>3. Month(end) < Month(start)
  BY DEF LeftBefore
<1> HIDE DEF end, start, till, from
<1>4. MonthStart(end) + MonthDays <= MonthStart(start)
  BY <1>1, <1>2, <1>3, MonthsOrder
<1>5. till < MonthStart(till) + MonthDays
  BY <1>1, MonthOfUnit
<1>6. MonthStart(from) <= from
  BY <1>2, MonthOfUnit
<1>7. MonthStart(till) \in Int /\ MonthStart(from) \in Int /\ MonthDays \in Nat
  BY <1>1, <1>2, CalendarAssumption DEF MonthStart
<1>8. till < from
  BY <1>1, <1>2, <1>4, <1>5, <1>6, <1>7
<1> QED
  BY <1>8 DEF till, from

\* What is known of a view comes from texts that state a period.
LEMMA KnownTexts ==
  ASSUME NEW v, v.claims \subseteq Claims, NEW a \in Known(v)
  PROVE  a.claim[1] \in Texts /\ Lane(a) \in PeriodLanes /\ Truthful(Text(a.claim))
<1>1. PICK c \in v.claims : a \in {Affiliation(c, w) : w \in Vias(Text(c), Context(v))}
  BY Zenon DEF Known, Affiliations
<1>2. PICK w \in Vias(Text(c), Context(v)) : a = Affiliation(c, w)
  BY <1>1
<1>3. a.claim = c /\ Vias(Text(c), Context(v)) # {}
  BY <1>2 DEF Affiliation
<1>4. Text(c).lane \in PeriodLanes
  <2> SUFFICES ASSUME Text(c).lane \notin PeriodLanes PROVE Vias(Text(c), Context(v)) = {}
    BY <1>3
  <2> QED BY DEF Vias, PeriodLanes
<1>5. c[1] \in Texts
  BY DEF Claims
<1>6. Lane(a) \in PeriodLanes
  BY <1>3, <1>4 DEF Lane
<1>7. Truthful(Text(c))
  BY <1>4, <1>5, SourcesAssumption DEF Text
<1> QED
  BY <1>3, <1>5, <1>6, <1>7

LEMMA RelationEnds ==
  ASSUME NEW v, NEW L, NEW R, L \subseteq Known(v), R \subseteq Known(v), NEW candidates,
         NEW rel \in Relations(L, R, candidates)
  PROVE  /\ rel.subject \in Known(v) /\ rel.counterpart \in Known(v)
         /\ rel.overlap = "VERIFIED" => Overlap(PeriodOf(rel.subject), PeriodOf(rel.counterpart)) = "VERIFIED"
<1>1. PICK x \in L \X R : Derivable(x[1], x[2]) /\ rel = Derived(x[1], x[2])
  BY DEF Relations
<1> DEFINE l == x[1]
           r == x[2]
<1>2. l \in Known(v) /\ r \in Known(v) /\ Derivable(l, r) /\ rel = Derived(l, r)
  BY <1>1
<1> HIDE DEF l, r
<1>3. CASE Witnesses(l, r) # {}
  <2>1. PICK a \in {l, r} : Lane(a) = "COMMITTEE"
    <3>1. Cardinality({a \in {l, r} : Lane(a) = "COMMITTEE"}) = 1
      BY <1>2, <1>3 DEF Derivable
    <3> QED BY <3>1, FS_EmptySet
  <2>2. Member(l, r) \in {l, r}
    BY <2>1 DEF Member
  <2>3. /\ rel.subject = Member(l, r) /\ rel.counterpart = Other(l, r, Member(l, r))
        /\ rel.overlap = "UNKNOWN"
    BY <1>2, <1>3 DEF Derived, WitnessRequest
  <2> QED BY <1>2, <2>2, <2>3 DEF Other
<1>4. CASE Witnesses(l, r) = {}
  <2>1. /\ rel.subject = First(l, r) /\ rel.counterpart = Other(l, r, First(l, r))
        /\ rel.overlap = Overlap(PeriodOf(l), PeriodOf(r))
    BY <1>2, <1>4 DEF Derived, SharedEntity
  <2>2. \/ rel.subject = l /\ rel.counterpart = r
        \/ rel.subject = r /\ rel.counterpart = l
    BY <2>1 DEF First, Other
  <2>3. Overlap(PeriodOf(l), PeriodOf(r)) = Overlap(PeriodOf(r), PeriodOf(l))
    BY OverlapSymmetric
  <2> HIDE DEF Overlap
  <2> QED BY <1>2, <2>1, <2>2, <2>3
<1> QED
  BY <1>3, <1>4

\* The relations and the moves of a page are of what its request knows.
LEMMA PageIsOf ==
  ASSUME NEW r, NEW v, r.kind \in Kinds
  PROVE  /\ \A rel \in Page(r, v).relations : \E L, R \in SUBSET Known(v) :
              rel \in Relations(L, R, r.candidates)
         /\ \A m \in Page(r, v).moves : \E L \in SUBSET Known(v) : m \in Moves(L, r.candidates)
<1>1. \A p : Of(Known(v), p) \in SUBSET Known(v)
  BY DEF Of
<1>2. CASE r.kind = "PERSON"
  <2>1. /\ Page(r, v).relations = Relations(Of(Known(v), r.who[1]), Known(v), r.candidates)
        /\ Page(r, v).moves = Moves(Of(Known(v), r.who[1]), r.candidates)
    BY <1>2 DEF Page, PersonPage, RelationsFor
  <2>2. Known(v) \in SUBSET Known(v)
    OBVIOUS
  <2> QED BY <1>1, <2>1, <2>2, Zenon
<1>3. CASE r.kind = "COMPARE"
  <2>1. /\ Page(r, v).relations =
             Relations(Of(Known(v), r.who[1]), Of(Known(v), r.who[2]), r.candidates)
        /\ Page(r, v).moves = {}
    BY <1>3 DEF Page, ComparePage, DirectRelations
  <2>2. Page(r, v).moves = {} => ~ \E m : m \in Page(r, v).moves
    OBVIOUS
  <2> QED BY <1>1, <2>1, <2>2, Zenon
<1>4. CASE r.kind = "PATH"
  <2>1. Page(r, v).relations = {} /\ Page(r, v).moves = {}
    BY <1>4 DEF Page, PathPage, Nothing
  <2> QED BY <2>1
<1> QED
  BY <1>2, <1>3, <1>4 DEF Kinds

LEMMA PeriodsStand == IInv => PeriodsAreHonored
<1> SUFFICES ASSUME IInv, answer # None PROVE
      /\ \A rel \in answer.relations :
           rel.overlap = "VERIFIED" /\ (\A a \in Ends2(rel) : ~RecordedLater(a))
           => Meet(Held(rel.subject), Held(rel.counterpart))
      /\ \A m \in answer.moves :
           Text(m[1].claim).endUnit # "YEAR" /\ Text(m[2].claim).unit # "YEAR"
           => Held(m[1]).till < Held(m[2]).from
  BY DEF PeriodsAreHonored
<1>1. request.kind \in Kinds
  BY DEF IInv, Shapes, Answered, Asked
<1>2. answer = Nothing \/ answer = Page(request, view)
  BY DEF IInv, Answered
<1>3. view.claims \subseteq Claims
  BY DEF IInv, ReadTogether, Moments, Backed, Rows
<1>4. ASSUME NEW rel \in answer.relations, rel.overlap = "VERIFIED",
             \A a \in Ends2(rel) : ~RecordedLater(a)
      PROVE  Meet(Held(rel.subject), Held(rel.counterpart))
  <2> DEFINE a == rel.subject
             b == rel.counterpart
  <2>1. PICK L, R \in SUBSET Known(view) : rel \in Relations(L, R, request.candidates)
    <3>1. answer # Nothing
      BY <1>4 DEF Nothing
    <3> QED BY <1>1, <1>2, <1>4, <3>1, PageIsOf
  <2>2. a \in Known(view) /\ b \in Known(view) /\ Overlap(PeriodOf(a), PeriodOf(b)) = "VERIFIED"
    BY <1>4, <2>1, RelationEnds
  <2>3. ~RecordedLater(a) /\ ~RecordedLater(b)
    BY <1>4 DEF Ends2
  <2> HIDE DEF a, b
  <2>4. /\ a.claim[1] \in Texts /\ Lane(a) \in PeriodLanes
        /\ b.claim[1] \in Texts /\ Lane(b) \in PeriodLanes
    BY <1>3, <2>2, KnownTexts
  <2> DEFINE x == a.claim[1]
             y == b.claim[1]
  <2>5. /\ {TextOf[x].lane, TextOf[y].lane} \subseteq PeriodLanes
        /\ Overlap(Period(TextOf[x]), Period(TextOf[y])) = "VERIFIED"
    BY <2>2, <2>4 DEF Lane, PeriodOf, Text
  <2>6. ~ Later(TextOf[x]) /\ ~ Later(TextOf[y])
    BY <2>3 DEF RecordedLater, Later, Lane, PeriodOf, Text
  <2>7. x \in Texts /\ y \in Texts
    BY <2>4
  <2> HIDE DEF x, y
  <2>8. Meet(TextOf[x].held, TextOf[y].held)
    BY <2>5, <2>6, <2>7, OverlapHeld
  <2> QED BY <2>8 DEF Held, Text, x, y, a, b
<1>5. ASSUME NEW m \in answer.moves, Text(m[1].claim).endUnit # "YEAR", Text(m[2].claim).unit # "YEAR"
      PROVE  Held(m[1]).till < Held(m[2]).from
  <2>1. PICK L \in SUBSET Known(view) : m \in Moves(L, request.candidates)
    <3>1. answer # Nothing
      BY <1>5 DEF Nothing
    <3> QED BY <1>1, <1>2, <1>5, <3>1, PageIsOf
  <2>2. m[1] \in Known(view) /\ m[2] \in Known(view) /\ LeftBefore(m[1], m[2])
    BY <2>1 DEF Moves
  <2> DEFINE a == m[1]
             b == m[2]
  <2>3. /\ Lane(a) \in PeriodLanes /\ Truthful(Text(a.claim))
        /\ Lane(b) \in PeriodLanes /\ Truthful(Text(b.claim))
    BY <1>3, <2>2, KnownTexts
  <2>4. {Lane(a), Lane(b)} \subseteq PeriodLanes
    BY <2>3
  <2>5. Text(a.claim).held.till < Text(b.claim).held.from
    <3> HIDE DEF a, b
    <3>1. LeftBefore(a, b) /\ Text(a.claim).endUnit # "YEAR" /\ Text(b.claim).unit # "YEAR"
      BY <1>5, <2>2 DEF a, b
    <3> QED BY <2>3, <2>4, <3>1, MoveHeld
  <2> QED BY <2>5 DEF Held
<1> QED
  BY <1>4, <1>5

(* Where sources are to be taken at their word, so are the pages: people   *)
(* said to have been somewhere together were there together, unless one of *)
(* them by a line that was over or undated when it was recorded, and a     *)
(* move stated to the month was made in that order.                        *)
THEOREM PeriodsHold == Spec => []PeriodsAreHonored
<1>1. Init => IInv
  BY InitHolds
<1>2. IInv /\ [Next]_vars => IInv'
  BY NextKeeps
<1>3. IInv => PeriodsAreHonored
  BY PeriodsStand
<1> QED
  BY <1>1, <1>2, <1>3, PTL DEF Spec

-----------------------------------------------------------------------------
(* What a request has read is of its type, at whatever moment each part was *)
(* read; links are those that could be followed in the organizations read, *)
(* and come after them.                                                    *)

Reads ==
  /\ bounds.edits \in Nat
  /\ view.people \subseteq People /\ view.orgs \subseteq Orgs
  /\ view.claims \subseteq Claims /\ view.parts \subseteq Claims
  /\ view.lists \subseteq DOMAIN ListOrg /\ view.links \subseteq Targets
  /\ \A t \in view.links : Linkable(view, t)
  /\ view.links # {} => view.at \in {"BILLS", "PARTS", "ANSWER"}
  /\ answer # None => (answer.known => view.at = "ANSWER")

\* A link that can be followed leads to an organization that was read.
LEMMA CrosswalkFinds ==
  ASSUME NEW orgs, NEW name, Crosswalk(orgs, name) # None
  PROVE  Crosswalk(orgs, name) \in orgs
<1> DEFINE named == {o \in orgs : OrgName[o] = name}
<1>1. Cardinality(named) = 1
  BY DEF Crosswalk
<1>2. named # {}
  BY <1>1, FS_EmptySet
<1>3. Crosswalk(orgs, name) = CHOOSE o \in named : TRUE
  BY <1>1 DEF Crosswalk
<1>4. (CHOOSE o \in named : TRUE) \in named
  BY <1>2
<1> QED
  BY <1>3, <1>4

LEMMA FreshReads ==
  ASSUME view' = Fresh, answer' = None, bounds'.edits \in Nat
  PROVE  Reads'
BY DEF Reads, Fresh

LEMMA ReadsServed ==
  ASSUME IInv, Reads, Serve
  PROVE  Reads'
<1>0. request # None /\ answer = None /\ Reading
  BY DEF Serve, Check, ReadPeople, ReadOrganizations, ReadClaims, ReadLists, ReadRegistry,
         ReadListed, ReadLinks, ReadBills, ReadParts, Answer, At
<1>1. DOMAIN view = DOMAIN Fresh /\ db \in Rows /\ bounds' = bounds
  BY <1>0 DEF IInv, Shapes, Moments, Backed, Reading
<1>2. db.claims \subseteq Claims /\ db.orgs \subseteq Orgs /\ db.targets \subseteq Targets
      /\ db.lists \subseteq DOMAIN ListOrg
  BY <1>1 DEF Rows
<1>3. CASE Check
  <2>1. CASE answer' = Nothing /\ view' = view
    BY <1>1, <2>1 DEF Reads, Nothing, Linkable
  <2>2. CASE answer' = answer /\ view.at = "CHECK"
             /\ view' = [view EXCEPT !.checked = view.checked + 1,
                                     !.at = IF view.checked + 1 = Len(request.who) THEN "PEOPLE" ELSE @]
    BY <1>0, <1>1, <2>2 DEF Reads, Fresh
  <2> QED
    BY <1>3, <2>1, <2>2 DEF Check, At
<1>4. CASE ReadPeople
  BY <1>0, <1>1, <1>4 DEF Reads, ReadPeople, At, Fresh
<1>5. CASE ReadOrganizations
  BY <1>0, <1>1, <1>2, <1>5 DEF Reads, ReadOrganizations, At, Fresh
<1>6. CASE ReadClaims
  BY <1>0, <1>1, <1>2, <1>6 DEF Reads, ReadClaims, Contexts, At, Fresh
<1>7. CASE ReadLists
  <2>1. /\ view'.orgs = view.orgs /\ view'.people = view.people
        /\ view'.claims = view.claims /\ view'.parts = view.parts
        /\ view'.lists \subseteq view.lists \cup db.lists /\ view'.links = view.links
        /\ view.at = "LISTS"
    BY <1>1, <1>7 DEF ReadLists, At, Fresh
  <2> QED
    BY <1>0, <1>1, <1>2, <1>7, <2>1 DEF Reads, ReadLists
<1>8. CASE ReadRegistry
  BY <1>0, <1>1, <1>8 DEF Reads, ReadRegistry, At, Fresh
<1>9. CASE ReadListed
  BY <1>0, <1>1, <1>9 DEF Reads, ReadListed, At, Fresh
<1>10. CASE ReadLinks
  <2>1. /\ view'.orgs = view.orgs /\ view'.listed = view.listed /\ view'.people = view.people
        /\ view'.claims = view.claims /\ view'.parts = view.parts /\ view'.lists = view.lists
        /\ view'.at \in {"ANSWER", "BILLS"} /\ view'.links = {t \in db.targets : Linkable(view, t)}
    BY <1>1, <1>10 DEF ReadLinks, Fresh
  <2>2. \A t \in view'.links : Linkable(view', t)
    BY <2>1 DEF Linkable
  <2> QED
    BY <1>0, <1>1, <1>2, <1>10, <2>1, <2>2 DEF Reads, ReadLinks
<1>11. CASE ReadBills
  <2>1. /\ view'.orgs = view.orgs /\ view'.listed = view.listed /\ view'.people = view.people
        /\ view'.claims = view.claims /\ view'.parts = view.parts /\ view'.lists = view.lists
        /\ view'.at = "PARTS" /\ view'.links = view.links
    BY <1>1, <1>11 DEF ReadBills, Fresh
  <2>2. \A t \in view'.links : Linkable(view', t)
    BY <2>1 DEF Linkable, Reads
  <2> QED
    BY <1>0, <1>1, <1>11, <2>1, <2>2 DEF Reads, ReadBills
<1>12. CASE ReadParts
  <2>1. /\ view'.orgs = view.orgs /\ view'.listed = view.listed /\ view'.people = view.people
        /\ view'.claims = view.claims /\ view'.parts \subseteq view.parts \cup db.claims
        /\ view'.lists = view.lists
        /\ view'.at \in {"PARTS", "ANSWER"} /\ view'.links = view.links
    BY <1>1, <1>12 DEF ReadParts, At, Fresh
  <2>2. \A t \in view'.links : Linkable(view', t)
    BY <2>1 DEF Linkable, Reads
  <2> QED
    BY <1>0, <1>1, <1>2, <1>12, <2>1, <2>2 DEF Reads, ReadParts
<1>13. CASE Answer
  BY <1>1, <1>13 DEF Reads, Answer, At, Linkable
<1> QED
  BY <1>3, <1>4, <1>5, <1>6, <1>7, <1>8, <1>9, <1>10, <1>11, <1>12, <1>13 DEF Serve

LEMMA ReadsKept ==
  ASSUME IInv, Reads, [Next]_vars
  PROVE  Reads'
<1>1. CASE Edit
  <2>1. PICK d : Backed(d) /\ Committed(d)
    BY <1>1, EditBacked
  <2>2. bounds' = [bounds EXCEPT !.edits = @ - 1] /\ bounds.edits > 0 /\ view' = view /\ answer' = answer
    BY <2>1 DEF Committed
  <2>3. bounds'.edits \in Nat
    BY <2>2 DEF Reads, IInv, Shapes
  <2> QED
    BY <2>2, <2>3 DEF Reads, Linkable
<1>2. ASSUME NEW r \in bounds.requests, Ask(r) PROVE Reads'
  <2>1. view' = Fresh /\ answer' = None /\ bounds' = [bounds EXCEPT !.requests = @ \ {r}]
    BY <1>2 DEF Ask
  <2>2. bounds'.edits \in Nat
    BY <2>1 DEF Reads, IInv, Shapes
  <2> QED
    BY <2>1, <2>2, FreshReads
<1>3. CASE Serve
  BY <1>3, ReadsServed
<1>4. CASE Expire
  BY <1>4 DEF Reads, Expire, Linkable
<1>5. CASE Done
  BY <1>5, FreshReads DEF Reads, Done
<1>6. CASE UNCHANGED vars
  BY <1>6 DEF Reads, vars, Linkable
<1> QED
  BY <1>1, <1>2, <1>3, <1>4, <1>5, <1>6 DEF Next

LEMMA TypesOfReads == IInv /\ Reads => TypeOK
<1> SUFFICES ASSUME IInv, Reads PROVE TypeOK
  OBVIOUS
<1>1. db \in Rows /\ seen \subseteq Rows /\ db \in seen
  BY DEF IInv, Moments, Backed
<1>2. ASSUME NEW l \in Links(view) PROVE {l.from, l.to} \subseteq view.orgs
  <2>1. PICK t \in view.links : l = [from |-> t.org, to |-> Crosswalk(view.orgs, t.name),
                                     claim |-> <<t.org, None>>]
    BY DEF Links
  <2>2. t.org \in view.orgs /\ Crosswalk(view.orgs, t.name) # None
    BY DEF Reads, Linkable
  <2> QED
    BY <2>1, <2>2, CrosswalkFinds
<1>3. bounds.drafts \subseteq Claims
  BY DEF IInv, Shapes
<1>4. answer # None => request # None
  BY DEF IInv, Answered
<1> QED
  BY <1>1, <1>2, <1>3, <1>4 DEF TypeOK, Reads

(* What a request has read is of its type whatever commits between its     *)
(* reads, a page is answered after the last of them, and its links lead    *)
(* between organizations it has read.                                      *)
THEOREM PageTypes == Spec => []TypeOK
<1>1. Init => IInv /\ Reads
  <2> SUFFICES ASSUME Init PROVE Reads /\ IInv
    OBVIOUS
  <2>1. IInv
    BY InitHolds
  <2>2. Reads
    BY StartsAssumption DEF Init, Reads, Fresh
  <2> QED
    BY <2>1, <2>2
<1>2. (IInv /\ Reads) /\ [Next]_vars => (IInv /\ Reads)'
  BY NextKeeps, ReadsKept
<1>3. IInv /\ Reads => TypeOK
  BY TypesOfReads
<1> QED
  BY <1>1, <1>2, <1>3, PTL DEF Spec
=============================================================================
