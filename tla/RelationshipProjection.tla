----------------------- MODULE RelationshipProjection -----------------------
(***************************************************************************)
(* What the relationship pages compute from published person claims:      *)
(* packages/rendering/relationship_projection.py, and the registry of      *)
(* organization names of relationship_bindings.py.  All of it is computed  *)
(* anew for every request; nothing is stored.                              *)
(*                                                                         *)
(* A claim is a text, which names its subject no more, and the person it   *)
(* is about: a merge copies texts to another person.  A text that states a *)
(* period carries the period it is about (held) besides the units it       *)
(* states it in, so that a property can compare what is concluded from     *)
(* the text with what is the case.  Days are numbered; months and years    *)
(* have a fixed number of days.                                            *)
(***************************************************************************)
EXTENDS Naturals, FiniteSets, SequencesExt

CONSTANTS
  None,        \* Python's None
  People,      \* person ids, ordered as their strings are
  TextOf,      \* the texts of claims, by name
  OrgName,     \* organizations, with the committee each is named after, or None
  Special,     \* committee names ending in the word for a special committee
  MonthDays,   \* days of a month
  YearDays     \* days of a year

ASSUME PeopleAssumption == People \subseteq Nat
ASSUME CalendarAssumption == {MonthDays, YearDays} \subseteq Nat \ {0}

Texts == DOMAIN TextOf
Orgs == DOMAIN OrgName
Claims == Texts \X People
Text(c) == TextOf[c[1]]
Who(c) == c[2]

Units == {"DAY", "MONTH", "YEAR"}
ASSUME NoneAssumption == None \notin Nat /\ None \notin Units

UnitDays(u) == CASE u = "DAY" -> 1 [] u = "MONTH" -> MonthDays [] u = "YEAR" -> YearDays
FirstOf(d, u) == d - (d % UnitDays(u))
LastOf(d, u) == FirstOf(d, u) + UnitDays(u) - 1            \* _unit_end

-----------------------------------------------------------------------------
(* Periods *)

Undated == [start |-> None, end |-> None, asOf |-> None, ongoing |-> FALSE,
            captures |-> {}]

(* A stated date is kept as the first day of its unit.                     *)
StatedStart(t) == IF t.unit = None THEN None ELSE FirstOf(t.held.from, t.unit)
StatedEnd(t) == IF t.endUnit = None THEN None ELSE FirstOf(t.held.till, t.endUnit)

(* The start is moved to the end of its unit, the end stays at the first   *)
(* day of its own; a period turned round by that is no period.             *)
BoundsAsStated(t) ==                         \* mutant: the start is not moved
  [Undated EXCEPT !.start = StatedStart(t), !.end = StatedEnd(t)]
Bounds(t) ==
  LET start == IF t.unit = None THEN None ELSE LastOf(StatedStart(t), t.unit)
      end == StatedEnd(t)
  IN IF start # None /\ end # None /\ end < start THEN Undated
     ELSE [Undated EXCEPT !.start = start, !.end = end]

(* The period of a claim, by the lane it comes from.  Rosters and          *)
(* disclosures list a person on a day; a biography states a period, and    *)
(* its career lines carry the day the biography was recorded as well.      *)
Period(t) ==
  CASE t.lane \in {"COMMITTEE", "PARTY", "ALIO"} ->
         [Undated EXCEPT !.asOf = t.listed, !.captures = {t.capture} \ {None}]
    [] t.lane = "DART" ->
         [Undated EXCEPT !.start = IF t.unit = "DAY" THEN t.held.from ELSE None,
                         !.asOf = t.listed, !.captures = {t.capture} \ {None}]
    [] t.lane = "WITNESS"   -> [Undated EXCEPT !.asOf = t.listed]
    [] t.lane = "EDUCATION" -> Bounds(t)
    [] t.lane = "CAREER"    -> [Bounds(t) EXCEPT !.asOf = t.listed, !.ongoing = t.ongoing]
    [] t.lane = "TERM"      -> [Undated EXCEPT !.start = t.held.from, !.end = t.held.till]

(* Sources are taken at their word: a list is true of the day it is of, an *)
(* activity that is said to go on still went on when that was recorded,    *)
(* and there is a day of every capture on which all that it lists held.    *)
PeriodLanes == {"COMMITTEE", "PARTY", "ALIO", "DART", "WITNESS", "EDUCATION", "CAREER", "TERM"}
Holds(t, d) == t.held.from <= d /\ d <= t.held.till
Truthful(t) ==
  /\ t.held.from \in Nat /\ t.held.till \in Nat
  /\ {t.unit, t.endUnit} \subseteq Units \cup {None}
  /\ t.listed \in Nat \cup {None}
  /\ t.listed # None /\ (t.lane = "CAREER" => t.ongoing) => Holds(t, t.listed)
Captured(x) == {t \in {TextOf[y] : y \in Texts} : t.capture = x}

ASSUME SourcesAssumption ==
  /\ \A x \in Texts : TextOf[x].lane \in PeriodLanes => Truthful(TextOf[x])
  /\ \A x \in Texts : TextOf[x].capture # None =>
       LET lists == Captured(TextOf[x].capture) IN
       \E d \in {t.listed : t \in lists} \cap Nat : \A t \in lists : Holds(t, d)

(* The interval a period is known to fill, None unless both sides are known. *)
Interval(p) ==
  IF p.start = None THEN None
  ELSE IF p.end # None THEN [from |-> p.start, till |-> p.end]
  ELSE IF p.ongoing /\ p.asOf # None THEN [from |-> p.start, till |-> p.asOf]
  ELSE None

Meet(a, b) == a.from <= b.till /\ b.from <= a.till
Listed(a, p) == a # None /\ p.asOf # None /\ a.from <= p.asOf /\ p.asOf <= a.till

Overlap(p, q) ==                             \* temporal_overlap
  LET a == Interval(p)  b == Interval(q) IN
  IF p.captures \cap q.captures # {} THEN "VERIFIED"
  ELSE IF a # None /\ b # None
       THEN IF Meet(a, b) THEN "VERIFIED" ELSE "NOT_OVERLAPPING"
  ELSE IF Listed(a, q) \/ Listed(b, p) THEN "VERIFIED"
  ELSE "UNKNOWN"

-----------------------------------------------------------------------------
(* The registry of names: entities with a name, a key, a kind and a tier,  *)
(* the lower tier first.                                                   *)

Entity(name, key, kind, tier) == [name |-> name, key |-> key, kind |-> kind, tier |-> tier]

Candidates(reg, name, kinds) ==
  LET hits == {e \in reg : e.name = name /\ e.kind \in kinds} IN
  {e \in hits : \A f \in hits : e.tier <= f.tier}

OneOf(found) ==            \* the entity of a set that has one key, or None
  IF Cardinality({e.key : e \in found}) = 1 THEN CHOOSE e \in found : TRUE ELSE None

Lookup(reg, name, kinds) == OneOf(Candidates(reg, name, kinds))

(* A line is given as the names its spans of words spell, longest spans    *)
(* first; the first length at which any is known decides, if it is one.    *)
Bind(reg, spans, kinds) ==
  LET Found(i) == UNION {Candidates(reg, n, kinds) : n \in spans[i]}
      known == {i \in 1 .. Len(spans) : Found(i) # {}}
  IN IF known = {} THEN None
     ELSE OneOf(Found(CHOOSE i \in known : \A j \in known : i <= j))

-----------------------------------------------------------------------------
(* Affiliations: a claim and the via entity it names, with its key across  *)
(* people, its kind, and whether the key identifies it.                    *)

Via(key, kind, bound) == [key |-> key, kind |-> kind, bound |-> bound]

(* The organization named after a committee, if there is exactly one.      *)
Crosswalk(orgs, name) ==
  LET named == {o \in orgs : OrgName[o] = name} IN
  IF Cardinality(named) = 1 THEN CHOOSE o \in named : TRUE ELSE None

CommitteeKind(name) ==
  IF name \in Special THEN "SPECIAL_COMMITTEE" ELSE "PARLIAMENTARY_COMMITTEE"

CommitteeVia(t, ctx) ==
  LET o == Crosswalk(ctx.orgs, t.name) IN
  Via(IF o = None THEN <<"committee", t.at>> ELSE <<"organization", o>>,
      CommitteeKind(t.name), TRUE)

(* A school: the university it is the official or reviewed name of, if any. *)
SchoolVia(t, ctx) ==
  LET e == IF t.name = None THEN None ELSE Lookup(ctx.registry, t.name, {"UNIVERSITY"}) IN
  Via(IF e # None THEN e.key
      ELSE IF t.name # None THEN <<"university", t.name>> ELSE <<"school", t.at>>,
      "EDUCATIONAL_INSTITUTION", t.name # None)

RegistryKinds == {"COMPANY", "PUBLIC_INSTITUTION", "GOVERNMENT_BODY"}
Unrelated == {"LEGISLATURE", "PARTY", "OTHER"}   \* NON_RELATION_CAREER_CATEGORIES
CareerKinds == {"CAMPAIGN", "TRANSITION_COMMITTEE", "GOVERNMENT_COMMITTEE",
                "CAREER_ORGANIZATION", "UNIVERSITY_EMPLOYER"}
CareerKind(t) == IF t.category \in CareerKinds THEN t.category ELSE "CAREER_ORGANIZATION"

(* name is the election body a campaign or transition line was recognized  *)
(* as, or None.                                                            *)
CareerVia(t, ctx) ==
  LET kind == CareerKind(t)
      kinds == IF kind = "GOVERNMENT_COMMITTEE" THEN {"GOVERNMENT_BODY"}
               ELSE RegistryKinds \cup {"UNIVERSITY"}
      e == Bind(ctx.registry, t.spans, kinds)
  IN CASE kind \in {"CAMPAIGN", "TRANSITION_COMMITTEE"} /\ t.name # None ->
            Via(<<kind, "election", t.name>>, kind, TRUE)
       [] kind = "GOVERNMENT_COMMITTEE" /\ e # None -> Via(e.key, kind, TRUE)
       [] kind = "CAREER_ORGANIZATION" /\ e # None ->
            Via(e.key, IF e.kind = "UNIVERSITY" THEN "UNIVERSITY_EMPLOYER" ELSE e.kind, TRUE)
       [] OTHER -> Via(<<kind, t.at>>, kind, FALSE)

(* extract_affiliations.  ctx.orgs are the current organizations,          *)
(* ctx.lists the organization of each standing witness list.               *)
Vias(t, ctx) ==
  CASE t.lane = "COMMITTEE" -> {CommitteeVia(t, ctx)}
    [] t.lane = "PARTY"     -> {Via(<<"party", t.at>>, "PARTY", TRUE)}
    [] t.lane = "ALIO"      -> {Via(<<"organization", o>>, "PUBLIC_INSTITUTION", TRUE) :
                                  o \in {t.at} \cap ctx.orgs}
    [] t.lane = "DART"      -> {Via(<<"corp", t.at>>, "COMPANY", TRUE)}
    [] t.lane = "WITNESS"   -> {Via(<<"organization", ctx.lists[k]>>, CommitteeKind(t.name), TRUE) :
                                  k \in {t.at} \cap DOMAIN ctx.lists}
    [] t.lane = "EDUCATION" -> {SchoolVia(t, ctx)}
    [] t.lane = "CAREER"    -> IF t.category \in Unrelated THEN {} ELSE {CareerVia(t, ctx)}
    [] t.lane = "TERM"      -> {Via(<<"term", t.at>>, "LEGISLATIVE_TERM", TRUE)} \cup
                               {Via(<<"term", t.at, n>>, "PARTY", TRUE) : n \in {t.name} \ {None}}
    [] OTHER                -> {}

Affiliation(c, v) == [claim |-> c, via |-> v]
Affiliations(cs, ctx) == UNION {{Affiliation(c, v) : v \in Vias(Text(c), ctx)} : c \in cs}
Of(affs, p) == {a \in affs : Who(a.claim) = p}
PeriodOf(a) == Period(Text(a.claim))
Lane(a) == Text(a.claim).lane

-----------------------------------------------------------------------------
(* Relations of two affiliations *)

(* What two people of one entity have in common: the kind, unless a line   *)
(* of a biography makes a company an employer, or a school has levels or   *)
(* one department.                                                         *)
Common(l, r, overlap) ==
  LET department == Text(l.claim).department IN
  CASE l.via.kind = "COMPANY" /\ {Lane(l), Lane(r)} # {"DART"} -> {"EMPLOYER"}
    [] l.via.kind = "EDUCATIONAL_INSTITUTION" /\ overlap # "VERIFIED" ->
         IF department # None /\ department = Text(r.claim).department
         THEN {"DEPARTMENT"} ELSE {Text(l.claim).level, Text(r.claim).level}
    [] OTHER -> {l.via.kind}

Witnesses(l, r) == {a \in {l, r} : Lane(a) = "WITNESS"}

BothBound(l, r) == l.via.bound /\ r.via.bound

(* derive_pair, where it returns a relation.                               *)
Derivable(l, r) ==
  /\ Who(l.claim) # Who(r.claim)
  /\ l.via.key = r.via.key
  /\ IF Witnesses(l, r) # {}
     THEN Cardinality({a \in {l, r} : Lane(a) = "COMMITTEE"}) = 1
     ELSE l.via.kind = r.via.kind

Member(l, r) == CHOOSE a \in {l, r} : Lane(a) = "COMMITTEE"
First(l, r) == IF Who(l.claim) < Who(r.claim) THEN l ELSE r
Other(l, r, a) == IF a = l THEN r ELSE l

WitnessRequest(l, r) ==
  [subject |-> Member(l, r), counterpart |-> Other(l, r, Member(l, r)),
   common |-> {"WITNESS_REQUEST"}, overlap |-> "UNKNOWN", derived |-> TRUE]

SharedEntity(l, r) ==
  LET overlap == Overlap(PeriodOf(l), PeriodOf(r)) IN
  [subject |-> First(l, r), counterpart |-> Other(l, r, First(l, r)),
   common |-> Common(l, r, overlap), overlap |-> overlap, derived |-> BothBound(l, r)]

Derived(l, r) == IF Witnesses(l, r) # {} THEN WitnessRequest(l, r) ELSE SharedEntity(l, r)

Ends(rel) == {rel.subject.claim, rel.counterpart.claim}
Concerns(rel, p) == \E c \in Ends(rel) : Who(c) = p

(* Pairs come from a shared entity; a relation through unbound text is     *)
(* left out unless it is asked for.                                        *)
Relations(own, others, candidates) ==
  LET pairs == {x \in own \X others : Derivable(x[1], x[2])} IN
  {rel \in {Derived(x[1], x[2]) : x \in pairs} : rel.derived \/ candidates}

RelationsFor(p, affs, candidates) == Relations(Of(affs, p), affs, candidates)
DirectRelations(p, q, affs, candidates) == Relations(Of(affs, p), Of(affs, q), candidates)

(* cosponsorship_pairs: who took part in how many of the bills p took part *)
(* in, and through which claims.                                           *)
Cosponsors(p, parts) ==
  LET BillsOf(q) == {Text(c).at : c \in {b \in parts : Who(b) = q}}
      shared(q) == BillsOf(p) \cap BillsOf(q)
  IN {[person |-> q, bills |-> shared(q),
       claims |-> {c \in parts : Who(c) \in {p, q} /\ Text(c).at \in shared(q)}] :
        q \in {x \in {Who(c) : c \in parts} \ {p} : shared(x) # {}}}

-----------------------------------------------------------------------------
(* Moves between sectors, from stated periods *)

Sector(kind) ==
  CASE kind = "GOVERNMENT_BODY" -> "GOVERNMENT"
    [] kind = "PUBLIC_INSTITUTION" -> "PUBLIC_INSTITUTION"
    [] kind = "COMPANY" -> "BUSINESS"
    [] OTHER -> None

RevolvingDoor == {<<"GOVERNMENT", "BUSINESS">>, <<"BUSINESS", "GOVERNMENT">>,
                  <<"PUBLIC_INSTITUTION", "BUSINESS">>, <<"BUSINESS", "PUBLIC_INSTITUTION">>}

Month(d) == d \div MonthDays

LeftBefore(a, b) ==
  /\ PeriodOf(a).end # None
  /\ PeriodOf(b).start # None
  /\ Month(PeriodOf(a).end) < Month(PeriodOf(b).start)

Moves(own, candidates) ==                    \* career_transitions
  LET dated == {a \in own : Sector(a.via.kind) # None /\ (candidates \/ a.via.bound)} IN
  {m \in dated \X dated : /\ LeftBefore(m[1], m[2])
                         /\ <<Sector(m[1].via.kind), Sector(m[2].via.kind)>> \in RevolvingDoor}

-----------------------------------------------------------------------------
(* The shortest path between two people: breadth first over people and via *)
(* entities, and over organizations listed as audited by a committee.      *)

Unwalked == {"PARTY", "BILL", "LEGISLATIVE_TERM"}      \* NON_PATH_KINDS

Person(p) == <<"person", p>>
ViaNode(key) == <<"via", key>>

(* links: pairs of an organization and the committee's, each with a claim. *)
Edges(affs, links, extra) ==
  {[ends |-> {Person(Who(a.claim)), ViaNode(a.via.key)}, claim |-> a.claim] :
     a \in {x \in affs : x.via.bound /\ x.via.kind \notin Unwalked \ extra}}
  \cup {[ends |-> {ViaNode(<<"organization", l.from>>), ViaNode(<<"organization", l.to>>)},
         claim |-> l.claim] : l \in links}

Around(edges, node) == {e \in edges : node \in e.ends}
Across(e, node) == IF e.ends = {node} THEN node ELSE CHOOSE n \in e.ends : n # node

ExtendsTooFar(depth, max) == depth <= max        \* mutant: one edge more than asked
Extends(depth, max) == depth < max

(* One turn of the loop: previous holds, for each node met, the node and   *)
(* the edge it was met from, of the origin nothing.                        *)
Turn(s, edges, target, max) ==
  IF s.queue = <<>> \/ Head(s.queue).node = target THEN s
  ELSE LET node == Head(s.queue).node
           depth == Head(s.queue).depth
           new == IF Extends(depth, max)
                  THEN {Across(e, node) : e \in Around(edges, node)} \ DOMAIN s.previous
                  ELSE {}
           order == SetToSeq(new)      \* neighbours are taken in a fixed order
       IN [queue |-> Tail(s.queue) \o [i \in DOMAIN order |-> [node |-> order[i], depth |-> depth + 1]],
           previous |-> [n \in DOMAIN s.previous \cup new |->
             IF n \in new THEN <<node, CHOOSE e \in Around(edges, node) : Across(e, node) = n>>
             ELSE s.previous[n]]]

Origin(p) == [queue |-> <<[node |-> Person(p), depth |-> 0]>>,
              previous |-> [n \in {Person(p)} |-> <<>>]]

(* What the loop has met when it ends: a turn takes one node off the queue.*)
Met(p, q, edges, max) ==
  LET n == Cardinality(UNION {e.ends : e \in edges})
      turn[i \in 0 .. n] ==
        IF i = 0 THEN Origin(p) ELSE Turn(turn[i - 1], edges, Person(q), max)
  IN turn[n].previous

(* The edges from the origin to a node met, read backwards.                *)
Chain(previous, node) ==
  LET chain[n \in DOMAIN previous] ==
        IF previous[n] = <<>> THEN <<>> ELSE Append(chain[previous[n][1]], previous[n][2])
  IN chain[node]

(* The path to the target, if it was met: a set of at most one.            *)
Search(p, q, edges, max) ==
  LET previous == Met(p, q, edges, max) IN
  IF /\ {Person(p), Person(q)} \subseteq UNION {e.ends : e \in edges}
     /\ Person(q) \in DOMAIN previous
  THEN {Chain(previous, Person(q))}
  ELSE {}
=============================================================================
