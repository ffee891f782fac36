------------------------- MODULE RelationshipGraph -------------------------
(***************************************************************************)
(* The relationship pages of the public API: apps/api/main.py asks the     *)
(* repository for people, organizations, claims, witness lists, names,     *)
(* audit targets and bills, each in a session of its own, and projects     *)
(* what it got (packages/rendering/relationship_graph.py).  Operators and  *)
(* importers commit between any two of these reads, and the registry of    *)
(* names is kept for ten minutes across requests.                          *)
(*                                                                         *)
(* Evidence rows are immutable, and sources and policies are taken to      *)
(* admit every published claim, so the gate rejects nothing.               *)
(***************************************************************************)
EXTENDS RelationshipProjection

CONSTANTS
  Starts,           \* where a behaviour may begin: [db, requests, edits, drafts]
  InstitutionName,  \* the registry name of each organization, or None
  OfficialRows,     \* collected rows naming companies, agencies, universities
  ListOrg,          \* witness lists, with the committee organization of each
  Targets,          \* audit target claims: [org, name] of an institution and its committee
  AtOnce            \* keys to a statement, where a read takes several (1,000 in the code)

VARIABLES
  db,        \* committed rows, see Rows
  bounds,    \* what may still happen: [requests, edits, drafts]
  registry,  \* the cached registry of names, or None
  request,   \* the request being answered, or None
  view,      \* what it has read so far, by part
  answer,    \* its answer, or None
  seen       \* history: the database at every moment since the request began

vars == <<db, bounds, registry, request, view, answer, seen>>

(* claims: published and current person claims; active: people neither     *)
(* merged nor deactivated; linked: people made from a source context;      *)
(* orgs: organizations; lists: witness lists not superseded; targets and   *)
(* classified: organizations' claims that are published and current.       *)
Rows == [claims : SUBSET Claims, active : SUBSET People, linked : SUBSET People,
         orgs : SUBSET Orgs, lists : SUBSET DOMAIN ListOrg,
         targets : SUBSET Targets, classified : SUBSET Orgs]

Kinds == {"PERSON", "COMPARE", "PATH"}

(* A database has finitely many rows, and published claims are of people   *)
(* who stand; a comparison or a path is of two people.                     *)
Backed(d) ==
  /\ d \in Rows /\ IsFiniteSet(d.claims) /\ IsFiniteSet(d.targets)
  /\ \A c \in d.claims : Who(c) \in d.active

ASSUME StartsAssumption ==
  \A s \in Starts :
    /\ Backed(s.db)
    /\ s.edits \in Nat
    /\ s.drafts \subseteq Claims
    /\ \A r \in s.requests : /\ r.kind \in Kinds
                             /\ r.who \in Seq(People) /\ r.max \in Nat
                             /\ Len(r.who) = IF r.kind = "PERSON" THEN 1 ELSE 2

ASSUME StatementsAssumption == AtOnce \in Nat \ {0}
ASSUME ListsAssumption == ListOrg \in [DOMAIN ListOrg -> Orgs]

Anchored(d, p) == \E c \in d.claims : Who(c) = p /\ Text(c).lane = "ANCHOR"
Public(d, p) == p \in d.active /\ (p \in d.linked => Anchored(d, p))
ClaimsOf(d, p) == {c \in d.claims : Who(c) = p}

-----------------------------------------------------------------------------
(* What commits beside a request *)

Committed(d) ==
  /\ bounds.edits > 0
  /\ db' = d
  /\ bounds' = [bounds EXCEPT !.edits = @ - 1]
  /\ seen' = seen \cup {d}
  /\ UNCHANGED <<registry, request, view, answer>>

Publish(c) ==
  /\ c \in bounds.drafts \ db.claims
  /\ Who(c) \in db.active
  /\ Committed([db EXCEPT !.claims = @ \cup {c}])

Withdraw(c) ==
  /\ c \in db.claims
  /\ Committed([db EXCEPT !.claims = @ \ {c}])

Deactivate(p) ==
  /\ p \in db.active
  /\ Committed([db EXCEPT !.active = @ \ {p}, !.claims = @ \ ClaimsOf(db, p)])

(* The claims and links of the person are superseded and copied.           *)
Merge(p, t) ==
  /\ {p, t} \subseteq db.active /\ p # t
  /\ Committed([db EXCEPT
       !.active = @ \ {p},
       !.linked = IF p \in @ THEN (@ \ {p}) \cup {t} ELSE @,
       !.claims = (@ \ ClaimsOf(db, p)) \cup {<<c[1], t>> : c \in ClaimsOf(db, p)}])

Restating(d, k) == {c \in d.claims : Text(c).lane = "WITNESS" /\ Text(c).at = k}

(* A list that is withdrawn is withheld, and with it what restates it; one *)
(* that is corrected is superseded.                                        *)
WithdrawList(k) ==
  /\ k \in db.lists
  /\ Committed([db EXCEPT !.claims = @ \ Restating(db, k)])

CorrectList(k) ==
  /\ k \in db.lists
  /\ Committed([db EXCEPT !.lists = @ \ {k}])

(* The importers make an organization alone, with the claim that classifies*)
(* it, or with a witness list; an audit target claim is of one there is.   *)
(* An import of several is a step for each: no read tells them apart.      *)
Found(o) ==
  /\ o \notin db.orgs
  /\ Committed([db EXCEPT !.orgs = @ \cup {o}])

ImportClassified(o) ==
  /\ o \notin db.classified
  /\ Committed([db EXCEPT !.orgs = @ \cup {o}, !.classified = @ \cup {o}])

ImportList(k) ==
  /\ k \notin db.lists /\ Restating(db, k) = {}
  /\ Committed([db EXCEPT !.orgs = @ \cup {ListOrg[k]}, !.lists = @ \cup {k}])

ImportTarget(t) ==
  /\ t.org \in db.orgs /\ t \notin db.targets
  /\ Committed([db EXCEPT !.targets = @ \cup {t}])

(* An operator withdraws such a claim; publishing it again is the step that*)
(* imports it.                                                             *)
WithdrawClassification(o) ==
  /\ o \in db.classified
  /\ Committed([db EXCEPT !.classified = @ \ {o}])

WithdrawTarget(t) ==
  /\ t \in db.targets
  /\ Committed([db EXCEPT !.targets = @ \ {t}])

Edit ==
  \/ \E c \in Claims : Publish(c) \/ Withdraw(c)
  \/ \E p \in People : Deactivate(p)
  \/ \E p, t \in People : Merge(p, t)
  \/ \E k \in DOMAIN ListOrg : WithdrawList(k) \/ CorrectList(k) \/ ImportList(k)
  \/ \E o \in Orgs : Found(o) \/ ImportClassified(o) \/ WithdrawClassification(o)
  \/ \E t \in Targets : ImportTarget(t) \/ WithdrawTarget(t)

-----------------------------------------------------------------------------
(* The registry of names *)

Institutions(d) == {o \in d.classified \cap d.orgs : InstitutionName[o] # None}

(* A row of a unit, not of an institution, is used for agencies only, and  *)
(* not under a short name; kind is what the type of the row stands for.    *)
RegistryRows(d) ==
  {Entity(InstitutionName[o], <<"organization", o>>, "PUBLIC_INSTITUTION", 0) :
     o \in Institutions(d)}
  \cup
  {Entity(r.name, <<IF r.table = "OPENDART" THEN "corp" ELSE "mois", r.code>>, r.kind,
          CASE r.table = "OPENDART" -> 1 [] r.table = "MOIS" -> 2 [] OTHER -> 3) :
     r \in {x \in OfficialRows :
              /\ x.kind # None
              /\ x.table = "MOIS_UNIT" => x.kind = "GOVERNMENT_BODY" /\ ~x.short}}

-----------------------------------------------------------------------------
(* A request, one read after the other *)

Fresh == [at |-> "CHECK", checked |-> 0, people |-> {}, orgs |-> {}, claims |-> {},
          lists |-> {}, names |-> {}, listed |-> {}, links |-> {}, parts |-> {},
          left |-> {}]   \* the keys a read of several statements has still to ask for

Ask(r) ==
  /\ request = None
  /\ request' = r
  /\ bounds' = [bounds EXCEPT !.requests = @ \ {r}]
  /\ view' = Fresh
  /\ answer' = None
  /\ seen' = {db}
  /\ UNCHANGED <<db, registry>>

At(step) == request # None /\ answer = None /\ view.at = step

Reading == UNCHANGED <<db, bounds, request, seen>>

Nothing == [known |-> FALSE, relations |-> {}, moves |-> {}, pairs |-> {}, path |-> {}]

(* person_or_404, for each person asked about.  Nobody comes back from     *)
(* being merged or deactivated, so of its two reads the last decides.      *)
Check ==
  LET n == view.checked + 1 IN
  /\ At("CHECK")
  /\ IF Public(db, request.who[n])
     THEN /\ view' = [view EXCEPT !.checked = n,
                                  !.at = IF n = Len(request.who) THEN "PEOPLE" ELSE @]
          /\ UNCHANGED answer
     ELSE answer' = Nothing /\ UNCHANGED view
  /\ UNCHANGED registry
  /\ Reading

ReadPeople ==
  /\ At("PEOPLE")
  /\ view' = [view EXCEPT !.at = "ORGS", !.people = {p \in People : Public(db, p)}]
  /\ UNCHANGED <<registry, answer>>
  /\ Reading

ReadOrganizations ==
  /\ At("ORGS")
  /\ view' = [view EXCEPT !.at = "CLAIMS", !.orgs = db.orgs]
  /\ UNCHANGED <<registry, answer>>
  /\ Reading

(* One statement for the claims of all people.                             *)
ContextsOneByOne(people) ==                  \* mutant: a statement for each of them
  {c \in UNION {d.claims : d \in seen} : Who(c) \in people}
Contexts(people) == {c \in db.claims : Who(c) \in people}

Cited(claims) == {Text(c).at : c \in {x \in claims : Text(x).lane = "WITNESS"}}

ReadClaims ==
  /\ At("CLAIMS")
  /\ LET claims == {c \in Contexts(view.people) : Text(c).lane \notin {"BILL", "ANCHOR"}} IN
     view' = [view EXCEPT !.at = "LISTS", !.claims = claims, !.left = Cited(claims)]
  /\ UNCHANGED <<registry, answer>>
  /\ Reading

(* The keys of one statement of several.                                   *)
Portions(keys) ==
  {some \in SUBSET keys :
     Cardinality(some) = IF Cardinality(keys) < AtOnce THEN Cardinality(keys) ELSE AtOnce}

(* A list counts unless it is superseded; it may have been withheld.       *)
ReadLists ==
  /\ At("LISTS")
  /\ \E some \in Portions(view.left) :
       view' = [view EXCEPT
                  !.at = IF some = view.left THEN "NAMES" ELSE @,
                  !.left = @ \ some,
                  !.lists = @ \cup {k \in some \cap db.lists : ListOrg[k] \in view.orgs}]
  /\ UNCHANGED <<registry, answer>>
  /\ Reading

ReadRegistry ==
  /\ At("NAMES")
  /\ registry' = IF registry = None THEN RegistryRows(db) ELSE registry
  /\ view' = [view EXCEPT !.at = "LISTED", !.names = registry']
  /\ UNCHANGED answer
  /\ Reading

Expire ==
  /\ registry # None
  /\ registry' = None
  /\ UNCHANGED <<db, bounds, request, view, answer, seen>>

(* public_organizations: those with a published claim of any kind.         *)
ReadListed ==
  /\ At("LISTED")
  /\ view' = [view EXCEPT !.at = "LINKS",
                          !.listed = db.classified \cup {t.org : t \in db.targets}]
  /\ UNCHANGED <<registry, answer>>
  /\ Reading

LinkableUnread(v, t) ==                      \* mutant: the organization was not read
  t.org \in v.listed /\ Crosswalk(v.orgs, t.name) # None
Linkable(v, t) == t.org \in v.listed \cap v.orgs /\ Crosswalk(v.orgs, t.name) # None

ReadLinks ==
  /\ At("LINKS")
  /\ view' = [view EXCEPT
                !.at = IF request.kind = "PATH" THEN "ANSWER" ELSE "BILLS",
                !.links = {t \in db.targets : Linkable(view, t)}]
  /\ UNCHANGED <<registry, answer>>
  /\ Reading

(* published_bill_participants: the bills of the first person asked about, *)
(* then everybody's part in them, so many bills to a statement.            *)
ReadBills ==
  /\ At("BILLS")
  /\ view' = [view EXCEPT !.at = "PARTS",
                          !.left = {Text(c).at : c \in {x \in ClaimsOf(db, request.who[1]) :
                                                         Text(x).lane = "BILL"}}]
  /\ UNCHANGED <<registry, answer>>
  /\ Reading

ReadParts ==
  /\ At("PARTS")
  /\ \E some \in Portions(view.left) :
       view' = [view EXCEPT
                  !.at = IF some = view.left THEN "ANSWER" ELSE @,
                  !.left = @ \ some,
                  !.parts = @ \cup {c \in db.claims : Text(c).lane = "BILL" /\ Text(c).at \in some}]
  /\ UNCHANGED <<registry, answer>>
  /\ Reading

Context(v) == [orgs |-> v.orgs, registry |-> v.names,
               lists |-> [k \in v.lists |-> ListOrg[k]]]
Known(v) == Affiliations(v.claims, Context(v))
Links(v) == {[from |-> t.org, to |-> Crosswalk(v.orgs, t.name), claim |-> <<t.org, None>>] :
                t \in v.links}

PathOf(r, v) ==
  Search(r.who[1], r.who[Len(r.who)], Edges(Known(v), Links(v), r.extra), r.max)

PersonPage(r, v) ==
  [known |-> TRUE,
   relations |-> RelationsFor(r.who[1], Known(v), r.candidates),
   moves |-> Moves(Of(Known(v), r.who[1]), r.candidates),
   pairs |-> Cosponsors(r.who[1], v.parts),
   path |-> {}]

ComparePage(r, v) ==
  [known |-> TRUE,
   relations |-> DirectRelations(r.who[1], r.who[2], Known(v), r.candidates),
   moves |-> {},
   pairs |-> {c \in Cosponsors(r.who[1], v.parts) : c.person = r.who[2]},
   path |-> PathOf(r, v)]

PathPage(r, v) == [Nothing EXCEPT !.known = TRUE, !.path = PathOf(r, v)]

Page(r, v) == CASE r.kind = "PERSON"  -> PersonPage(r, v)
                [] r.kind = "COMPARE" -> ComparePage(r, v)
                [] r.kind = "PATH"    -> PathPage(r, v)

Answer ==
  /\ At("ANSWER")
  /\ answer' = Page(request, view)
  /\ UNCHANGED <<registry, view>>
  /\ Reading

Done ==
  /\ answer # None
  /\ request' = None
  /\ answer' = None
  /\ view' = Fresh
  /\ seen' = {db}
  /\ UNCHANGED <<db, bounds, registry>>

-----------------------------------------------------------------------------
Init ==
  \E s \in Starts :
    /\ db = s.db
    /\ bounds = [requests |-> s.requests, edits |-> s.edits, drafts |-> s.drafts]
    /\ registry = None
    /\ request = None
    /\ view = Fresh
    /\ answer = None
    /\ seen = {s.db}

Serve ==
  \/ Check
  \/ ReadPeople
  \/ ReadOrganizations
  \/ ReadClaims
  \/ ReadLists
  \/ ReadRegistry
  \/ ReadListed
  \/ ReadLinks
  \/ ReadBills
  \/ ReadParts
  \/ Answer

Next ==
  \/ Edit
  \/ \E r \in bounds.requests : Ask(r)
  \/ Serve
  \/ Expire
  \/ Done

Spec == Init /\ [][Next]_vars

-----------------------------------------------------------------------------
(* What the pages promise *)

(* TypeOK: the rows, the view and the answer are of their kinds; a page is *)
(* answered only after the last read of its kind, and links lead between   *)
(* organizations that were read.                                           *)
TypeOK ==
  /\ db \in Rows
  /\ bounds.edits \in Nat /\ bounds.drafts \subseteq Claims
  /\ view.people \subseteq People /\ view.orgs \subseteq Orgs
  /\ view.claims \subseteq Claims /\ view.parts \subseteq Claims
  /\ view.lists \subseteq DOMAIN ListOrg /\ view.links \subseteq Targets
  /\ \A l \in Links(view) : {l.from, l.to} \subseteq view.orgs
  /\ seen \subseteq Rows /\ db \in seen
  /\ answer # None => request # None /\ (answer.known => view.at = "ANSWER")

OnBill(cs, b) == {c \in cs : Text(c).at = b}

(* The claims that one statement of the answer rests on; of a pair, that   *)
(* the two took part in a bill, for each of its bills.                     *)
Statements ==
  {Ends(rel) : rel \in answer.relations}
  \cup {{m[1].claim, m[2].claim} : m \in answer.moves}
  \cup UNION {{OnBill(pair.claims, b) : b \in pair.bills} : pair \in answer.pairs}

Standing(d, cs) == cs \subseteq d.claims /\ {Who(c) : c \in cs} \subseteq d.active

(* RelationsWereCurrent: whatever operators commit between the reads of a  *)
(* request, the claims behind each relation and move it answers, and those *)
(* by which a pair took part in one bill, were published together at one   *)
(* moment of the request, of people who all stood at that moment: nobody is*)
(* related to whom they were merged into, nor to anyone through what had   *)
(* been withdrawn before the other claim.  Two bills of a pair may be of   *)
(* different moments, as they may be of different statements.              *)
RelationsWereCurrent ==
  answer # None => \A cs \in Statements : \E d \in seen : Standing(d, cs)

(* Distances, counted without the search: what n edges reach.              *)
Ball(p, edges, n) ==
  LET ball[k \in 0 .. n] ==
        IF k = 0 THEN {Person(p)}
        ELSE ball[k - 1] \cup UNION {e.ends : e \in {x \in edges : x.ends \cap ball[k - 1] # {}}}
  IN ball[n]

(* A path of the edges, from p to q and of at most max, that nothing is    *)
(* shorter than; none only if there is none.                               *)
Shortest(paths, p, q, edges, max) ==
  LET Within(n) == Person(q) \in Ball(p, edges, n)
      stand == \A x \in {p, q} : \E e \in edges : Person(x) \in e.ends
  IN /\ paths = {} => ~stand \/ ~Within(max)
     /\ \A path \in paths : /\ stand
                            /\ Within(Len(path))
                            /\ Len(path) <= max
                            /\ \A n \in 0 .. Len(path) - 1 : ~Within(n)
                            /\ ToSet(path) \subseteq edges

(* PathIsShortest: over what the request has read, a path is answered      *)
(* exactly when the two people are within the number of edges asked for,   *)
(* none is shorter, and its edges are claims the request has read.         *)
PathIsShortest ==
  (answer # None /\ answer.known /\ request.kind # "PERSON") =>
    Shortest(answer.path, request.who[1], request.who[2],
             Edges(Known(view), Links(view), request.extra), request.max)

Held(a) == Text(a.claim).held
Ends2(rel) == {rel.subject, rel.counterpart}

(* A line that was over, or undated, when it was recorded: the day it was  *)
(* recorded says nothing about when it was held.                           *)
RecordedLater(a) == Lane(a) = "CAREER" /\ ~Text(a.claim).ongoing /\ Interval(PeriodOf(a)) = None

(* PeriodsAreHonored: two people said to have been somewhere together were *)
(* there together, though sources state days, months or years, and a move  *)
(* stated to the month is one that was made in that order.                 *)
PeriodsAreHonored ==
  answer # None =>
    /\ \A rel \in answer.relations :
         rel.overlap = "VERIFIED" /\ (\A a \in Ends2(rel) : ~RecordedLater(a))
         => Meet(Held(rel.subject), Held(rel.counterpart))
    /\ \A m \in answer.moves :
         Text(m[1].claim).endUnit # "YEAR" /\ Text(m[2].claim).unit # "YEAR"
         => Held(m[1]).till < Held(m[2]).from

(* OverlapIsReal: an overlap is verified only where the people were really *)
(* there together, as the docstring of temporal_overlap and the pages'     *)
(* limitations have it.                                                    *)
OverlapIsReal ==
  answer # None =>
    \A rel \in answer.relations :
      rel.overlap = "VERIFIED" => Meet(Held(rel.subject), Held(rel.counterpart))
=============================================================================
