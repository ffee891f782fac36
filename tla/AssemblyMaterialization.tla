---------------------- MODULE AssemblyMaterialization ----------------------
(***************************************************************************)
(* How observations of the National Assembly roster become people:         *)
(* enumerate_and_materialize (workers/assembly_roster.py),                 *)
(* materialize_feeder_observation and the reviewed resolution of a         *)
(* birth-date conflict (packages/persistence/repository.py).               *)
(*                                                                         *)
(* A runner walks the roster it enumerated, a transaction per observation: *)
(* it reads what is committed, decides and writes, at READ COMMITTED and   *)
(* without a lock, so that what it has read may be stale when it writes.   *)
(* The passes of SourceIngestion are here one step, and the commands of    *)
(* AdminWorkflow on people are reduced to what materialization reads.      *)
(***************************************************************************)
EXTENDS Naturals, FiniteSets, Sequences

CONSTANTS
  Runners,      \* processes that materialize rosters or resolve reviews
  Versions,     \* observations: the immutable versions of roster records
  Records,      \* provider record keys (MONA_CD), a sequence in their order
  KeyOf,        \* the record key of an observation
  NameOf,       \* the name it lists
  BirthOf,      \* the birth date it gives, or None
  Names,
  Overlap,      \* may anybody act while a runner is in a transaction?
  MaxPeople,    \* bound: people ever created
  MaxOperator,  \* bound: operator commands
  None

ASSUME BoundsAreNaturals == MaxPeople \in Nat /\ MaxOperator \in Nat
ASSUME OverlapIsBoolean == Overlap \in BOOLEAN
ASSUME NoneIsNoReview == None \notin Versions \X Nat

Keys == {Records[i] : i \in DOMAIN Records}

(* Every observation is of a listed record and carries a name.             *)
ASSUME ObservationsAreOfRecords ==
  /\ Records \in Seq(Keys)
  /\ \A o \in Versions : KeyOf[o] \in Keys /\ NameOf[o] \in Names

VARIABLES
  current,   \* the version of each record in the latest complete roster
  people,    \* id |-> names, birth date, active
  links,     \* person_observation_links
  reviews,   \* the identity_review_items of each observation, oldest first
  runner,    \* the observations each runner has yet to do, and its reads
  commands   \* how many operator commands have run

database == <<people, links, reviews>>
vars == <<current, people, links, reviews, runner, commands>>

Active == {p \in DOMAIN people : people[p].active}
Called(name) == {p \in Active : people[p].name = name}
Linked(key) == {l.person : l \in {m \in links : m.live /\ KeyOf[m.version] = key}}
LinksOf(p) == {l \in links : l.live /\ l.person = p}

Contradict(b, c) == b # None /\ c # None /\ b # c
Sole(S) == IF Cardinality(S) = 1 THEN CHOOSE x \in S : TRUE ELSE None

-----------------------------------------------------------------------------
(* decide_materialization: known are the people linked to the record key,  *)
(* named the current people with the observed name.                        *)

To(act, why, p) == [act |-> act, why |-> why, candidate |-> p]

DecisionByBirth(o, known, named) ==
  IF Cardinality(known) = 1
  THEN To("AUTO_LINK", "EXACT_PROVIDER_IDENTITY", Sole(known))
  ELSE IF \E p \in named : Contradict(BirthOf[o], people[p].birth)
       THEN To("HARD_CONFLICT", "EXACT_BIRTH_DATE_CONFLICT", Sole(named))
       ELSE To("AUTO_CREATE", "AUTHORITATIVE_NEW_IDENTITY", None)

Decision(o, known, named) ==
  LET at_odds(S) == \E p \in S : Contradict(BirthOf[o], people[p].birth) IN
  CASE Cardinality(known) > 1 ->
         To("HARD_CONFLICT", "PROVIDER_IDENTITY_CONFLICT", None)
    [] Cardinality(known) = 1 /\ at_odds(known) ->
         To("HARD_CONFLICT", "EXACT_BIRTH_DATE_CONFLICT", Sole(known))
    [] Cardinality(known) = 1 /\ ~ at_odds(known) ->
         To("AUTO_LINK", "EXACT_PROVIDER_IDENTITY", Sole(known))
    [] known = {} /\ at_odds(named) ->
         To("HARD_CONFLICT", "EXACT_BIRTH_DATE_CONFLICT", Sole(named))
    [] known = {} /\ ~ at_odds(named) /\ named # {} ->
         To("REVIEW_REQUIRED", "SAME_NAME_AMBIGUITY", Sole(named))
    [] OTHER -> To("AUTO_CREATE", "AUTHORITATIVE_NEW_IDENTITY", None)

-----------------------------------------------------------------------------
Between(queue) == [phase |-> "between", queue |-> queue, held |-> None]
AllBetween == \A w \in Runners : runner[w].phase = "between"
Serial == Overlap \/ AllBetween

(* The next complete roster, and the runner to materialize it.             *)
Enumerate(w) ==
  /\ runner[w] = Between(<<>>)
  /\ Serial
  /\ \E roster \in [Keys -> Versions] :
       /\ \A k \in Keys : KeyOf[roster[k]] = k
       /\ current' = roster
       /\ runner' = [runner EXCEPT ![w] =
            Between([i \in DOMAIN Records |-> roster[Records[i]]])]
  /\ UNCHANGED <<database, commands>>

(* Two queries, the people linked to the key and then those of the name.   *)
ReadLinks(w) ==
  LET queue == runner[w].queue IN
  /\ runner[w].phase = "between" /\ queue # <<>>
  /\ Serial
  /\ runner' = [runner EXCEPT ![w] = [phase |-> "linked", queue |-> queue,
                                      held |-> Linked(KeyOf[Head(queue)])]]
  /\ UNCHANGED <<current, database, commands>>

Decide(w) ==
  LET me == runner[w] o == Head(me.queue) IN
  /\ me.phase = "linked"
  /\ runner' = [runner EXCEPT ![w] = [phase |-> "decided", queue |-> me.queue,
       held |-> Decision(o, me.held, Called(NameOf[o]))]]
  /\ UNCHANGED <<current, database, commands>>

Refusal(d) == d.act \in {"REVIEW_REQUIRED", "HARD_CONFLICT"}

(* The open review, or the link, may be in place already.                  *)
OpenAlready(o, why) ==
  \E i \in DOMAIN reviews[o] : reviews[o][i].why = why /\ reviews[o][i].status = "OPEN"
LinkedAlready(o, p) == \E l \in LinksOf(p) : l.version = o

Look(w) ==
  LET me == runner[w] o == Head(me.queue) d == me.held IN
  /\ me.phase = "decided"
  /\ runner' = [runner EXCEPT ![w] =
       IF \/ Refusal(d) /\ OpenAlready(o, d.why)
          \/ d.act = "AUTO_LINK" /\ LinkedAlready(o, d.candidate)
       THEN Between(Tail(me.queue)) ELSE [me EXCEPT !.phase = "write"]]
  /\ UNCHANGED <<current, database, commands>>

-----------------------------------------------------------------------------
Link(p, o, how, review) ==
  [person |-> p, version |-> o, how |-> how, review |-> review, live |-> TRUE]
Ended(S) == {[l EXCEPT !.live = FALSE] : l \in S}

NewId == Cardinality(DOMAIN people) + 1
WithPerson(name, birth) ==
  [p \in DOMAIN people \cup {NewId} |->
     IF p = NewId THEN [name |-> name, aliases |-> {}, birth |-> birth, active |-> TRUE]
     ELSE people[p]]

OpenReview(o, d) ==
  /\ Refusal(d)
  /\ reviews' = [reviews EXCEPT ![o] =
       Append(@, [why |-> d.why, candidate |-> d.candidate, status |-> "OPEN"])]
  /\ UNCHANGED <<people, links>>

(* The unique constraint counts links that have ended.                     *)
PairTaken(p, o) == \E l \in links : l.person = p /\ l.version = o
AutoLink(o, d) ==
  /\ d.act = "AUTO_LINK"
  /\ ~ PairTaken(d.candidate, o)
  /\ links' = links \cup {Link(d.candidate, o, "AUTO_LINK", None)}
  /\ UNCHANGED <<people, reviews>>

(* The person comes with a published role claim and its evidence.          *)
AutoCreateLinkOnly(o, d) ==
  /\ d.act = "AUTO_CREATE"
  /\ NewId <= MaxPeople
  /\ links' = links \cup {Link(NewId, o, "AUTO_CREATE", None)}
  /\ UNCHANGED <<people, reviews>>
AutoCreate(o, d) ==
  /\ d.act = "AUTO_CREATE"
  /\ NewId <= MaxPeople
  /\ people' = WithPerson(NameOf[o], BirthOf[o])
  /\ links' = links \cup {Link(NewId, o, "AUTO_CREATE", None)}
  /\ UNCHANGED reviews

Write(w) ==
  LET me == runner[w] o == Head(me.queue) IN
  /\ me.phase = "write"
  /\ OpenReview(o, me.held) \/ AutoLink(o, me.held) \/ AutoCreate(o, me.held)
  /\ runner' = [runner EXCEPT ![w] = Between(Tail(me.queue))]
  /\ UNCHANGED <<current, commands>>

(* An error or a crash rolls the transaction back and ends the pass.       *)
Abort(w) == /\ runner[w] # Between(<<>>)
            /\ runner' = [runner EXCEPT ![w] = Between(<<>>)]
            /\ UNCHANGED <<current, database, commands>>

-----------------------------------------------------------------------------
(* resolve_assembly_distinct_person_review: on an operator's word the      *)
(* observation of an exact birth-date conflict is a person of its own.     *)

ResolvableTwice(o, r) ==
  /\ r.status = "OPEN" /\ r.why = "EXACT_BIRTH_DATE_CONFLICT"
  /\ r.candidate \in Called(NameOf[o])
  /\ Contradict(BirthOf[o], people[r.candidate].birth)
  /\ o = current[KeyOf[o]]
Resolvable(o, r) ==
  /\ r.status = "OPEN" /\ r.why = "EXACT_BIRTH_DATE_CONFLICT"
  /\ r.candidate \in Called(NameOf[o])
  /\ Contradict(BirthOf[o], people[r.candidate].birth)
  /\ o = current[KeyOf[o]]
  /\ \A l \in links : KeyOf[l.version] # KeyOf[o]

TakeReview(w) ==
  /\ runner[w] = Between(<<>>)
  /\ Serial
  /\ \E o \in Versions : \E i \in DOMAIN reviews[o] :
       /\ Resolvable(o, reviews[o][i])
       /\ runner' = [runner EXCEPT ![w] =
            [phase |-> "reviewed", queue |-> <<>>, held |-> <<o, i>>]]
  /\ UNCHANGED <<current, database, commands>>

Resolve(w) ==
  LET o == runner[w].held[1] i == runner[w].held[2] IN
  /\ runner[w].phase = "reviewed"
  /\ NewId <= MaxPeople
  /\ people' = WithPerson(NameOf[o], BirthOf[o])
  /\ links' = links \cup {Link(NewId, o, "REVIEWED_CREATE", <<o, i>>)}
  /\ reviews' = [reviews EXCEPT ![o][i].status = "RESOLVED"]
  /\ runner' = [runner EXCEPT ![w] = Between(<<>>)]
  /\ UNCHANGED <<current, commands>>

-----------------------------------------------------------------------------
(* Operator commands on people, each a serialised transaction.             *)

Command == /\ commands < MaxOperator
           /\ commands' = commands + 1
           /\ Serial
           /\ UNCHANGED <<current, runner>>

NamesOf(p) == {people[p].name} \cup people[p].aliases

(* A person registered from a row of another provider, without birth date. *)
Register(name) ==
  /\ Command
  /\ \A p \in Active : name \notin NamesOf(p)
  /\ NewId <= MaxPeople
  /\ people' = WithPerson(name, None)
  /\ UNCHANGED <<links, reviews>>

Rename(p, name) ==
  /\ Command
  /\ Called(name) = {}
  /\ people' = [people EXCEPT ![p].name = name, ![p].aliases = NamesOf(p)]
  /\ UNCHANGED <<links, reviews>>

RejectedNone(S, p) == reviews

(* The latest review of an observation takes the decision, or a new one.   *)
Rejected(S, p) ==
  LET decision == [why |-> "OPERATOR_REVIEW", candidate |-> p, status |-> "REJECTED"] IN
  [o \in Versions |->
     IF o \notin S THEN reviews[o]
     ELSE IF reviews[o] = <<>> THEN <<decision>>
          ELSE [reviews[o] EXCEPT ![Len(reviews[o])] = decision]]

Deactivate(p) ==
  /\ Command
  /\ people' = [people EXCEPT ![p].active = FALSE]
  /\ links' = (links \ LinksOf(p)) \cup Ended(LinksOf(p))
  /\ reviews' = Rejected({l.version : l \in LinksOf(p)}, p)

(* The survivor gets the links it does not have; the originals end.        *)
Moved(p, t) ==
  (links \ LinksOf(p)) \cup Ended(LinksOf(p))
    \cup {Link(t, l.version, "REVIEWED_LINK", l.review) :
            l \in {m \in LinksOf(p) : ~ LinkedAlready(m.version, t)}}

Merge(p, t) ==
  /\ Command
  /\ p # t
  /\ people[p].name \in NamesOf(t)
  /\ ~ Contradict(people[p].birth, people[t].birth)
  /\ people' = [people EXCEPT ![p].active = FALSE,
                              ![t].aliases = @ \cup people[p].aliases]
  /\ links' = Moved(p, t)
  /\ UNCHANGED reviews

Init == /\ current = [k \in Keys |-> None]
        /\ people = <<>> /\ links = {} /\ reviews = [o \in Versions |-> <<>>]
        /\ runner = [w \in Runners |-> Between(<<>>)]
        /\ commands = 0

Next == \/ \E w \in Runners : \/ Enumerate(w) \/ ReadLinks(w) \/ Decide(w)
                              \/ Look(w) \/ Write(w) \/ Abort(w)
                              \/ TakeReview(w) \/ Resolve(w)
        \/ \E name \in Names : Register(name)
        \/ \E p \in Active : \/ Deactivate(p)
                             \/ \E name \in Names : Rename(p, name)
                             \/ \E t \in Active : Merge(p, t)

Spec == Init /\ [][Next]_vars
-----------------------------------------------------------------------------
(* Properties                                                              *)

Phases == {"between", "linked", "decided", "write", "reviewed"}

(* Ids name rows that exist: a link its person and its review, a review    *)
(* its candidate; and a runner in a transaction has an observation at hand.*)
TypeOK ==
  /\ current \in [Keys -> Versions \cup {None}]
  /\ DOMAIN people = 1 .. Cardinality(DOMAIN people)
  /\ \A p \in DOMAIN people : LET q == people[p] IN
       q.name \in Names /\ q.aliases \subseteq Names /\ q.active \in BOOLEAN
  /\ \A l \in links :
       /\ l.person \in DOMAIN people /\ l.version \in Versions
       /\ l.review = None \/ l.review[2] \in DOMAIN reviews[l.review[1]]
  /\ \A o \in Versions : \A i \in DOMAIN reviews[o] : LET r == reviews[o][i] IN
       /\ r.candidate \in DOMAIN people \cup {None}
       /\ r.status \in {"OPEN", "REJECTED", "RESOLVED"}
  /\ \A w \in Runners :
       /\ runner[w].phase \in Phases
       /\ runner[w].phase \in {"linked", "decided", "write"} => runner[w].queue # <<>>

(* A provider key stands for one person at a time, through renames,        *)
(* merges, reviewed resolutions, later versions and interrupted passes;    *)
(* its loss would make every consumer of the key fail.                     *)
OnePersonPerKey == \A k \in Keys : Cardinality(Linked(k)) <= 1

(* Of two current people with one name, at least one was told apart by an  *)
(* operator's review; the automatic decision never makes a namesake.       *)
NamesakesReviewed ==
  \A p, q \in Active :
    p # q /\ people[p].name = people[q].name =>
      \E l \in links : l.person \in {p, q} /\ l.how = "REVIEWED_CREATE"

(* A resolved review made one person, other than the candidate it was told *)
(* apart from, once and for all, and nobody else has its observation.  As  *)
(* long as no later review of the observation was opened, one live link    *)
(* cites it: a merge hands it on, and a deactivation takes the answer back.*)
ReviewAnswered ==
  \A o \in Versions : \A i \in DOMAIN reviews[o] :
    reviews[o][i].status = "RESOLVED" =>
      LET citing == {l \in links : l.review = <<o, i>>}
          created == {l \in citing : l.how = "REVIEWED_CREATE"}
          live == {l \in citing : l.live} IN
      /\ Cardinality(created) = 1
      /\ \A l \in created : l.person # reviews[o][i].candidate
      /\ Cardinality(live) <= 1
      /\ i = Len(reviews[o]) => Cardinality(live) = 1
=============================================================================
