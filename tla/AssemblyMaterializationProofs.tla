-------------------- MODULE AssemblyMaterializationProofs --------------------
(***************************************************************************)
(* Machine-checked theorems about AssemblyMaterialization, for any         *)
(* runners, observations, records, people and operator commands.           *)
(***************************************************************************)
EXTENDS AssemblyMaterialization, FiniteSetTheorems, TLAPS

-----------------------------------------------------------------------------
(* Rows, and what refers to them *)

Births == {BirthOf[o] : o \in Versions} \cup {None}
PersonRow == [name : Names, aliases : SUBSET Names, birth : Births, active : BOOLEAN]
Acts == {"AUTO_LINK", "AUTO_CREATE", "REVIEW_REQUIRED", "HARD_CONFLICT"}
Whys == {"EXACT_PROVIDER_IDENTITY", "AUTHORITATIVE_NEW_IDENTITY", "SAME_NAME_AMBIGUITY",
         "PROVIDER_IDENTITY_CONFLICT", "EXACT_BIRTH_DATE_CONFLICT", "OPERATOR_REVIEW"}
Hows == {"AUTO_LINK", "AUTO_CREATE", "REVIEWED_CREATE", "REVIEWED_LINK"}
Citations == (Versions \X Nat) \cup {None}
LinkRow == [person : Nat, version : Versions, how : Hows, review : Citations, live : BOOLEAN]
ReviewRow == [why : Whys, candidate : Nat \cup {None},
              status : {"OPEN", "REJECTED", "RESOLVED"}]
DecisionRow == [act : Acts, why : Whys, candidate : Nat \cup {None}]
Held == (SUBSET Nat) \cup DecisionRow \cup (Versions \X Nat) \cup {None}
RunnerRow == [phase : Phases, queue : Seq(Versions), held : Held]

Rows ==
  /\ current \in [Keys -> Versions \cup {None}]
  /\ \E n \in Nat : people \in [1 .. n -> PersonRow]
  /\ links \subseteq LinkRow
  /\ reviews \in [Versions -> Seq(ReviewRow)]
  /\ runner \in [Runners -> RunnerRow]

(* What a runner holds refers to people and reviews that exist.            *)
AtWork(w) == LET me == runner[w] IN
  /\ me.phase \in {"linked", "decided", "write"} => me.queue # <<>>
  /\ me.phase = "linked" => me.held \subseteq DOMAIN people
  /\ me.phase \in {"decided", "write"} =>
       /\ me.held \in DecisionRow
       /\ me.held.candidate \in DOMAIN people \cup {None}
       /\ me.held.act = "AUTO_LINK" => me.held.candidate \in DOMAIN people
  /\ me.phase = "reviewed" =>
       /\ me.held \in Versions \X Nat
       /\ me.held[2] \in DOMAIN reviews[me.held[1]]

LinksRefer ==
  \A l \in links :
    /\ l.person \in DOMAIN people
    /\ l.review # None =>
         l.review[1] = l.version /\ l.review[2] \in DOMAIN reviews[l.version]

ReviewsRefer ==
  \A o \in Versions : \A i \in DOMAIN reviews[o] :
    reviews[o][i].candidate \in DOMAIN people \cup {None}

RowsKept == Rows /\ LinksRefer /\ ReviewsRefer /\ \A w \in Runners : AtWork(w)

(* Ids are consecutive, and the next one is free. *)
LEMMA NewIdIsFree ==
  ASSUME Rows
  PROVE  /\ NewId \in Nat \ {0}
         /\ people \in [1 .. (NewId - 1) -> PersonRow]
         /\ DOMAIN people = 1 .. Cardinality(DOMAIN people)
         /\ NewId \notin DOMAIN people
<1>1. PICK n \in Nat : people \in [1 .. n -> PersonRow]
  BY DEF Rows
<1>2. DOMAIN people = 1 .. n /\ Cardinality(1 .. n) = n
  BY <1>1, FS_Interval
<1> QED
  BY <1>1, <1>2 DEF NewId

(* A new person comes on top, with the name and the birth date given. *)
LEMMA PersonAdded ==
  ASSUME Rows, NEW name \in Names, NEW birth \in Births,
         people' = WithPerson(name, birth)
  PROVE  /\ \E n \in Nat : people' \in [1 .. n -> PersonRow]
         /\ DOMAIN people' = DOMAIN people \cup {NewId}
         /\ \A p \in DOMAIN people : people'[p] = people[p]
         /\ people'[NewId] = [name |-> name, aliases |-> {}, birth |-> birth, active |-> TRUE]
<1>1. /\ NewId \in Nat \ {0} /\ people \in [1 .. (NewId - 1) -> PersonRow]
      /\ NewId \notin DOMAIN people
  BY NewIdIsFree
<1> DEFINE row == [name |-> name, aliases |-> {}, birth |-> birth, active |-> TRUE]
<1>2. row \in PersonRow
  BY DEF PersonRow
<1>3. DOMAIN people \cup {NewId} = 1 .. NewId
  BY <1>1
<1>4. people' = [p \in DOMAIN people \cup {NewId} |-> IF p = NewId THEN row ELSE people[p]]
  BY DEF WithPerson
<1> HIDE DEF row
<1>5. people' \in [1 .. NewId -> PersonRow]
  BY <1>1, <1>2, <1>3, <1>4
<1> QED
  BY <1>1, <1>3, <1>4, <1>5 DEF row

(* Nothing a runner holds is lost while ids and reviews only grow. *)
LEMMA AtWorkKept ==
  ASSUME NEW w \in Runners, AtWork(w), runner'[w] = runner[w], Rows,
         DOMAIN people \subseteq DOMAIN people',
         \A o \in Versions : DOMAIN reviews[o] \subseteq DOMAIN reviews'[o]
  PROVE  AtWork(w)'
<1>1. runner[w].held \in Versions \X Nat => runner[w].held[1] \in Versions
  OBVIOUS
<1> QED
  BY <1>1 DEF AtWork

LEMMA LinkedExist ==
  ASSUME LinksRefer, NEW key
  PROVE  Linked(key) \subseteq DOMAIN people
BY DEF LinksRefer, Linked

LEMMA CandidateExists ==
  ASSUME NEW S, NEW T, S \subseteq T, Cardinality(S) = 1
  PROVE  Sole(S) \in T
<1>1. S # {}
  BY FS_EmptySet
<1> QED
  BY <1>1 DEF Sole

LEMMA SoleIsThere ==
  ASSUME NEW S, NEW T, S \subseteq T
  PROVE  Sole(S) \in T \cup {None}
BY CandidateExists DEF Sole

(* A decision names one of the people it was made over, or nobody. *)
LEMMA DecisionNames ==
  ASSUME NEW o \in Versions, NEW T, T \subseteq Nat, NEW known, known \subseteq T,
         NEW named, named \subseteq T
  PROVE  LET d == Decision(o, known, named) IN
         /\ d \in DecisionRow
         /\ d.candidate \in T \cup {None}
         /\ d.act = "AUTO_LINK" => d.candidate \in T
<1>1. /\ Sole(known) \in T \cup {None} /\ Sole(named) \in T \cup {None}
      /\ Cardinality(known) = 1 => Sole(known) \in T
  BY CandidateExists, SoleIsThere
<1> DEFINE d == Decision(o, known, named)
<1>2. \/ d = To("HARD_CONFLICT", "PROVIDER_IDENTITY_CONFLICT", None)
      \/ d = To("HARD_CONFLICT", "EXACT_BIRTH_DATE_CONFLICT", Sole(known))
      \/ d = To("AUTO_LINK", "EXACT_PROVIDER_IDENTITY", Sole(known)) /\ Cardinality(known) = 1
      \/ d = To("HARD_CONFLICT", "EXACT_BIRTH_DATE_CONFLICT", Sole(named))
      \/ d = To("REVIEW_REQUIRED", "SAME_NAME_AMBIGUITY", Sole(named))
      \/ d = To("AUTO_CREATE", "AUTHORITATIVE_NEW_IDENTITY", None)
  BY DEF Decision
<1> HIDE DEF d
<1>3. d \in DecisionRow /\ d.candidate \in T \cup {None}
  <2>1. \A act \in Acts, why \in Whys, p \in T \cup {None} :
          To(act, why, p) \in DecisionRow /\ To(act, why, p).candidate = p
    BY DEF To, DecisionRow
  <2>2. \E act \in Acts, why \in Whys, p \in T \cup {None} : d = To(act, why, p)
    <3>1. None \in T \cup {None}
      OBVIOUS
    <3>2. /\ {"HARD_CONFLICT", "AUTO_LINK", "REVIEW_REQUIRED", "AUTO_CREATE"} \subseteq Acts
          /\ {"PROVIDER_IDENTITY_CONFLICT", "EXACT_BIRTH_DATE_CONFLICT",
              "EXACT_PROVIDER_IDENTITY", "SAME_NAME_AMBIGUITY",
              "AUTHORITATIVE_NEW_IDENTITY"} \subseteq Whys
      BY DEF Acts, Whys
    <3> QED
      BY <1>1, <1>2, <3>1, <3>2, Zenon
  <2> QED
    BY <2>1, <2>2
<1>4. d.act = "AUTO_LINK" => d.candidate \in T
  BY <1>1, <1>2 DEF To
<1> QED
  BY <1>3, <1>4 DEF d

-----------------------------------------------------------------------------
(* The rows through each step *)

LEMMA BetweenIsRow ==
  ASSUME NEW queue \in Seq(Versions)
  PROVE  /\ Between(queue) \in RunnerRow
         /\ Between(queue).phase = "between"
BY DEF Between, RunnerRow, Held, Phases

(* A step that changes what one runner holds, and nothing else. *)
LEMMA HeldKeeps ==
  ASSUME RowsKept, NEW w \in Runners, NEW row \in RunnerRow,
         runner' = [runner EXCEPT ![w] = row], UNCHANGED <<current, database>>, AtWork(w)'
  PROVE  RowsKept'
<1>1. Rows'
  BY DEF RowsKept, Rows, database
<1>2. LinksRefer' /\ ReviewsRefer'
  BY DEF RowsKept, LinksRefer, ReviewsRefer, database
<1>3. ASSUME NEW v \in Runners PROVE AtWork(v)'
  <2>1. CASE v = w
    BY <2>1
  <2>2. CASE v # w
    <3>1. runner'[v] = runner[v] /\ AtWork(v) /\ Rows
      BY <2>2 DEF RowsKept, Rows
    <3> QED
      BY <3>1, AtWorkKept DEF database
  <2> QED
    BY <2>1, <2>2
<1> QED
  BY <1>1, <1>2, <1>3 DEF RowsKept

(* A step that puts one runner between transactions, and otherwise only grows. *)
LEMMA GrowthKeeps ==
  ASSUME RowsKept, Rows', LinksRefer', ReviewsRefer', NEW w \in Runners,
         NEW queue \in Seq(Versions),
         runner' = [runner EXCEPT ![w] = Between(queue)],
         DOMAIN people \subseteq DOMAIN people',
         \A o \in Versions : DOMAIN reviews[o] \subseteq DOMAIN reviews'[o]
  PROVE  RowsKept'
<1>1. ASSUME NEW v \in Runners PROVE AtWork(v)'
  <2>1. CASE v = w
    <3>1. runner'[v] = Between(queue)
      BY <2>1 DEF RowsKept, Rows
    <3> QED
      BY <3>1, BetweenIsRow DEF AtWork
  <2>2. CASE v # w
    <3>1. runner'[v] = runner[v] /\ AtWork(v) /\ Rows
      BY <2>2 DEF RowsKept, Rows
    <3> QED
      BY <3>1, AtWorkKept
  <2> QED
    BY <2>1, <2>2
<1> QED
  BY <1>1 DEF RowsKept

(* A command changes no runner and grows ids and reviews. *)
LEMMA CommandKeeps ==
  ASSUME RowsKept, Rows', LinksRefer', ReviewsRefer', UNCHANGED runner,
         DOMAIN people \subseteq DOMAIN people',
         \A o \in Versions : DOMAIN reviews[o] \subseteq DOMAIN reviews'[o]
  PROVE  RowsKept'
<1>1. ASSUME NEW v \in Runners PROVE AtWork(v)'
  <2>1. runner'[v] = runner[v] /\ AtWork(v) /\ Rows
    BY DEF RowsKept
  <2> QED
    BY <2>1, AtWorkKept
<1> QED
  BY <1>1 DEF RowsKept

(* Links and reviews that stay refer to people that stay. *)
LEMMA NewcomerKeeps ==
  ASSUME RowsKept, NEW name \in Names, NEW birth \in Births,
         people' = WithPerson(name, birth), UNCHANGED <<links, reviews>>
  PROVE  LinksRefer' /\ ReviewsRefer'
<1>1. DOMAIN people \subseteq DOMAIN people'
  BY PersonAdded DEF RowsKept
<1> QED
  BY <1>1 DEF RowsKept, LinksRefer, ReviewsRefer

LEMMA RowsInitially == Init => RowsKept
<1> SUFFICES ASSUME Init PROVE RowsKept
  OBVIOUS
<1>1. Rows
  <2>1. people \in [1 .. 0 -> PersonRow]
    BY DEF Init
  <2>2. reviews \in [Versions -> Seq(ReviewRow)] /\ links \subseteq LinkRow
    BY DEF Init
  <2>3. runner \in [Runners -> RunnerRow]
    <3>1. <<>> \in Seq(Versions)
      OBVIOUS
    <3>2. Between(<<>>) \in RunnerRow
      BY <3>1, BetweenIsRow
    <3> QED
      BY <3>2 DEF Init
  <2> QED
    BY <2>1, <2>2, <2>3 DEF Init, Rows
<1>2. LinksRefer /\ ReviewsRefer
  BY DEF Init, LinksRefer, ReviewsRefer
<1>3. \A w \in Runners : AtWork(w)
  BY DEF Init, AtWork, Between
<1> QED
  BY <1>1, <1>2, <1>3 DEF RowsKept

LEMMA EnumerateKeepsRows ==
  ASSUME RowsKept, NEW w \in Runners, Enumerate(w)
  PROVE  RowsKept'
<1>1. PICK roster \in [Keys -> Versions] :
        /\ current' = roster
        /\ runner' = [runner EXCEPT ![w] =
             Between([i \in DOMAIN Records |-> roster[Records[i]]])]
  BY DEF Enumerate
<1> DEFINE queue == [i \in DOMAIN Records |-> roster[Records[i]]]
<1>2. queue \in Seq(Versions)
  BY ObservationsAreOfRecords DEF Keys
<1>3. UNCHANGED <<people, links, reviews>>
  BY DEF Enumerate, database
<1> HIDE DEF queue
<1>4. Rows'
  <2>1. Between(queue) \in RunnerRow
    BY <1>2, BetweenIsRow
  <2> QED
    BY <1>1, <1>3, <2>1 DEF RowsKept, Rows, queue
<1>5. LinksRefer' /\ ReviewsRefer'
  BY <1>3 DEF RowsKept, LinksRefer, ReviewsRefer
<1>6. runner' = [runner EXCEPT ![w] = Between(queue)]
  BY <1>1 DEF queue
<1> QED
  BY <1>2, <1>3, <1>4, <1>5, <1>6, GrowthKeeps

LEMMA ReadLinksKeepsRows ==
  ASSUME RowsKept, NEW w \in Runners, ReadLinks(w)
  PROVE  RowsKept'
<1> DEFINE queue == runner[w].queue
       held == Linked(KeyOf[Head(queue)])
       row == [phase |-> "linked", queue |-> queue, held |-> held]
<1>1. queue # <<>> /\ queue \in Seq(Versions)
  BY DEF ReadLinks, RowsKept, Rows, RunnerRow
<1>2. held \subseteq DOMAIN people
  BY LinkedExist DEF RowsKept
<1>3. held \in Held
  BY <1>2, NewIdIsFree DEF Held, RowsKept
<1>4. runner' = [runner EXCEPT ![w] = row] /\ UNCHANGED <<current, database>>
  BY DEF ReadLinks
<1> HIDE DEF queue, held
<1>5. row \in RunnerRow
  BY <1>1, <1>3 DEF RunnerRow, Phases
<1>6. runner'[w] = row
  BY <1>4 DEF RowsKept, Rows
<1>7. AtWork(w)'
  BY <1>1, <1>2, <1>4, <1>6 DEF AtWork, database
<1> QED
  BY <1>4, <1>5, <1>7, HeldKeeps

LEMMA DecideKeepsRows ==
  ASSUME RowsKept, NEW w \in Runners, Decide(w)
  PROVE  RowsKept'
<1> DEFINE queue == runner[w].queue
       o == Head(queue)
       held == Decision(o, runner[w].held, Called(NameOf[o]))
       row == [phase |-> "decided", queue |-> queue, held |-> held]
<1>1. queue # <<>> /\ queue \in Seq(Versions) /\ runner[w].held \subseteq DOMAIN people
  BY DEF Decide, RowsKept, Rows, RunnerRow, AtWork
<1>2. Called(NameOf[o]) \subseteq DOMAIN people
  BY DEF Called, Active
<1>3. /\ held \in DecisionRow
      /\ held.candidate \in DOMAIN people \cup {None}
      /\ held.act = "AUTO_LINK" => held.candidate \in DOMAIN people
  <2>1. o \in Versions /\ DOMAIN people \subseteq Nat
    BY <1>1, NewIdIsFree DEF RowsKept
  <2> QED
    BY <1>1, <1>2, <2>1, DecisionNames
<1>4. runner' = [runner EXCEPT ![w] = row] /\ UNCHANGED <<current, database>>
  BY DEF Decide
<1> HIDE DEF queue, held
<1>5. row \in RunnerRow
  BY <1>1, <1>3 DEF RunnerRow, Phases, Held
<1>6. runner'[w] = row
  BY <1>4 DEF RowsKept, Rows
<1>7. AtWork(w)'
  BY <1>1, <1>3, <1>4, <1>6 DEF AtWork, database
<1> QED
  BY <1>4, <1>5, <1>7, HeldKeeps

LEMMA LookKeepsRows ==
  ASSUME RowsKept, NEW w \in Runners, Look(w)
  PROVE  RowsKept'
<1> DEFINE me == runner[w]
<1>1. /\ me \in RunnerRow /\ me.phase = "decided" /\ AtWork(w)
      /\ UNCHANGED <<current, database>>
  BY DEF Look, RowsKept, Rows
<1>2. \/ runner' = [runner EXCEPT ![w] = Between(Tail(me.queue))]
      \/ runner' = [runner EXCEPT ![w] = [me EXCEPT !.phase = "write"]]
  BY DEF Look
<1>3. me.queue \in Seq(Versions) /\ me.queue # <<>>
  BY <1>1 DEF RunnerRow, AtWork
<1> HIDE DEF me
<1>4. CASE runner' = [runner EXCEPT ![w] = Between(Tail(me.queue))]
  <2>1. Tail(me.queue) \in Seq(Versions)
    BY <1>3
  <2>2. Between(Tail(me.queue)) \in RunnerRow /\ AtWork(w)'
    <3>1. runner'[w] = Between(Tail(me.queue))
      BY <1>4 DEF RowsKept, Rows
    <3> QED
      BY <2>1, <3>1, BetweenIsRow DEF AtWork
  <2> QED
    BY <1>1, <1>4, <2>2, HeldKeeps
<1>5. CASE runner' = [runner EXCEPT ![w] = [me EXCEPT !.phase = "write"]]
  <2> DEFINE row == [me EXCEPT !.phase = "write"]
  <2>1. row \in RunnerRow
    BY <1>1 DEF RunnerRow, Phases
  <2>2. runner'[w] = row /\ row.queue = me.queue /\ row.held = me.held /\ row.phase = "write"
    BY <1>1, <1>5 DEF RowsKept, Rows, RunnerRow
  <2> HIDE DEF row
  <2>3. AtWork(w)'
    BY <1>1, <2>2 DEF AtWork, me, database
  <2>4. runner' = [runner EXCEPT ![w] = row]
    BY <1>5 DEF row
  <2> QED
    BY <1>1, <2>1, <2>3, <2>4, HeldKeeps
<1> QED
  BY <1>2, <1>4, <1>5


(* A step of the machinery that adds a link to a person who exists. *)
LEMMA LinkIsRow ==
  ASSUME NEW p \in Nat, NEW o \in Versions, NEW how \in Hows, NEW review \in Citations,
         NEW l, l = Link(p, o, how, review)
  PROVE  /\ l \in LinkRow /\ l.person = p /\ l.version = o /\ l.how = how
         /\ l.review = review /\ l.live
BY DEF Link, LinkRow

LEMMA WriteKeepsRows ==
  ASSUME RowsKept, NEW w \in Runners, Write(w)
  PROVE  RowsKept'
<1> DEFINE queue == runner[w].queue
       o == Head(queue)
       d == runner[w].held
<1>1. /\ queue \in Seq(Versions) /\ queue # <<>>
      /\ d \in DecisionRow /\ d.candidate \in DOMAIN people \cup {None}
      /\ d.act = "AUTO_LINK" => d.candidate \in DOMAIN people
  BY DEF Write, RowsKept, Rows, AtWork, RunnerRow
<1>2. o \in Versions /\ Tail(queue) \in Seq(Versions) /\ None \in Citations
  BY <1>1 DEF Citations
<1>3. Rows /\ LinksRefer /\ ReviewsRefer
  BY DEF RowsKept
<1>4. /\ runner' = [runner EXCEPT ![w] = Between(Tail(queue))] /\ UNCHANGED current
      /\ OpenReview(o, d) \/ AutoLink(o, d) \/ AutoCreate(o, d)
  BY DEF Write
<1> HIDE DEF queue, o, d
<1>5. runner' \in [Runners -> RunnerRow]
  BY <1>2, <1>3, <1>4, BetweenIsRow DEF Rows
<1>6. DOMAIN people \subseteq Nat
  BY <1>3, NewIdIsFree
<1>7. CASE OpenReview(o, d)
  <2> DEFINE row == [why |-> d.why, candidate |-> d.candidate, status |-> "OPEN"]
  <2>1. reviews' = [reviews EXCEPT ![o] = Append(@, row)] /\ UNCHANGED <<people, links>>
    BY <1>7 DEF OpenReview
  <2>2. row \in ReviewRow /\ row.candidate \in DOMAIN people \cup {None}
    BY <1>1, <1>6 DEF DecisionRow, ReviewRow
  <2> HIDE DEF row
  <2>3. reviews[o] \in Seq(ReviewRow) /\ reviews'[o] = Append(reviews[o], row)
    BY <1>2, <1>3, <2>1 DEF Rows
  <2>4. \A x \in Versions : x # o => reviews'[x] = reviews[x]
    BY <1>3, <2>1 DEF Rows
  <2>5. Rows'
    <3>1. Append(reviews[o], row) \in Seq(ReviewRow)
      BY <2>2, <2>3
    <3>2. reviews' \in [Versions -> Seq(ReviewRow)]
      BY <1>3, <2>1, <3>1 DEF Rows
    <3> QED
      BY <1>3, <1>4, <1>5, <2>1, <3>2 DEF Rows
  <2>6. /\ DOMAIN reviews[o] = 1 .. Len(reviews[o]) /\ Len(reviews[o]) \in Nat
        /\ DOMAIN reviews'[o] = 1 .. (Len(reviews[o]) + 1)
        /\ \A i \in DOMAIN reviews[o] : reviews'[o][i] = reviews[o][i]
        /\ reviews'[o][Len(reviews[o]) + 1] = row
    BY <2>3
  <2>7. \A x \in Versions : DOMAIN reviews[x] \subseteq DOMAIN reviews'[x]
    BY <2>4, <2>6
  <2>8. LinksRefer'
    BY <1>3, <2>1, <2>7 DEF LinksRefer, Rows, LinkRow
  <2>9. ReviewsRefer'
    BY <1>3, <2>1, <2>2, <2>4, <2>6 DEF ReviewsRefer
  <2> QED
    BY <1>2, <1>4, <2>1, <2>5, <2>7, <2>8, <2>9, GrowthKeeps
<1>8. CASE AutoLink(o, d)
  <2> DEFINE l == Link(d.candidate, o, "AUTO_LINK", None)
  <2>1. links' = links \cup {l} /\ UNCHANGED <<people, reviews>> /\ d.act = "AUTO_LINK"
    BY <1>8 DEF AutoLink
  <2>2. l \in LinkRow /\ l.person \in DOMAIN people /\ l.review = None
    BY <1>1, <1>2, <1>6, <2>1, LinkIsRow DEF Hows
  <2> HIDE DEF l
  <2>3. Rows'
    BY <1>3, <1>4, <1>5, <2>1, <2>2 DEF Rows
  <2>4. LinksRefer' /\ ReviewsRefer'
    BY <1>3, <2>1, <2>2 DEF LinksRefer, ReviewsRefer
  <2> QED
    BY <1>2, <1>4, <2>1, <2>3, <2>4, GrowthKeeps
<1>9. CASE AutoCreate(o, d)
  <2> DEFINE l == Link(NewId, o, "AUTO_CREATE", None)
  <2>1. /\ links' = links \cup {l} /\ UNCHANGED reviews
        /\ people' = WithPerson(NameOf[o], BirthOf[o])
    BY <1>9 DEF AutoCreate
  <2>2. NameOf[o] \in Names /\ BirthOf[o] \in Births
    BY <1>2, ObservationsAreOfRecords DEF Births
  <2>3. /\ DOMAIN people' = DOMAIN people \cup {NewId}
        /\ \E n \in Nat : people' \in [1 .. n -> PersonRow]
    BY <1>3, <2>1, <2>2, PersonAdded
  <2>4. l \in LinkRow /\ l.person = NewId /\ l.review = None
    BY <1>2, <1>3, NewIdIsFree, LinkIsRow DEF Hows
  <2> HIDE DEF l
  <2>5. Rows'
    BY <1>3, <1>4, <1>5, <2>1, <2>3, <2>4 DEF Rows
  <2>6. LinksRefer' /\ ReviewsRefer'
    BY <1>3, <2>1, <2>3, <2>4 DEF LinksRefer, ReviewsRefer
  <2> QED
    BY <1>2, <1>4, <2>1, <2>3, <2>5, <2>6, GrowthKeeps
<1> QED
  BY <1>4, <1>7, <1>8, <1>9

LEMMA AbortKeepsRows ==
  ASSUME RowsKept, NEW w \in Runners, Abort(w)
  PROVE  RowsKept'
<1>1. <<>> \in Seq(Versions)
  OBVIOUS
<1>2. runner' = [runner EXCEPT ![w] = Between(<<>>)] /\ UNCHANGED <<current, database>>
  BY DEF Abort
<1>3. Between(<<>>) \in RunnerRow /\ Between(<<>>).phase = "between"
  BY <1>1, BetweenIsRow
<1>4. AtWork(w)'
  BY <1>2, <1>3 DEF AtWork, RowsKept, Rows
<1> QED
  BY <1>2, <1>3, <1>4, HeldKeeps

LEMMA TakeReviewKeepsRows ==
  ASSUME RowsKept, NEW w \in Runners, TakeReview(w)
  PROVE  RowsKept'
<1>0. PICK o \in Versions : \E i \in DOMAIN reviews[o] :
        runner' = [runner EXCEPT ![w] =
          [phase |-> "reviewed", queue |-> <<>>, held |-> <<o, i>>]]
  BY DEF TakeReview
<1>1. PICK i \in DOMAIN reviews[o] :
        runner' = [runner EXCEPT ![w] =
          [phase |-> "reviewed", queue |-> <<>>, held |-> <<o, i>>]]
  BY <1>0
<1> DEFINE row == [phase |-> "reviewed", queue |-> <<>>, held |-> <<o, i>>]
<1>2. i \in Nat
  BY DEF RowsKept, Rows
<1>3. row \in RunnerRow
  BY <1>2 DEF RunnerRow, Phases, Held
<1>4. UNCHANGED <<current, database>>
  BY DEF TakeReview
<1>5. runner'[w] = row
  BY <1>1 DEF RowsKept, Rows
<1>6. AtWork(w)'
  BY <1>2, <1>4, <1>5 DEF AtWork, database
<1> QED
  BY <1>1, <1>3, <1>4, <1>6, HeldKeeps

LEMMA ResolveKeepsRows ==
  ASSUME RowsKept, NEW w \in Runners, Resolve(w)
  PROVE  RowsKept'
<1> DEFINE o == runner[w].held[1]
       i == runner[w].held[2]
       l == Link(NewId, o, "REVIEWED_CREATE", <<o, i>>)
<1>1. o \in Versions /\ i \in DOMAIN reviews[o]
  BY DEF Resolve, RowsKept, AtWork
<1>2. /\ people' = WithPerson(NameOf[o], BirthOf[o])
      /\ links' = links \cup {l}
      /\ reviews' = [reviews EXCEPT ![o][i].status = "RESOLVED"]
      /\ runner' = [runner EXCEPT ![w] = Between(<<>>)]
      /\ UNCHANGED current
  BY DEF Resolve
<1>3. Rows /\ LinksRefer /\ ReviewsRefer
  BY DEF RowsKept
<1> HIDE DEF o, i
<1>4. i \in Nat /\ reviews[o] \in Seq(ReviewRow) /\ reviews[o][i] \in ReviewRow
  BY <1>1, <1>3 DEF Rows
<1>5. NameOf[o] \in Names /\ BirthOf[o] \in Births
  BY <1>1, ObservationsAreOfRecords DEF Births
<1>6. /\ DOMAIN people' = DOMAIN people \cup {NewId}
      /\ \E n \in Nat : people' \in [1 .. n -> PersonRow]
  BY <1>2, <1>3, <1>5, PersonAdded
<1>7. l \in LinkRow /\ l.person = NewId /\ l.version = o /\ l.review = <<o, i>>
  BY <1>1, <1>3, <1>4, NewIdIsFree, LinkIsRow DEF Hows, Citations
<1> HIDE DEF l
<1>8. /\ reviews' \in [Versions -> Seq(ReviewRow)]
      /\ \A x \in Versions : DOMAIN reviews'[x] = DOMAIN reviews[x]
      /\ \A x \in Versions : \A j \in DOMAIN reviews[x] :
           reviews'[x][j].candidate = reviews[x][j].candidate
  <2> DEFINE row == [reviews[o][i] EXCEPT !.status = "RESOLVED"]
  <2>1. row \in ReviewRow /\ row.candidate = reviews[o][i].candidate
    BY <1>4 DEF ReviewRow
  <2>2. reviews' = [reviews EXCEPT ![o] = [reviews[o] EXCEPT ![i] = row]]
    BY <1>2
  <2> HIDE DEF row
  <2>3. [reviews[o] EXCEPT ![i] = row] \in Seq(ReviewRow)
    BY <1>1, <1>4, <2>1
  <2> QED
    BY <1>1, <1>3, <1>4, <2>1, <2>2, <2>3 DEF Rows
<1>9. <<>> \in Seq(Versions)
  OBVIOUS
<1>10. Rows'
  <2>1. runner' \in [Runners -> RunnerRow]
    BY <1>2, <1>3, <1>9, BetweenIsRow DEF Rows
  <2> QED
    BY <1>2, <1>3, <1>6, <1>7, <1>8, <2>1 DEF Rows
<1>11. LinksRefer'
  BY <1>1, <1>2, <1>3, <1>6, <1>7, <1>8 DEF LinksRefer, Rows, LinkRow
<1>12. ReviewsRefer'
  BY <1>3, <1>6, <1>8 DEF ReviewsRefer
<1> QED
  BY <1>2, <1>6, <1>8, <1>9, <1>10, <1>11, <1>12, GrowthKeeps

LEMMA RegisterKeepsRows ==
  ASSUME RowsKept, NEW name \in Names, Register(name)
  PROVE  RowsKept'
<1>1. /\ people' = WithPerson(name, None)
      /\ UNCHANGED <<current, links, reviews, runner>>
  BY DEF Register, Command
<1>2. Rows /\ None \in Births
  BY DEF RowsKept, Births
<1>3. /\ DOMAIN people' = DOMAIN people \cup {NewId}
      /\ \E n \in Nat : people' \in [1 .. n -> PersonRow]
  BY <1>1, <1>2, PersonAdded
<1>4. Rows'
  BY <1>1, <1>2, <1>3 DEF Rows
<1>5. LinksRefer' /\ ReviewsRefer'
  BY <1>1, <1>2, NewcomerKeeps
<1> QED
  BY <1>1, <1>3, <1>4, <1>5, CommandKeeps

LEMMA RenameKeepsRows ==
  ASSUME RowsKept, NEW p \in Active, NEW name \in Names, Rename(p, name)
  PROVE  RowsKept'
<1>1. /\ people' = [people EXCEPT ![p].name = name, ![p].aliases = NamesOf(p)]
      /\ UNCHANGED <<current, links, reviews, runner>>
  BY DEF Rename, Command
<1>2. PICK n \in Nat : people \in [1 .. n -> PersonRow]
  BY DEF RowsKept, Rows
<1>3. p \in 1 .. n
  BY <1>2 DEF Active
<1>4. people[p] \in PersonRow /\ NamesOf(p) \subseteq Names
  BY <1>2, <1>3 DEF NamesOf, PersonRow
<1>5. people' \in [1 .. n -> PersonRow]
  BY <1>1, <1>2, <1>3, <1>4 DEF PersonRow
<1>6. Rows' /\ DOMAIN people' = DOMAIN people
  BY <1>1, <1>2, <1>5 DEF RowsKept, Rows
<1>7. LinksRefer' /\ ReviewsRefer'
  BY <1>1, <1>6 DEF RowsKept, LinksRefer, ReviewsRefer
<1> QED
  BY <1>1, <1>6, <1>7, CommandKeeps

(* A link that ends keeps everything else. *)
LEMMA EndedFields ==
  ASSUME Rows, NEW S \in SUBSET links, NEW m \in Ended(S)
  PROVE  \E l \in S : /\ m \in LinkRow /\ ~ m.live
                      /\ m.person = l.person /\ m.version = l.version
                      /\ m.how = l.how /\ m.review = l.review
<1>1. PICK l \in S : m = [l EXCEPT !.live = FALSE]
  BY DEF Ended
<1>2. l \in LinkRow
  BY DEF Rows
<1> QED
  BY <1>1, <1>2 DEF LinkRow

LEMMA EndingKeeps ==
  ASSUME Rows, NEW S \in SUBSET links, NEW l \in S
  PROVE  \E m \in Ended(S) : /\ ~ m.live
                             /\ m.person = l.person /\ m.version = l.version
                             /\ m.how = l.how /\ m.review = l.review
<1> DEFINE m == [l EXCEPT !.live = FALSE]
<1>1. l \in LinkRow /\ m \in Ended(S)
  BY DEF Rows, Ended
<1>2. /\ ~ m.live /\ m.person = l.person /\ m.version = l.version
      /\ m.how = l.how /\ m.review = l.review
  BY <1>1 DEF LinkRow
<1> QED
  BY <1>1, <1>2

(* A decision over some observations is their last review, and rejects. *)
LEMMA RejectedRows ==
  ASSUME Rows, NEW S, NEW p \in DOMAIN people, reviews' = Rejected(S, p)
  PROVE  /\ reviews' \in [Versions -> Seq(ReviewRow)]
         /\ \A o \in Versions : o \notin S => reviews'[o] = reviews[o]
         /\ \A o \in Versions : DOMAIN reviews[o] \subseteq DOMAIN reviews'[o]
         /\ \A o \in Versions : \A i \in DOMAIN reviews'[o] :
              \/ reviews'[o][i].status = "REJECTED" /\ reviews'[o][i].candidate = p
              \/ /\ i \in DOMAIN reviews[o] /\ reviews'[o][i] = reviews[o][i]
                 /\ o \in S => i # Len(reviews'[o])
                 /\ Len(reviews'[o]) = Len(reviews[o])
<1> DEFINE decision == [why |-> "OPERATOR_REVIEW", candidate |-> p, status |-> "REJECTED"]
<1>1. decision \in ReviewRow /\ decision.status = "REJECTED" /\ decision.candidate = p
  BY NewIdIsFree DEF ReviewRow, Whys
<1>2. reviews' = [o \in Versions |->
        IF o \notin S THEN reviews[o]
        ELSE IF reviews[o] = <<>> THEN <<decision>>
             ELSE [reviews[o] EXCEPT ![Len(reviews[o])] = decision]]
  BY DEF Rejected
<1>3. \A o \in Versions : reviews[o] \in Seq(ReviewRow)
  BY DEF Rows
<1> HIDE DEF decision
<1>4. ASSUME NEW o \in Versions
      PROVE  /\ reviews'[o] \in Seq(ReviewRow)
             /\ o \notin S => reviews'[o] = reviews[o]
             /\ DOMAIN reviews[o] \subseteq DOMAIN reviews'[o]
             /\ \A i \in DOMAIN reviews'[o] :
                  \/ reviews'[o][i] = decision
                  \/ /\ i \in DOMAIN reviews[o] /\ reviews'[o][i] = reviews[o][i]
                     /\ o \in S => i # Len(reviews'[o])
                     /\ Len(reviews'[o]) = Len(reviews[o])
  <2>1. CASE o \notin S
    BY <1>2, <1>3, <2>1
  <2>2. CASE o \in S /\ reviews[o] = <<>>
    <3>1. reviews'[o] = <<decision>>
      BY <1>2, <2>2
    <3> QED
      BY <1>1, <2>2, <3>1
  <2>3. CASE o \in S /\ reviews[o] # <<>>
    <3>1. /\ reviews'[o] = [reviews[o] EXCEPT ![Len(reviews[o])] = decision]
          /\ Len(reviews[o]) \in DOMAIN reviews[o]
      BY <1>2, <1>3, <2>3
    <3> QED
      BY <1>1, <1>3, <2>3, <3>1
  <2> QED
    BY <2>1, <2>2, <2>3
<1>5. reviews' \in [Versions -> Seq(ReviewRow)]
  BY <1>2, <1>4
<1> QED
  BY <1>1, <1>4, <1>5

LEMMA DeactivateKeepsRows ==
  ASSUME RowsKept, NEW p \in Active, Deactivate(p)
  PROVE  RowsKept'
<1> DEFINE S == {l.version : l \in LinksOf(p)}
<1>1. /\ people' = [people EXCEPT ![p].active = FALSE]
      /\ links' = (links \ LinksOf(p)) \cup Ended(LinksOf(p))
      /\ reviews' = Rejected(S, p)
      /\ UNCHANGED <<current, runner>>
  BY DEF Deactivate, Command
<1>2. Rows /\ LinksRefer /\ ReviewsRefer /\ LinksOf(p) \in SUBSET links
  BY DEF RowsKept, LinksOf
<1>3. PICK n \in Nat : people \in [1 .. n -> PersonRow]
  BY DEF RowsKept, Rows
<1>4. p \in 1 .. n /\ people[p] \in PersonRow
  BY <1>3 DEF Active
<1>5. people' \in [1 .. n -> PersonRow] /\ DOMAIN people' = DOMAIN people
  BY <1>1, <1>3, <1>4 DEF PersonRow
<1> HIDE DEF S
<1>6. /\ reviews' \in [Versions -> Seq(ReviewRow)]
      /\ \A o \in Versions : DOMAIN reviews[o] \subseteq DOMAIN reviews'[o]
      /\ \A o \in Versions : \A i \in DOMAIN reviews'[o] :
           \/ reviews'[o][i].candidate = p
           \/ i \in DOMAIN reviews[o] /\ reviews'[o][i] = reviews[o][i]
  BY <1>1, <1>2, <1>3, <1>4, RejectedRows
<1>7. ASSUME NEW m \in links'
      PROVE  m \in LinkRow
             /\ \E l \in links : m.person = l.person /\ m.version = l.version
                                 /\ m.review = l.review
  <2>1. CASE m \in links
    BY <1>2, <2>1 DEF Rows
  <2>2. CASE m \in Ended(LinksOf(p))
    BY <1>2, <2>2, EndedFields
  <2> QED
    BY <1>1, <2>1, <2>2
<1>8. Rows'
  BY <1>1, <1>2, <1>5, <1>6, <1>7 DEF Rows
<1>9. LinksRefer'
  <2> SUFFICES ASSUME NEW m \in links'
               PROVE  /\ m.person \in DOMAIN people'
                      /\ m.review # None =>
                           m.review[1] = m.version /\ m.review[2] \in DOMAIN reviews'[m.version]
    BY DEF LinksRefer
  <2>1. PICK l \in links : m.person = l.person /\ m.version = l.version /\ m.review = l.review
    BY <1>7
  <2>2. l.version \in Versions
    BY <1>2 DEF Rows, LinkRow
  <2> QED
    BY <1>2, <1>5, <1>6, <2>1, <2>2 DEF LinksRefer
<1>10. ReviewsRefer'
  BY <1>2, <1>3, <1>4, <1>5, <1>6 DEF ReviewsRefer
<1> QED
  BY <1>1, <1>5, <1>6, <1>8, <1>9, <1>10, CommandKeeps

(* What a merge hands on are links of the survivor, with their citations. *)
LEMMA MovedFields ==
  ASSUME Rows, NEW p, NEW t \in Nat, links' = Moved(p, t), NEW m \in links'
  PROVE  /\ m \in LinkRow
         /\ \/ m \in links /\ m \notin LinksOf(p)
            \/ m \in Ended(LinksOf(p))
            \/ \E l \in LinksOf(p) : /\ ~ LinkedAlready(l.version, t)
                                     /\ m = Link(t, l.version, "REVIEWED_LINK", l.review)
                                     /\ m.person = t /\ m.version = l.version
                                     /\ m.how = "REVIEWED_LINK"
                                     /\ m.review = l.review /\ m.live
<1>1. LinksOf(p) \in SUBSET links
  BY DEF LinksOf
<1>2. CASE m \in links /\ m \notin LinksOf(p)
  BY <1>2 DEF Rows
<1>3. CASE m \in Ended(LinksOf(p))
  BY <1>1, <1>3, EndedFields
<1>4. CASE m \in {Link(t, l.version, "REVIEWED_LINK", l.review) :
                    l \in {k \in LinksOf(p) : ~ LinkedAlready(k.version, t)}}
  <2>1. PICK l \in LinksOf(p) : /\ ~ LinkedAlready(l.version, t)
                                /\ m = Link(t, l.version, "REVIEWED_LINK", l.review)
    BY <1>4
  <2>2. l.version \in Versions /\ l.review \in Citations
    BY <1>1 DEF Rows, LinkRow
  <2> QED
    BY <2>1, <2>2, LinkIsRow DEF Hows
<1>5. \/ m \in links /\ m \notin LinksOf(p)
      \/ m \in Ended(LinksOf(p))
      \/ m \in {Link(t, l.version, "REVIEWED_LINK", l.review) :
                  l \in {k \in LinksOf(p) : ~ LinkedAlready(k.version, t)}}
  BY DEF Moved
<1> QED
  BY <1>2, <1>3, <1>4, <1>5

LEMMA MergeKeepsRows ==
  ASSUME RowsKept, NEW p \in Active, NEW t \in Active, Merge(p, t)
  PROVE  RowsKept'
<1>1. /\ people' = [people EXCEPT ![p].active = FALSE,
                                  ![t].aliases = @ \cup people[p].aliases]
      /\ links' = Moved(p, t) /\ p # t
      /\ UNCHANGED <<current, runner, reviews>>
  BY DEF Merge, Command
<1>2. Rows /\ LinksRefer /\ ReviewsRefer /\ LinksOf(p) \in SUBSET links
  BY DEF RowsKept, LinksOf
<1>3. PICK n \in Nat : people \in [1 .. n -> PersonRow]
  BY DEF RowsKept, Rows
<1>4. p \in 1 .. n /\ t \in 1 .. n /\ people[p] \in PersonRow /\ people[t] \in PersonRow
  BY <1>3 DEF Active
<1>5. people' \in [1 .. n -> PersonRow] /\ DOMAIN people' = DOMAIN people
  BY <1>1, <1>3, <1>4 DEF PersonRow
<1>6. ASSUME NEW m \in links'
      PROVE  m \in LinkRow
             /\ \E l \in links : /\ m.person \in {l.person, t} /\ m.version = l.version
                                 /\ m.review = l.review
  <2>1. m \in LinkRow
    BY <1>1, <1>2, <1>4, MovedFields
  <2>2. CASE m \in links
    BY <2>1, <2>2
  <2>3. CASE m \in Ended(LinksOf(p))
    BY <1>2, <2>1, <2>3, EndedFields
  <2>4. CASE \E l \in LinksOf(p) : m.person = t /\ m.version = l.version /\ m.review = l.review
    BY <1>2, <2>1, <2>4
  <2> QED
    BY <1>1, <1>2, <1>4, <2>2, <2>3, <2>4, MovedFields
<1>7. Rows'
  BY <1>1, <1>2, <1>5, <1>6 DEF Rows
<1>8. LinksRefer'
  BY <1>1, <1>2, <1>3, <1>4, <1>5, <1>6 DEF LinksRefer
<1>9. ReviewsRefer'
  BY <1>1, <1>2, <1>5 DEF ReviewsRefer
<1> QED
  BY <1>1, <1>5, <1>7, <1>8, <1>9, CommandKeeps

LEMMA StutterKeepsRows ==
  ASSUME RowsKept, UNCHANGED vars
  PROVE  RowsKept'
BY DEF RowsKept, Rows, LinksRefer, ReviewsRefer, AtWork, vars, database

LEMMA StepKeepsRows == RowsKept /\ [Next]_vars => RowsKept'
<1> SUFFICES ASSUME RowsKept, [Next]_vars PROVE RowsKept'
  OBVIOUS
<1>1. ASSUME NEW w \in Runners, Enumerate(w) PROVE RowsKept'
  BY <1>1, EnumerateKeepsRows
<1>2. ASSUME NEW w \in Runners, ReadLinks(w) PROVE RowsKept'
  BY <1>2, ReadLinksKeepsRows
<1>3. ASSUME NEW w \in Runners, Decide(w) PROVE RowsKept'
  BY <1>3, DecideKeepsRows
<1>4. ASSUME NEW w \in Runners, Look(w) PROVE RowsKept'
  BY <1>4, LookKeepsRows
<1>5. ASSUME NEW w \in Runners, Write(w) PROVE RowsKept'
  BY <1>5, WriteKeepsRows
<1>6. ASSUME NEW w \in Runners, Abort(w) PROVE RowsKept'
  BY <1>6, AbortKeepsRows
<1>7. ASSUME NEW w \in Runners, TakeReview(w) PROVE RowsKept'
  BY <1>7, TakeReviewKeepsRows
<1>8. ASSUME NEW w \in Runners, Resolve(w) PROVE RowsKept'
  BY <1>8, ResolveKeepsRows
<1>9. ASSUME NEW name \in Names, Register(name) PROVE RowsKept'
  BY <1>9, RegisterKeepsRows
<1>10. ASSUME NEW p \in Active, Deactivate(p) PROVE RowsKept'
  BY <1>10, DeactivateKeepsRows
<1>11. ASSUME NEW p \in Active, NEW name \in Names, Rename(p, name) PROVE RowsKept'
  BY <1>11, RenameKeepsRows
<1>12. ASSUME NEW p \in Active, NEW t \in Active, Merge(p, t) PROVE RowsKept'
  BY <1>12, MergeKeepsRows
<1> QED
  BY <1>1, <1>2, <1>3, <1>4, <1>5, <1>6, <1>7, <1>8, <1>9, <1>10, <1>11, <1>12,
     StutterKeepsRows DEF Next

LEMMA RowsAreTyped == RowsKept => TypeOK
<1> SUFFICES ASSUME RowsKept PROVE TypeOK
  OBVIOUS
<1>1. /\ current \in [Keys -> Versions \cup {None}]
      /\ DOMAIN people = 1 .. Cardinality(DOMAIN people)
  BY NewIdIsFree DEF RowsKept, Rows
<1>2. \A p \in DOMAIN people :
        people[p].name \in Names /\ people[p].aliases \subseteq Names
        /\ people[p].active \in BOOLEAN
  BY DEF RowsKept, Rows, PersonRow
<1>3. \A l \in links :
        /\ l.person \in DOMAIN people /\ l.version \in Versions
        /\ l.review = None \/ l.review[2] \in DOMAIN reviews[l.review[1]]
  BY DEF RowsKept, Rows, LinksRefer, LinkRow
<1>4. \A o \in Versions : \A i \in DOMAIN reviews[o] :
        /\ reviews[o][i].candidate \in DOMAIN people \cup {None}
        /\ reviews[o][i].status \in {"OPEN", "REJECTED", "RESOLVED"}
  <2> SUFFICES ASSUME NEW o \in Versions, NEW i \in DOMAIN reviews[o]
               PROVE  /\ reviews[o][i].candidate \in DOMAIN people \cup {None}
                      /\ reviews[o][i].status \in {"OPEN", "REJECTED", "RESOLVED"}
    OBVIOUS
  <2>1. reviews[o] \in Seq(ReviewRow)
    BY DEF RowsKept, Rows
  <2>2. reviews[o][i] \in ReviewRow
    BY <2>1
  <2> QED
    BY <2>2 DEF RowsKept, ReviewsRefer, ReviewRow
<1>5. \A w \in Runners :
        /\ runner[w].phase \in Phases
        /\ runner[w].phase \in {"linked", "decided", "write"} => runner[w].queue # <<>>
  BY DEF RowsKept, Rows, RunnerRow, AtWork
<1> QED
  BY <1>1, <1>2, <1>3, <1>4, <1>5 DEF TypeOK

(* The ids in a link, a review and a runner's hands name rows that exist, *)
(* also when transactions overlap: nothing is deleted, and a new person   *)
(* and its links are written together.                                    *)
THEOREM MaterializationTypes == Spec => []TypeOK
BY RowsInitially, StepKeepsRows, RowsAreTyped, PTL DEF Spec

-----------------------------------------------------------------------------
(* Transactions that do not overlap *)

Verdict(o) == Decision(o, Linked(KeyOf[o]), Called(NameOf[o]))

(* One runner at most is in a transaction.                                 *)
Solo ==
  \A v, w \in Runners :
    runner[v].phase # "between" /\ runner[w].phase # "between" => v = w

(* What it holds is what the database says now.                            *)
HeldNow(w) == LET me == runner[w] IN
  /\ me.phase = "linked" => me.held = Linked(KeyOf[Head(me.queue)])
  /\ me.phase \in {"decided", "write"} => me.held = Verdict(Head(me.queue))
  /\ me.phase = "reviewed" => Resolvable(me.held[1], reviews[me.held[1]][me.held[2]])

Reads == Solo /\ \A w \in Runners : HeldNow(w)

(* The live links of a record key are of one person.                       *)
OneLink ==
  \A l, m \in links :
    l.live /\ m.live /\ KeyOf[l.version] = KeyOf[m.version] => l.person = m.person

(* An observation has one live link.                                       *)
OneRow ==
  \A l, m \in links : l.live /\ m.live /\ l.version = m.version => l = m

CreatedBy(l, o, i) == l.review = <<o, i>> /\ l.how = "REVIEWED_CREATE"

MadeOne(o, i) ==
  \E l \in links :
    /\ CreatedBy(l, o, i)
    /\ l.person # reviews[o][i].candidate
    /\ \A m \in links : CreatedBy(m, o, i) => m = l

(* ReviewAnswered without counting.                                        *)
Answered ==
  \A o \in Versions : \A i \in DOMAIN reviews[o] :
    reviews[o][i].status = "RESOLVED" =>
      /\ MadeOne(o, i)
      /\ i = Len(reviews[o]) => \E l \in links : l.review = <<o, i>> /\ l.live

Identities == OneLink /\ OneRow /\ NamesakesReviewed /\ Answered

SerialInv == Reads /\ Identities

(* With one person to a key at most, the people linked to it can be told. *)
LEMMA LinkedIsOne ==
  ASSUME OneLink, NEW key
  PROVE  Linked(key) = {} \/ \E p : Linked(key) = {p}
BY DEF OneLink, Linked

LEMMA AtMostOne ==
  ASSUME NEW S, S = {} \/ \E p : S = {p}
  PROVE  Cardinality(S) <= 1 /\ (S # {} => Cardinality(S) = 1)
<1>1. CASE S = {}
  <2>1. Cardinality(S) = 0
    BY <1>1, FS_EmptySet
  <2> QED
    BY <1>1, <2>1
<1>2. CASE \E p : S = {p}
  <2>1. Cardinality(S) = 1
    BY <1>2, FS_Singleton
  <2> QED
    BY <2>1
<1> QED
  BY <1>1, <1>2

(* What the automatic outcomes presuppose. *)
LEMMA DecisionMeans ==
  ASSUME NEW o, NEW known, NEW named, known = {} \/ \E p : known = {p}
  PROVE  LET d == Decision(o, known, named) IN
         /\ d.act = "AUTO_LINK" => known = {d.candidate}
         /\ d.act = "AUTO_CREATE" => known = {} /\ named = {}
<1> DEFINE d == Decision(o, known, named)
<1>1. CASE known = {}
  <2>1. Cardinality(known) = 0
    BY <1>1, FS_EmptySet
  <2>2. \/ d = To("HARD_CONFLICT", "EXACT_BIRTH_DATE_CONFLICT", Sole(named))
        \/ d = To("REVIEW_REQUIRED", "SAME_NAME_AMBIGUITY", Sole(named))
        \/ d = To("AUTO_CREATE", "AUTHORITATIVE_NEW_IDENTITY", None) /\ named = {}
    BY <1>1, <2>1 DEF Decision
  <2> HIDE DEF d
  <2>3. d.act # "AUTO_LINK" /\ (d.act = "AUTO_CREATE" => named = {})
    BY <2>2 DEF To
  <2> QED
    BY <1>1, <2>3 DEF d
<1>2. CASE \E p : known = {p}
  <2>1. PICK p : known = {p}
    BY <1>2
  <2>2. Cardinality(known) = 1 /\ Sole(known) = p
    BY <2>1, FS_Singleton DEF Sole
  <2>3. \/ d = To("HARD_CONFLICT", "EXACT_BIRTH_DATE_CONFLICT", p)
        \/ d = To("AUTO_LINK", "EXACT_PROVIDER_IDENTITY", p)
    BY <2>1, <2>2 DEF Decision
  <2> HIDE DEF d
  <2>4. d.act # "AUTO_CREATE" /\ d.candidate = p
    BY <2>3 DEF To
  <2> QED
    BY <2>1, <2>4 DEF d
<1> QED
  BY <1>1, <1>2

LEMMA VerdictStable ==
  ASSUME NEW o, UNCHANGED <<people, links>>
  PROVE  Verdict(o)' = Verdict(o)
<1>1. Linked(KeyOf[o])' = Linked(KeyOf[o])
  BY DEF Linked
<1>2. Called(NameOf[o])' = Called(NameOf[o])
  BY DEF Called, Active
<1> QED
  BY <1>1, <1>2 DEF Verdict, Decision

(* A step of the runner in a transaction, or of a runner that begins one:  *)
(* all others are between theirs.                                          *)
LEMMA OwnStep ==
  ASSUME RowsKept, Reads, NEW w \in Runners, NEW row,
         runner' = [runner EXCEPT ![w] = row], HeldNow(w)',
         AllBetween \/ runner[w].phase # "between"
  PROVE  Reads'
<1>1. \A v \in Runners : v # w => runner'[v] = runner[v] /\ runner[v].phase = "between"
  BY DEF RowsKept, Rows, Reads, Solo, AllBetween
<1>2. Solo'
  BY <1>1 DEF Solo
<1>3. \A v \in Runners : HeldNow(v)'
  BY <1>1 DEF HeldNow
<1> QED
  BY <1>2, <1>3 DEF Reads

LEMMA BetweenHolds ==
  ASSUME RowsKept, NEW w \in Runners, NEW queue,
         runner' = [runner EXCEPT ![w] = Between(queue)]
  PROVE  HeldNow(w)'
<1>1. runner'[w].phase = "between"
  BY DEF RowsKept, Rows, Between
<1> QED
  BY <1>1 DEF HeldNow

LEMMA EnumerateReads ==
  ASSUME ~ Overlap, RowsKept, Reads, NEW w \in Runners, Enumerate(w)
  PROVE  Reads'
<1>1. PICK roster \in [Keys -> Versions] :
        runner' = [runner EXCEPT ![w] =
          Between([i \in DOMAIN Records |-> roster[Records[i]]])]
  BY DEF Enumerate
<1>2. AllBetween
  BY DEF Enumerate, Serial
<1> QED
  BY <1>1, <1>2, OwnStep, BetweenHolds

LEMMA ReadLinksReads ==
  ASSUME ~ Overlap, RowsKept, Reads, NEW w \in Runners, ReadLinks(w)
  PROVE  Reads'
<1> DEFINE queue == runner[w].queue
       row == [phase |-> "linked", queue |-> queue, held |-> Linked(KeyOf[Head(queue)])]
<1>1. runner' = [runner EXCEPT ![w] = row] /\ UNCHANGED links
  BY DEF ReadLinks, database
<1>2. runner'[w] = row
  BY <1>1 DEF RowsKept, Rows
<1>3. HeldNow(w)'
  BY <1>1, <1>2 DEF HeldNow, Linked
<1>4. AllBetween
  BY DEF ReadLinks, Serial
<1> QED
  BY <1>1, <1>3, <1>4, OwnStep

LEMMA DecideReads ==
  ASSUME RowsKept, Reads, NEW w \in Runners, Decide(w)
  PROVE  Reads'
<1> DEFINE queue == runner[w].queue
       row == [phase |-> "decided", queue |-> queue, held |-> Verdict(Head(queue))]
<1>1. runner[w].held = Linked(KeyOf[Head(queue)]) /\ runner[w].phase = "linked"
  BY DEF Decide, Reads, HeldNow
<1>2. runner' = [runner EXCEPT ![w] = row] /\ UNCHANGED <<people, links>>
  BY <1>1 DEF Decide, database, Verdict
<1>3. runner'[w] = row
  BY <1>2 DEF RowsKept, Rows
<1>4. HeldNow(w)'
  <2>1. \A o : Verdict(o)' = Verdict(o)
    BY <1>2, VerdictStable
  <2> QED
    BY <1>3, <2>1 DEF HeldNow
<1> QED
  BY <1>1, <1>2, <1>4, OwnStep

LEMMA LookReads ==
  ASSUME RowsKept, Reads, NEW w \in Runners, Look(w)
  PROVE  Reads'
<1> DEFINE me == runner[w]
       row == [me EXCEPT !.phase = "write"]
<1>1. /\ me.phase = "decided" /\ UNCHANGED <<people, links>> /\ me \in RunnerRow
      /\ \/ runner' = [runner EXCEPT ![w] = Between(Tail(me.queue))]
         \/ runner' = [runner EXCEPT ![w] = row]
  BY DEF Look, database, RowsKept, Rows
<1>2. CASE runner' = [runner EXCEPT ![w] = Between(Tail(me.queue))]
  BY <1>1, <1>2, OwnStep, BetweenHolds
<1>3. CASE runner' = [runner EXCEPT ![w] = row]
  <2>1. runner'[w] = row /\ row.phase = "write" /\ row.queue = me.queue /\ row.held = me.held
    BY <1>1, <1>3 DEF RowsKept, Rows, RunnerRow
  <2>2. me.held = Verdict(Head(me.queue))
    BY <1>1 DEF Reads, HeldNow
  <2>3. \A o : Verdict(o)' = Verdict(o)
    BY <1>1, VerdictStable
  <2>4. HeldNow(w)'
    BY <2>1, <2>2, <2>3 DEF HeldNow
  <2> QED
    BY <1>1, <1>3, <2>4, OwnStep
<1> QED
  BY <1>1, <1>2, <1>3

LEMMA TakeReviewReads ==
  ASSUME ~ Overlap, RowsKept, Reads, NEW w \in Runners, TakeReview(w)
  PROVE  Reads'
<1>1. PICK o \in Versions : \E i \in DOMAIN reviews[o] :
        /\ Resolvable(o, reviews[o][i])
        /\ runner' = [runner EXCEPT ![w] =
             [phase |-> "reviewed", queue |-> <<>>, held |-> <<o, i>>]]
  BY DEF TakeReview
<1>2. PICK i \in DOMAIN reviews[o] :
        /\ Resolvable(o, reviews[o][i])
        /\ runner' = [runner EXCEPT ![w] =
             [phase |-> "reviewed", queue |-> <<>>, held |-> <<o, i>>]]
  BY <1>1
<1>3. runner'[w] = [phase |-> "reviewed", queue |-> <<>>, held |-> <<o, i>>]
  BY <1>2 DEF RowsKept, Rows
<1>4. UNCHANGED <<current, people, links, reviews>> /\ AllBetween
  BY DEF TakeReview, database, Serial
<1>5. Resolvable(o, reviews[o][i])'
  BY <1>2, <1>4 DEF Resolvable, Called, Active
<1>6. HeldNow(w)'
  BY <1>3, <1>5 DEF HeldNow
<1> QED
  BY <1>2, <1>4, <1>6, OwnStep

(* A transaction that ends, well or with a rollback. *)
LEMMA EndReads ==
  ASSUME RowsKept, Reads, NEW w \in Runners, runner[w].phase # "between", NEW queue,
         runner' = [runner EXCEPT ![w] = Between(queue)]
  PROVE  Reads'
BY OwnStep, BetweenHolds

LEMMA AbortReads ==
  ASSUME RowsKept, Reads, NEW w \in Runners, Abort(w)
  PROVE  Reads'
<1>1. /\ runner' = [runner EXCEPT ![w] = Between(<<>>)]
      /\ UNCHANGED <<current, people, links, reviews>>
  BY DEF Abort, database
<1>2. \A v \in Runners : v # w => runner'[v] = runner[v]
  BY <1>1 DEF RowsKept, Rows
<1>3. runner'[w].phase = "between"
  BY <1>1 DEF RowsKept, Rows, Between
<1>4. Solo'
  BY <1>2, <1>3 DEF Reads, Solo
<1>5. ASSUME NEW v \in Runners PROVE HeldNow(v)'
  <2>1. CASE v = w
    BY <1>3, <2>1 DEF HeldNow
  <2>2. CASE v # w
    <3>1. runner'[v] = runner[v] /\ HeldNow(v)
      BY <1>2, <2>2 DEF Reads
    <3>2. \A o : Verdict(o)' = Verdict(o)
      BY <1>1, VerdictStable
    <3>3. \A key : Linked(key)' = Linked(key)
      BY <1>1 DEF Linked
    <3>4. \A o, r : Resolvable(o, r)' <=> Resolvable(o, r)
      BY <1>1 DEF Resolvable, Called, Active
    <3> QED
      BY <1>1, <3>1, <3>2, <3>3, <3>4 DEF HeldNow
  <2> QED
    BY <2>1, <2>2
<1> QED
  BY <1>4, <1>5 DEF Reads

LEMMA CommandReads ==
  ASSUME ~ Overlap, Reads, Command
  PROVE  Reads'
<1>1. AllBetween /\ UNCHANGED runner
  BY DEF Command, Serial
<1> QED
  BY <1>1 DEF AllBetween, Reads, Solo, HeldNow

-----------------------------------------------------------------------------
(* What each change of the database does to the identities *)

(* Links and reviews as they were, and everybody's links in place. *)
LEMMA SameDatabase ==
  ASSUME Identities, UNCHANGED <<people, links, reviews>>
  PROVE  Identities'
BY DEF Identities, OneLink, OneRow, NamesakesReviewed, Active, Answered, MadeOne, CreatedBy

(* What a review made stays the only thing it made. *)
LEMMA MadeOneKept ==
  ASSUME NEW o, NEW i, MadeOne(o, i), reviews'[o][i].candidate = reviews[o][i].candidate,
         links \subseteq links', \A m \in links' \ links : ~ CreatedBy(m, o, i)
  PROVE  MadeOne(o, i)'
<1>1. PICK l \in links : /\ CreatedBy(l, o, i) /\ l.person # reviews[o][i].candidate
                          /\ \A m \in links : CreatedBy(m, o, i) => m = l
  BY DEF MadeOne
<1>2. \A m \in links' : CreatedBy(m, o, i) => m = l
  BY <1>1
<1> QED
  BY <1>1, <1>2 DEF MadeOne, CreatedBy

LEMMA OpenReviewKeeps ==
  ASSUME RowsKept, Identities, NEW o \in Versions, NEW d, OpenReview(o, d)
  PROVE  Identities'
<1> DEFINE row == [why |-> d.why, candidate |-> d.candidate, status |-> "OPEN"]
<1>1. reviews' = [reviews EXCEPT ![o] = Append(@, row)] /\ UNCHANGED <<people, links>>
  BY DEF OpenReview
<1>2. row.status = "OPEN"
  OBVIOUS
<1> HIDE DEF row
<1>3. reviews \in [Versions -> Seq(ReviewRow)]
  BY DEF RowsKept, Rows
<1>4. reviews'[o] = Append(reviews[o], row) /\ \A x \in Versions : x # o => reviews'[x] = reviews[x]
  BY <1>1, <1>3
<1>5. ASSUME NEW x \in Versions, NEW i \in DOMAIN reviews'[x],
             reviews'[x][i].status = "RESOLVED"
      PROVE  /\ i \in DOMAIN reviews[x] /\ reviews'[x][i] = reviews[x][i]
             /\ i = Len(reviews'[x]) => i = Len(reviews[x])
  <2>1. CASE x # o
    BY <1>4, <1>5, <2>1
  <2>2. CASE x = o
    <3>1. reviews[o] \in Seq(ReviewRow)
      BY <1>3
    <3> QED
      BY <1>2, <1>4, <1>5, <2>2, <3>1
  <2> QED
    BY <2>1, <2>2
<1>6. Answered'
  <2> SUFFICES ASSUME NEW x \in Versions, NEW i \in DOMAIN reviews'[x],
                      reviews'[x][i].status = "RESOLVED"
               PROVE  /\ MadeOne(x, i)'
                      /\ i = Len(reviews'[x]) => \E l \in links' : l.review = <<x, i>> /\ l.live
    BY DEF Answered
  <2>1. /\ i \in DOMAIN reviews[x] /\ reviews'[x][i] = reviews[x][i]
        /\ i = Len(reviews'[x]) => i = Len(reviews[x])
    BY <1>5
  <2>2. /\ MadeOne(x, i)
        /\ i = Len(reviews[x]) => \E l \in links : l.review = <<x, i>> /\ l.live
    BY <2>1 DEF Identities, Answered
  <2> QED
    BY <1>1, <2>1, <2>2, MadeOneKept
<1> QED
  BY <1>1, <1>6 DEF Identities, OneLink, OneRow, NamesakesReviewed, Active

(* A live link more, to the person of the key if it has one, and cited by  *)
(* no resolved review.                                                     *)
LEMMA LinkAddedKeeps ==
  ASSUME Identities, NEW l, links' = links \cup {l}, UNCHANGED reviews,
         \A m \in links : m.live /\ KeyOf[m.version] = KeyOf[l.version] =>
                            m.person = l.person /\ m.version # l.version,
         l.how # "REVIEWED_CREATE"
  PROVE  OneLink' /\ OneRow' /\ Answered'
<1>1. OneLink'
  BY DEF Identities, OneLink
<1>2. OneRow'
  BY DEF Identities, OneRow
<1>3. Answered'
  <2> SUFFICES ASSUME NEW x \in Versions, NEW i \in DOMAIN reviews'[x],
                      reviews'[x][i].status = "RESOLVED"
               PROVE  /\ MadeOne(x, i)'
                      /\ i = Len(reviews'[x]) => \E m \in links' : m.review = <<x, i>> /\ m.live
    BY DEF Answered
  <2>1. /\ MadeOne(x, i)
        /\ i = Len(reviews[x]) => \E m \in links : m.review = <<x, i>> /\ m.live
    BY DEF Identities, Answered
  <2>2. ~ CreatedBy(l, x, i)
    BY DEF CreatedBy
  <2> QED
    BY <2>1, <2>2, MadeOneKept
<1> QED
  BY <1>1, <1>2, <1>3

(* A person more, of whose name there is no other, or who was reviewed. *)
LEMMA PersonAddedKeeps ==
  ASSUME Rows, NamesakesReviewed, NEW name \in Names, NEW birth \in Births,
         people' = WithPerson(name, birth), links \subseteq links',
         \/ Called(name) = {}
         \/ \E l \in links' : l.person = NewId /\ l.how = "REVIEWED_CREATE"
  PROVE  NamesakesReviewed'
<1>1. /\ DOMAIN people' = DOMAIN people \cup {NewId}
      /\ \A p \in DOMAIN people : people'[p] = people[p]
      /\ people'[NewId] = [name |-> name, aliases |-> {}, birth |-> birth, active |-> TRUE]
  BY PersonAdded
<1>2. people'[NewId].name = name
  BY <1>1
<1>3. ASSUME NEW p \in Active', p # NewId
      PROVE  p \in Active /\ people'[p] = people[p]
  BY <1>1, <1>3 DEF Active
<1>4. ASSUME NEW p \in Active', p # NewId, people'[p].name = name
      PROVE  \E l \in links' : l.person = NewId /\ l.how = "REVIEWED_CREATE"
  BY <1>3, <1>4 DEF Called
<1> SUFFICES ASSUME NEW p \in Active', NEW q \in Active', p # q,
                    people'[p].name = people'[q].name
             PROVE  \E l \in links' : l.person \in {p, q} /\ l.how = "REVIEWED_CREATE"
  BY DEF NamesakesReviewed
<1>5. CASE p = NewId
  BY <1>2, <1>4, <1>5
<1>6. CASE q = NewId
  BY <1>2, <1>4, <1>6
<1>7. CASE p # NewId /\ q # NewId
  <2>1. p \in Active /\ q \in Active /\ people[p].name = people[q].name
    BY <1>3, <1>7
  <2> QED
    BY <2>1 DEF NamesakesReviewed
<1> QED
  BY <1>5, <1>6, <1>7

(* A citation is of a review of the observation that is linked. *)
LEMMA CitesItsOwn ==
  ASSUME LinksRefer, NEW o \in Versions, NEW i \in Nat, NEW m \in links, m.review = <<o, i>>
  PROVE  m.version = o
<1>1. <<o, i>> # None /\ <<o, i>>[1] = o
  BY NoneIsNoReview
<1> QED
  BY <1>1 DEF LinksRefer

LEMMA LinkedHolds ==
  ASSUME NEW m \in links, m.live, NEW key, KeyOf[m.version] = key
  PROVE  m.person \in Linked(key)
BY DEF Linked

LEMMA WriteKeeps ==
  ASSUME RowsKept, SerialInv, NEW w \in Runners, Write(w)
  PROVE  Identities'
<1> DEFINE o == Head(runner[w].queue)
       d == runner[w].held
<1>1. /\ d = Verdict(o) /\ runner[w].queue # <<>> /\ runner[w].queue \in Seq(Versions)
      /\ OpenReview(o, d) \/ AutoLink(o, d) \/ AutoCreate(o, d)
  BY DEF Write, SerialInv, Reads, HeldNow, RowsKept, Rows, RunnerRow, AtWork
<1>2. o \in Versions
  BY <1>1
<1>3. Rows /\ LinksRefer /\ Identities /\ OneLink
  BY DEF RowsKept, SerialInv, Identities
<1> HIDE DEF o, d
<1>4. Linked(KeyOf[o]) = {} \/ \E p : Linked(KeyOf[o]) = {p}
  BY <1>3, LinkedIsOne
<1>5. /\ d.act = "AUTO_LINK" => Linked(KeyOf[o]) = {d.candidate}
      /\ d.act = "AUTO_CREATE" => Linked(KeyOf[o]) = {} /\ Called(NameOf[o]) = {}
  BY <1>1, <1>4, DecisionMeans DEF Verdict
<1>6. CASE OpenReview(o, d)
  BY <1>2, <1>3, <1>6, OpenReviewKeeps
<1>7. CASE AutoLink(o, d)
  <2> DEFINE l == Link(d.candidate, o, "AUTO_LINK", None)
  <2>1. links' = links \cup {l} /\ UNCHANGED <<people, reviews>> /\ ~ PairTaken(d.candidate, o)
    BY <1>7 DEF AutoLink
  <2>2. l.person = d.candidate /\ l.version = o /\ l.how # "REVIEWED_CREATE"
    BY DEF Link
  <2> HIDE DEF l
  <2>3. ASSUME NEW m \in links, m.live, KeyOf[m.version] = KeyOf[l.version]
        PROVE  m.person = l.person /\ m.version # l.version
    <3>1. m.person = d.candidate
      BY <1>5, <1>7, <2>2, <2>3, LinkedHolds DEF AutoLink
    <3> QED
      BY <2>1, <2>2, <3>1 DEF PairTaken
  <2>4. OneLink' /\ OneRow' /\ Answered'
    BY <1>3, <2>1, <2>2, <2>3, LinkAddedKeeps
  <2>5. NamesakesReviewed'
    BY <1>3, <2>1 DEF Identities, NamesakesReviewed, Active
  <2> QED
    BY <2>4, <2>5 DEF Identities
<1>8. CASE AutoCreate(o, d)
  <2> DEFINE l == Link(NewId, o, "AUTO_CREATE", None)
  <2>1. /\ links' = links \cup {l} /\ UNCHANGED reviews
        /\ people' = WithPerson(NameOf[o], BirthOf[o])
    BY <1>8 DEF AutoCreate
  <2>2. l.version = o /\ l.how # "REVIEWED_CREATE"
    BY DEF Link
  <2> HIDE DEF l
  <2>3. ASSUME NEW m \in links, m.live PROVE KeyOf[m.version] # KeyOf[l.version]
    BY <1>5, <1>8, <2>2, <2>3, LinkedHolds DEF AutoCreate
  <2>4. OneLink' /\ OneRow' /\ Answered'
    BY <1>3, <2>1, <2>2, <2>3, LinkAddedKeeps
  <2>5. NameOf[o] \in Names /\ BirthOf[o] \in Births
    BY <1>2, ObservationsAreOfRecords DEF Births
  <2>6. NamesakesReviewed'
    BY <1>3, <1>5, <1>8, <2>1, <2>5, PersonAddedKeeps DEF AutoCreate, Identities
  <2> QED
    BY <2>4, <2>6 DEF Identities
<1> QED
  BY <1>1, <1>6, <1>7, <1>8

(* A resolution is of a key nobody has been linked to: the link it adds is *)
(* the first of the key, and the only one that cites the review.           *)
LEMMA ResolveKeeps ==
  ASSUME RowsKept, SerialInv, NEW w \in Runners, Resolve(w)
  PROVE  Identities'
<1> DEFINE o == runner[w].held[1]
       i == runner[w].held[2]
       l == Link(NewId, o, "REVIEWED_CREATE", <<o, i>>)
<1>1. /\ o \in Versions /\ i \in DOMAIN reviews[o] /\ Resolvable(o, reviews[o][i])
      /\ people' = WithPerson(NameOf[o], BirthOf[o])
      /\ links' = links \cup {l}
      /\ reviews' = [reviews EXCEPT ![o][i].status = "RESOLVED"]
  BY DEF Resolve, SerialInv, Reads, HeldNow, RowsKept, AtWork
<1>2. Rows /\ Identities
  BY DEF RowsKept, SerialInv
<1> HIDE DEF o, i
<1>3. /\ l.person = NewId /\ l.version = o /\ l.how = "REVIEWED_CREATE"
      /\ l.review = <<o, i>> /\ l.live
  BY DEF Link
<1> HIDE DEF l
<1>4. /\ \A m \in links : KeyOf[m.version] # KeyOf[o]
      /\ reviews[o][i].candidate \in DOMAIN people
      /\ reviews[o][i].status = "OPEN"
  BY <1>1 DEF Resolvable, Called, Active
<1>5. NewId \notin DOMAIN people
  BY <1>2, NewIdIsFree
<1>6. OneLink' /\ OneRow'
  <2>1. OneLink'
    BY <1>1, <1>2, <1>3, <1>4 DEF Identities, OneLink
  <2>2. OneRow'
    BY <1>1, <1>2, <1>3, <1>4 DEF Identities, OneRow
  <2> QED
    BY <2>1, <2>2
<1>7. NamesakesReviewed'
  <2>1. NameOf[o] \in Names /\ BirthOf[o] \in Births
    BY <1>1, ObservationsAreOfRecords DEF Births
  <2> QED
    BY <1>1, <1>2, <1>3, <2>1, PersonAddedKeeps DEF Identities
<1>8. ASSUME NEW x \in Versions
      PROVE  /\ DOMAIN reviews'[x] = DOMAIN reviews[x] /\ Len(reviews'[x]) = Len(reviews[x])
             /\ \A j \in DOMAIN reviews[x] :
                  /\ reviews'[x][j].candidate = reviews[x][j].candidate
                  /\ x # o \/ j # i => reviews'[x][j] = reviews[x][j]
  <2>1. reviews \in [Versions -> Seq(ReviewRow)] /\ reviews[o][i] \in ReviewRow
    BY <1>1, <1>2 DEF Rows
  <2> QED
    BY <1>1, <1>8, <2>1 DEF ReviewRow
<1>9. Answered'
  <2> SUFFICES ASSUME NEW x \in Versions, NEW j \in DOMAIN reviews'[x],
                      reviews'[x][j].status = "RESOLVED"
               PROVE  /\ MadeOne(x, j)'
                      /\ j = Len(reviews'[x]) => \E m \in links' : m.review = <<x, j>> /\ m.live
    BY DEF Answered
  <2>1. CASE x = o /\ j = i
    <3>1. \A m \in links : ~ CreatedBy(m, o, i)
      <4>1. \A m \in links : m.review = <<o, i>> => m.version = o
        <5>1. i \in Nat
          BY <1>1, <1>2 DEF Rows
        <5> QED
          BY <1>1, <5>1, CitesItsOwn DEF RowsKept
      <4> QED
        BY <1>4, <4>1 DEF CreatedBy
    <3>2. l.person # reviews'[o][i].candidate
      BY <1>1, <1>3, <1>4, <1>5, <1>8
    <3>3. MadeOne(x, j)'
      BY <1>1, <1>3, <2>1, <3>1, <3>2 DEF MadeOne, CreatedBy
    <3> QED
      BY <1>1, <1>3, <2>1, <3>3
  <2>2. CASE x # o \/ j # i
    <3>1. /\ MadeOne(x, j)
          /\ j = Len(reviews[x]) => \E m \in links : m.review = <<x, j>> /\ m.live
      <4>1. j \in DOMAIN reviews[x] /\ reviews'[x][j] = reviews[x][j]
        BY <1>8, <2>2
      <4> QED
        BY <1>2, <4>1 DEF Identities, Answered
    <3>2. ~ CreatedBy(l, x, j)
      BY <1>3, <2>2 DEF CreatedBy
    <3> QED
      BY <1>1, <1>8, <3>1, <3>2, MadeOneKept
  <2> QED
    BY <2>1, <2>2
<1> QED
  BY <1>6, <1>7, <1>9 DEF Identities

LEMMA RegisterKeeps ==
  ASSUME RowsKept, Identities, NEW name \in Names, Register(name)
  PROVE  Identities'
<1>1. /\ people' = WithPerson(name, None) /\ UNCHANGED <<links, reviews>>
      /\ \A p \in Active : name \notin NamesOf(p)
  BY DEF Register
<1>2. Called(name) = {} /\ None \in Births
  BY <1>1 DEF Called, NamesOf, Births
<1>3. NamesakesReviewed'
  BY <1>1, <1>2, PersonAddedKeeps DEF RowsKept, Identities
<1> QED
  BY <1>1, <1>3 DEF Identities, OneLink, OneRow, Answered, MadeOne, CreatedBy

LEMMA RenameKeeps ==
  ASSUME RowsKept, Identities, NEW p \in Active, NEW name \in Names, Rename(p, name)
  PROVE  Identities'
<1>1. /\ people' = [people EXCEPT ![p].name = name, ![p].aliases = NamesOf(p)]
      /\ Called(name) = {} /\ UNCHANGED <<links, reviews>>
  BY DEF Rename
<1>2. p \in DOMAIN people /\ people[p] \in PersonRow
  BY DEF Active, RowsKept, Rows
<1>3. /\ DOMAIN people' = DOMAIN people /\ people'[p].name = name
      /\ people'[p].active = people[p].active
      /\ \A q \in DOMAIN people : q # p => people'[q] = people[q]
  BY <1>1, <1>2 DEF PersonRow
<1>4. Active' = Active
  BY <1>3 DEF Active
<1>5. \A q \in Active : q # p => people'[q].name # name
  BY <1>1, <1>3 DEF Called, Active
<1>6. NamesakesReviewed'
  BY <1>1, <1>3, <1>4, <1>5 DEF Identities, NamesakesReviewed, Active
<1> QED
  BY <1>1, <1>6 DEF Identities, OneLink, OneRow, Answered, MadeOne, CreatedBy

(* The links of a person end, and nobody is made by it. *)
LEMMA CreatedKept ==
  ASSUME Rows, NEW p, NEW o, NEW i, MadeOne(o, i),
         reviews'[o][i].candidate = reviews[o][i].candidate,
         links \ LinksOf(p) \subseteq links', Ended(LinksOf(p)) \subseteq links',
         \A m \in links' : \/ m \in links \ LinksOf(p)
                           \/ m \in Ended(LinksOf(p))
                           \/ m.how = "REVIEWED_LINK"
  PROVE  MadeOne(o, i)'
<1>1. PICK l \in links : /\ CreatedBy(l, o, i) /\ l.person # reviews[o][i].candidate
                         /\ \A m \in links : CreatedBy(m, o, i) => m = l
  BY DEF MadeOne
<1> DEFINE e == [l EXCEPT !.live = FALSE]
<1>2. l \in LinkRow
  BY DEF Rows
<1>3. e.review = l.review /\ e.how = l.how /\ e.person = l.person
  BY <1>2 DEF LinkRow
<1>4. ASSUME NEW m \in links', CreatedBy(m, o, i)
      PROVE  IF l \in LinksOf(p) THEN m = e ELSE m = l
  <2>1. CASE m \in links \ LinksOf(p)
    BY <1>1, <1>4, <2>1
  <2>2. CASE m \in Ended(LinksOf(p))
    <3>1. PICK k \in LinksOf(p) : m = [k EXCEPT !.live = FALSE]
      BY <2>2 DEF Ended
    <3>2. k \in links /\ k \in LinkRow
      BY DEF LinksOf, Rows
    <3>3. CreatedBy(k, o, i)
      BY <1>4, <3>1, <3>2 DEF CreatedBy, LinkRow
    <3> QED
      BY <1>1, <3>1, <3>2, <3>3
  <2>3. CASE m.how = "REVIEWED_LINK"
    BY <1>4, <2>3 DEF CreatedBy
  <2> QED
    BY <2>1, <2>2, <2>3
<1>5. CASE l \in LinksOf(p)
  <2>1. e \in links'
    BY <1>5 DEF Ended
  <2> QED
    BY <1>1, <1>3, <1>4, <1>5, <2>1 DEF MadeOne, CreatedBy
<1>6. CASE l \notin LinksOf(p)
  <2>1. l \in links'
    BY <1>6
  <2> QED
    BY <1>1, <1>4, <1>6, <2>1 DEF MadeOne, CreatedBy
<1> QED
  BY <1>5, <1>6

(* An end or a merge makes no namesake: nobody gets a name, and the link a *)
(* review made is still there.                                             *)
LEMMA FewerNamesakes ==
  ASSUME NamesakesReviewed, Active' \subseteq Active,
         \A q \in Active' : people'[q].name = people[q].name,
         \A l \in links : \E m \in links' : m.person = l.person /\ m.how = l.how
  PROVE  NamesakesReviewed'
<1> SUFFICES ASSUME NEW p \in Active', NEW q \in Active', p # q,
                    people'[p].name = people'[q].name
             PROVE  \E m \in links' : m.person \in {p, q} /\ m.how = "REVIEWED_CREATE"
  BY DEF NamesakesReviewed
<1>1. PICK l \in links : l.person \in {p, q} /\ l.how = "REVIEWED_CREATE"
  BY DEF NamesakesReviewed
<1>2. PICK m \in links' : m.person = l.person /\ m.how = l.how
  OBVIOUS
<1> QED
  BY <1>1, <1>2

LEMMA EndedStay ==
  ASSUME Rows, NEW p, links \ LinksOf(p) \subseteq links', Ended(LinksOf(p)) \subseteq links'
  PROVE  \A l \in links : \E m \in links' : m.person = l.person /\ m.how = l.how
<1> SUFFICES ASSUME NEW l \in links
             PROVE  \E m \in links' : m.person = l.person /\ m.how = l.how
  OBVIOUS
<1>1. LinksOf(p) \in SUBSET links
  BY DEF LinksOf
<1>2. CASE l \in LinksOf(p)
  BY <1>1, <1>2, EndingKeeps
<1>3. CASE l \notin LinksOf(p)
  BY <1>3
<1> QED
  BY <1>2, <1>3

LEMMA DeactivateKeeps ==
  ASSUME RowsKept, Identities, NEW p \in Active, Deactivate(p)
  PROVE  Identities'
<1> DEFINE S == {l.version : l \in LinksOf(p)}
<1>1. /\ people' = [people EXCEPT ![p].active = FALSE]
      /\ links' = (links \ LinksOf(p)) \cup Ended(LinksOf(p))
      /\ reviews' = Rejected(S, p)
  BY DEF Deactivate
<1>2. Rows /\ LinksRefer /\ LinksOf(p) \in SUBSET links
  BY DEF RowsKept, LinksOf
<1>3. p \in DOMAIN people /\ people[p] \in PersonRow
  BY <1>2 DEF Active, Rows
<1>4. \A l \in LinksOf(p) : l.version \in S
  OBVIOUS
<1> HIDE DEF S
<1>5. /\ reviews' \in [Versions -> Seq(ReviewRow)]
      /\ \A o \in Versions : \A i \in DOMAIN reviews'[o] :
           \/ reviews'[o][i].status = "REJECTED"
           \/ /\ i \in DOMAIN reviews[o] /\ reviews'[o][i] = reviews[o][i]
              /\ o \in S => i # Len(reviews'[o])
              /\ Len(reviews'[o]) = Len(reviews[o])
  BY <1>1, <1>2, <1>3, RejectedRows
<1>6. \A m \in links' : m.live => m \in links \ LinksOf(p)
  BY <1>1, <1>2, EndedFields
<1>7. OneLink' /\ OneRow'
  BY <1>6 DEF Identities, OneLink, OneRow
<1>8. NamesakesReviewed'
  <2>1. /\ DOMAIN people' = DOMAIN people /\ ~ people'[p].active
        /\ people'[p].name = people[p].name
        /\ \A q \in DOMAIN people : q # p => people'[q] = people[q]
    BY <1>1, <1>3 DEF PersonRow
  <2>2. Active' \subseteq Active /\ \A q \in Active' : people'[q].name = people[q].name
    BY <2>1 DEF Active
  <2>3. \A l \in links : \E m \in links' : m.person = l.person /\ m.how = l.how
    BY <1>1, <1>2, EndedStay
  <2> QED
    BY <2>2, <2>3, FewerNamesakes DEF Identities
<1>9. Answered'
  <2> SUFFICES ASSUME NEW o \in Versions, NEW i \in DOMAIN reviews'[o],
                      reviews'[o][i].status = "RESOLVED"
               PROVE  /\ MadeOne(o, i)'
                      /\ i = Len(reviews'[o]) => \E m \in links' : m.review = <<o, i>> /\ m.live
    BY DEF Answered
  <2>1. /\ i \in DOMAIN reviews[o] /\ reviews'[o][i] = reviews[o][i]
        /\ o \in S => i # Len(reviews'[o])
        /\ Len(reviews'[o]) = Len(reviews[o])
    BY <1>5
  <2>2. /\ MadeOne(o, i)
        /\ i = Len(reviews[o]) => \E l \in links : l.review = <<o, i>> /\ l.live
    BY <2>1 DEF Identities, Answered
  <2>3. MadeOne(o, i)'
    BY <1>1, <1>2, <2>1, <2>2, CreatedKept
  <2>4. ASSUME i = Len(reviews'[o])
        PROVE  \E m \in links' : m.review = <<o, i>> /\ m.live
    <3>1. PICK l \in links : l.review = <<o, i>> /\ l.live
      BY <2>1, <2>2, <2>4
    <3>2. i \in Nat
      BY <1>2, <2>1 DEF Rows
    <3>3. l.version = o
      BY <1>2, <3>1, <3>2, CitesItsOwn
    <3>4. l \notin LinksOf(p)
      BY <1>4, <2>1, <2>4, <3>3
    <3> QED
      BY <1>1, <3>1, <3>4
  <2> QED
    BY <2>3, <2>4
<1> QED
  BY <1>7, <1>8, <1>9 DEF Identities

LEMMA MergeKeeps ==
  ASSUME RowsKept, Identities, NEW p \in Active, NEW t \in Active, Merge(p, t)
  PROVE  Identities'
<1>1. /\ people' = [people EXCEPT ![p].active = FALSE,
                                  ![t].aliases = @ \cup people[p].aliases]
      /\ links' = Moved(p, t) /\ p # t /\ UNCHANGED reviews
  BY DEF Merge
<1>2. Rows /\ LinksRefer /\ LinksOf(p) \in SUBSET links
  BY DEF RowsKept, LinksOf
<1>3. \A l \in LinksOf(p) : l \in links /\ l.live /\ l.person = p
  BY DEF LinksOf
<1>4. /\ p \in DOMAIN people /\ people[p] \in PersonRow
      /\ t \in DOMAIN people /\ people[t] \in PersonRow /\ t \in Nat
  BY <1>2, NewIdIsFree DEF Active, Rows
<1>5. links \ LinksOf(p) \subseteq links' /\ Ended(LinksOf(p)) \subseteq links'
  BY <1>1 DEF Moved
<1>6. ASSUME NEW m \in links', m.live
      PROVE  \/ m \in links \ LinksOf(p)
             \/ \E l \in LinksOf(p) : /\ ~ LinkedAlready(l.version, t)
                                      /\ m = Link(t, l.version, "REVIEWED_LINK", l.review)
                                      /\ m.person = t /\ m.version = l.version
  <2>1. m \notin Ended(LinksOf(p))
    BY <1>2, <1>6, EndedFields
  <2> QED
    BY <1>1, <1>2, <1>4, <2>1, MovedFields
<1>7. \A l \in LinksOf(p), m \in links \ LinksOf(p) :
        m.live => KeyOf[m.version] # KeyOf[l.version]
  <2>1. \A m \in links \ LinksOf(p) : m.live => m.person # p
    BY DEF LinksOf
  <2> QED
    BY <1>3, <2>1 DEF Identities, OneLink
<1>8. OneLink'
  <2> SUFFICES ASSUME NEW l \in links', NEW m \in links', l.live, m.live,
                      KeyOf[l.version] = KeyOf[m.version]
               PROVE  l.person = m.person
    BY DEF OneLink
  <2>1. CASE l \in links \ LinksOf(p) /\ m \in links \ LinksOf(p)
    BY <2>1 DEF Identities, OneLink
  <2> QED
    BY <1>6, <1>7, <2>1
<1>9. OneRow'
  <2> SUFFICES ASSUME NEW l \in links', NEW m \in links', l.live, m.live,
                      l.version = m.version
               PROVE  l = m
    BY DEF OneRow
  <2>1. CASE l \in links \ LinksOf(p) /\ m \in links \ LinksOf(p)
    BY <2>1 DEF Identities, OneRow
  <2>2. CASE l \notin links \ LinksOf(p) /\ m \notin links \ LinksOf(p)
    <3>1. PICK k \in LinksOf(p) :
            l = Link(t, k.version, "REVIEWED_LINK", k.review) /\ l.version = k.version
      BY <1>6, <2>2
    <3>2. PICK j \in LinksOf(p) :
            m = Link(t, j.version, "REVIEWED_LINK", j.review) /\ m.version = j.version
      BY <1>6, <2>2
    <3>3. k = j
      BY <1>3, <3>1, <3>2 DEF Identities, OneRow
    <3> QED
      BY <3>1, <3>2, <3>3
  <2> QED
    BY <1>6, <1>7, <2>1, <2>2
<1>10. NamesakesReviewed'
  <2>1. /\ DOMAIN people' = DOMAIN people /\ ~ people'[p].active
        /\ \A q \in DOMAIN people :
             people'[q].name = people[q].name /\ (q # p => people'[q].active = people[q].active)
    BY <1>1, <1>4 DEF PersonRow
  <2>2. Active' \subseteq Active /\ \A q \in Active' : people'[q].name = people[q].name
    BY <2>1 DEF Active
  <2>3. \A l \in links : \E m \in links' : m.person = l.person /\ m.how = l.how
    BY <1>2, <1>5, EndedStay
  <2> QED
    BY <2>2, <2>3, FewerNamesakes DEF Identities
<1>11. Answered'
  <2> SUFFICES ASSUME NEW o \in Versions, NEW i \in DOMAIN reviews[o],
                      reviews[o][i].status = "RESOLVED"
               PROVE  /\ MadeOne(o, i)'
                      /\ i = Len(reviews[o]) => \E m \in links' : m.review = <<o, i>> /\ m.live
    BY <1>1 DEF Answered
  <2>1. /\ MadeOne(o, i)
        /\ i = Len(reviews[o]) => \E l \in links : l.review = <<o, i>> /\ l.live
    BY DEF Identities, Answered
  <2>2. \A m \in links' : \/ m \in links \ LinksOf(p)
                          \/ m \in Ended(LinksOf(p))
                          \/ m.how = "REVIEWED_LINK"
    BY <1>1, <1>2, <1>4, MovedFields
  <2>3. MadeOne(o, i)'
    BY <1>1, <1>2, <1>5, <2>1, <2>2, CreatedKept
  <2>4. ASSUME i = Len(reviews[o])
        PROVE  \E m \in links' : m.review = <<o, i>> /\ m.live
    <3>1. PICK l \in links : l.review = <<o, i>> /\ l.live
      BY <2>1, <2>4
    <3>2. CASE l \notin LinksOf(p)
      BY <1>5, <3>1, <3>2
    <3>3. CASE l \in LinksOf(p)
      <4>1. ~ LinkedAlready(l.version, t)
        BY <1>1, <1>3, <3>3 DEF LinkedAlready, LinksOf, Identities, OneLink
      <4>2. Link(t, l.version, "REVIEWED_LINK", l.review) \in links'
        BY <1>1, <3>3, <4>1 DEF Moved
      <4> QED
        BY <3>1, <4>2 DEF Link
    <3> QED
      BY <3>2, <3>3
  <2> QED
    BY <2>3, <2>4
<1> QED
  BY <1>8, <1>9, <1>10, <1>11 DEF Identities

-----------------------------------------------------------------------------
(* The identities, when transactions do not overlap *)

LEMMA SerialInitially == Init => SerialInv
<1> SUFFICES ASSUME Init PROVE SerialInv
  OBVIOUS
<1>1. Reads
  BY DEF Init, Reads, Solo, HeldNow, Between
<1>2. Active = {}
  BY DEF Init, Active
<1>3. Identities
  BY <1>2 DEF Init, Identities, OneLink, OneRow, NamesakesReviewed, Answered
<1> QED
  BY <1>1, <1>3 DEF SerialInv

LEMMA StepKeepsIdentities ==
  ASSUME ~ Overlap, RowsKept, SerialInv, [Next]_vars
  PROVE  SerialInv'
<1>1. Reads /\ Identities
  BY DEF SerialInv
<1>2. ASSUME NEW w \in Runners, Enumerate(w) \/ ReadLinks(w) \/ Decide(w) \/ Look(w)
                                \/ Abort(w) \/ TakeReview(w)
      PROVE  SerialInv'
  <2>1. UNCHANGED <<people, links, reviews>>
    BY <1>2 DEF Enumerate, ReadLinks, Decide, Look, Abort, TakeReview, database
  <2>2. Reads'
    BY <1>1, <1>2, EnumerateReads, ReadLinksReads, DecideReads, LookReads, AbortReads,
       TakeReviewReads
  <2> QED
    BY <1>1, <2>1, <2>2, SameDatabase DEF SerialInv
<1>3. ASSUME NEW w \in Runners, Write(w) PROVE SerialInv'
  <2>1. Reads'
    BY <1>1, <1>3, EndReads DEF Write
  <2> QED
    BY <1>3, <2>1, WriteKeeps DEF SerialInv
<1>4. ASSUME NEW w \in Runners, Resolve(w) PROVE SerialInv'
  <2>1. Reads'
    BY <1>1, <1>4, EndReads DEF Resolve
  <2> QED
    BY <1>4, <2>1, ResolveKeeps DEF SerialInv
<1>5. ASSUME NEW name \in Names, Register(name) PROVE SerialInv'
  BY <1>1, <1>5, CommandReads, RegisterKeeps DEF SerialInv, Register
<1>6. ASSUME NEW p \in Active, NEW name \in Names, Rename(p, name) PROVE SerialInv'
  BY <1>1, <1>6, CommandReads, RenameKeeps DEF SerialInv, Rename
<1>7. ASSUME NEW p \in Active, Deactivate(p) PROVE SerialInv'
  BY <1>1, <1>7, CommandReads, DeactivateKeeps DEF SerialInv, Deactivate
<1>8. ASSUME NEW p \in Active, NEW t \in Active, Merge(p, t) PROVE SerialInv'
  BY <1>1, <1>8, CommandReads, MergeKeeps DEF SerialInv, Merge
<1>9. ASSUME UNCHANGED vars PROVE SerialInv'
  <2>1. UNCHANGED <<people, links, reviews, current, runner>>
    BY <1>9 DEF vars
  <2>2. Identities'
    BY <1>1, <2>1, SameDatabase
  <2>3. \A o : Verdict(o)' = Verdict(o)
    BY <2>1, VerdictStable
  <2>4. \A key : Linked(key)' = Linked(key)
    BY <2>1 DEF Linked
  <2>5. \A o, r : Resolvable(o, r)' <=> Resolvable(o, r)
    BY <2>1 DEF Resolvable, Called, Active
  <2>6. Reads'
    BY <1>1, <2>1, <2>3, <2>4, <2>5 DEF Reads, Solo, HeldNow
  <2> QED
    BY <2>2, <2>6 DEF SerialInv
<1> QED
  BY <1>2, <1>3, <1>4, <1>5, <1>6, <1>7, <1>8, <1>9 DEF Next

LEMMA SerialAlways ==
  ASSUME ~ Overlap
  PROVE  Spec => [](RowsKept /\ SerialInv)
<1>1. RowsKept /\ SerialInv /\ [Next]_vars => (RowsKept /\ SerialInv)'
  BY StepKeepsRows, StepKeepsIdentities
<1> QED
  BY <1>1, RowsInitially, SerialInitially, PTL DEF Spec

(* Where transactions do not overlap, a provider key is never linked to    *)
(* two people, whatever passes, resolutions, renames, deactivations and    *)
(* merges come in between: an automatic link goes to the one person of the *)
(* key, a new person is made only for a key without one, a resolution only *)
(* for a key that never had one, and a merge moves all links of a key.     *)
THEOREM KeysHaveOnePerson ==
  ASSUME ~ Overlap
  PROVE  Spec => []OnePersonPerKey
<1>1. SerialInv => OnePersonPerKey
  <2> SUFFICES ASSUME SerialInv, NEW k \in Keys PROVE Cardinality(Linked(k)) <= 1
    BY DEF OnePersonPerKey
  <2>1. Linked(k) = {} \/ \E p : Linked(k) = {p}
    BY LinkedIsOne DEF SerialInv, Identities
  <2> QED
    BY <2>1, AtMostOne
<1> QED
  BY <1>1, SerialAlways, PTL

(* And two current people of one name were told apart by a review.         *)
THEOREM NamesakesAreReviewed ==
  ASSUME ~ Overlap
  PROVE  Spec => []NamesakesReviewed
<1>1. SerialInv => NamesakesReviewed
  BY DEF SerialInv, Identities
<1> QED
  BY <1>1, SerialAlways, PTL

(* And the answer to a review is one person other than the candidate,      *)
(* cited by one live link until a later review of the observation.         *)
THEOREM ReviewsStayAnswered ==
  ASSUME ~ Overlap
  PROVE  Spec => []ReviewAnswered
<1>1. RowsKept /\ SerialInv => ReviewAnswered
  <2> SUFFICES ASSUME RowsKept, SerialInv, NEW o \in Versions, NEW i \in DOMAIN reviews[o],
                      reviews[o][i].status = "RESOLVED"
               PROVE  LET citing == {l \in links : l.review = <<o, i>>}
                          created == {l \in citing : l.how = "REVIEWED_CREATE"}
                          live == {l \in citing : l.live} IN
                      /\ Cardinality(created) = 1
                      /\ \A l \in created : l.person # reviews[o][i].candidate
                      /\ Cardinality(live) <= 1
                      /\ i = Len(reviews[o]) => Cardinality(live) = 1
    BY DEF ReviewAnswered
  <2> DEFINE citing == {l \in links : l.review = <<o, i>>}
             created == {l \in citing : l.how = "REVIEWED_CREATE"}
             live == {l \in citing : l.live}
  <2>1. /\ MadeOne(o, i)
        /\ i = Len(reviews[o]) => \E l \in links : l.review = <<o, i>> /\ l.live
    BY DEF SerialInv, Identities, Answered
  <2>2. PICK x \in links : /\ CreatedBy(x, o, i) /\ x.person # reviews[o][i].candidate
                           /\ \A m \in links : CreatedBy(m, o, i) => m = x
    BY <2>1 DEF MadeOne
  <2>3. created = {x}
    BY <2>2 DEF CreatedBy
  <2>4. i \in Nat
    BY DEF RowsKept, Rows
  <2>5. \A l, m \in live : l = m
    <3>1. \A l \in live : l \in links /\ l.live /\ l.version = o
      BY <2>4, CitesItsOwn DEF RowsKept
    <3> QED
      BY <3>1 DEF SerialInv, Identities, OneRow
  <2>6. live = {} \/ \E l : live = {l}
    BY <2>5
  <2>7. i = Len(reviews[o]) => live # {}
    BY <2>1
  <2> HIDE DEF citing, created, live
  <2>8. Cardinality(created) = 1 /\ \A l \in created : l.person # reviews[o][i].candidate
    BY <2>2, <2>3, FS_Singleton
  <2>9. Cardinality(live) <= 1 /\ (i = Len(reviews[o]) => Cardinality(live) = 1)
    BY <2>6, <2>7, AtMostOne
  <2> QED
    BY <2>8, <2>9 DEF citing, created, live
<1> QED
  BY <1>1, SerialAlways, PTL
=============================================================================
