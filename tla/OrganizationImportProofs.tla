------------------------ MODULE OrganizationImportProofs ------------------------
(***************************************************************************)
(* Machine-checked theorems about OrganizationImport, for any importers,   *)
(* jobs, names, provider records and versions.                             *)
(***************************************************************************)
EXTENDS OrganizationImport, FiniteSetTheorems, TLAPS

-----------------------------------------------------------------------------
(* Rows *)

(* Organizations are finitely many, so a proposal can count them. *)
LEMMA OrgsFinite == \A S \in SUBSET OrgIds : Cardinality(S) \in Nat
<1>1. IsFiniteSet(Namespaces)
  <2>1. Namespaces = (({"MOIS"} \cup {"ORGGO"}) \cup {"ALIO"}) \cup {"COMMITTEE"}
    BY DEF Namespaces
  <2> QED
    BY <2>1, FS_Singleton, FS_Union
<1>2. IsFiniteSet(Namespaces \X Names)
  BY <1>1, FiniteAssumption, FS_Product
<1>3. IsFiniteSet(OrgIds)
  <2> DEFINE f == [o \in OrgIds |-> <<o.ns, o.name>>]
  <2>1. f \in [OrgIds -> Namespaces \X Names]
    BY DEF OrgIds
  <2>2. \A o, x \in OrgIds : f[o] = f[x] => o = x
    BY DEF OrgIds
  <2>3. f \in Injection(OrgIds, Namespaces \X Names)
    BY <2>1, <2>2 DEF Injection, IsInjective
  <2> QED
    BY <1>2, <2>3, FS_Injection
<1> QED
  BY <1>3, FS_Subset, FS_CardinalityType

(* The fields of an id identify the row. *)
LEMMA SameClaim ==
  ASSUME NEW c \in ClaimIds, NEW d \in ClaimIds
  PROVE  /\ ImportKey(c) = ImportKey(d) <=> c.org = d.org /\ c.pred = d.pred /\ c.key = d.key
         /\ ImportKey(c) = ImportKey(d) /\ c.ver = d.ver => c = d
BY DEF ClaimIds, ImportKey

(* The one stored version of a record is a version. *)
LEMMA OneVersion ==
  ASSUME NEW k \in Keys, SingleVersion(k)
  PROVE  /\ OnlyVersion(k) \in Versions
         /\ VersionsOf(k) = {OnlyVersion(k)}
<1>1. VersionsOf(k) \subseteq Versions /\ IsFiniteSet(VersionsOf(k))
  BY FiniteAssumption, FS_Subset DEF VersionsOf
<1>2. PICK v : VersionsOf(k) = {v}
  BY <1>1, FS_Singleton DEF SingleVersion
<1> QED
  BY <1>1, <1>2 DEF OnlyVersion

-----------------------------------------------------------------------------
(* Plans *)

(* A claim of the yearly expenses or of the audit plan names its institution. *)
ByName(c) == c.pred \in {"EXPENSE", "TARGET"} => c.org.name = NameOf[c.key]

(* What a plan of a job looks like, whatever becomes of the database.      *)
Shaped(j, p) ==
  /\ \A c \in p.items : c.org \in p.orgs
  /\ \A c, d \in p.items : c.pred = d.pred /\ c.key = d.key => c = d
  /\ \A c \in p.items : ByName(c)
  /\ Lane[j] \in {"EXPENSE", "TARGET"} => \A c \in p.items : c.pred \in {"EXPENSE", "TARGET"}

(* When it is made, each of its claims rests on the only stored version.   *)
Fresh(p) == \A c \in p.items : VersionsOf(c.key) = {c.ver}

Good(j, p) == p \in Plans /\ Shaped(j, p) /\ Fresh(p)

LEMMA PlanFields ==
  ASSUME NEW os, NEW items, NEW reused \in BOOLEAN
  PROVE  /\ Plan(os, items, reused).orgs = os
         /\ Plan(os, items, reused).items = items
         /\ Plan(os, items, reused).reused = reused
         /\ orgs \subseteq OrgIds /\ os \subseteq OrgIds /\ items \subseteq ClaimIds
              => Plan(os, items, reused) \in Plans
BY DEF Plan, Plans

LEMMA ClaimFields ==
  ASSUME NEW o \in OrgIds, NEW p \in Predicates, NEW k \in Keys, NEW v \in Versions
  PROVE  /\ Claim(o, p, k, v) \in ClaimIds
         /\ Claim(o, p, k, v).org = o /\ Claim(o, p, k, v).pred = p
         /\ Claim(o, p, k, v).key = k /\ Claim(o, p, k, v).ver = v
BY DEF Claim, ClaimIds

LEMMA OrganizationPlansGood ==
  ASSUME TypeOK, NEW j \in Jobs, NEW p \in OrganizationPlans(j),
         Lane[j] \in {"MOIS", "ORGGO"}
  PROVE  Good(j, p)
<1> DEFINE ids == {[ns |-> Namespace[j], name |-> n] : n \in NamesOf[j]}
       reused == ids \subseteq orgs
<1>1. p = Plan(ids, {}, reused)
  BY DEF OrganizationPlans
<1>2. ids \subseteq OrgIds /\ reused \in BOOLEAN /\ orgs \subseteq OrgIds
  BY JobsAssumption DEF OrgIds, TypeOK
<1> HIDE DEF ids, reused
<1>3. p \in Plans /\ p.items = {}
  BY <1>1, <1>2, PlanFields
<1> QED
  BY <1>3 DEF Good, Shaped, Fresh

(* Claims of one predicate for the records of a job, all under one owner each. *)
LEMMA KeyedGood ==
  ASSUME TypeOK, NEW j \in Jobs, NEW os \in SUBSET OrgIds, NEW q \in Predicates,
         NEW owner \in [KeysOf[j] -> os], NEW reused \in BOOLEAN,
         \A k \in KeysOf[j] : SingleVersion(k),
         q \in {"EXPENSE", "TARGET"} => \A k \in KeysOf[j] : owner[k].name = NameOf[k],
         Lane[j] \in {"EXPENSE", "TARGET"} => q \in {"EXPENSE", "TARGET"}
  PROVE  Good(j, Plan(os, {Claim(owner[k], q, k, OnlyVersion(k)) : k \in KeysOf[j]}, reused))
<1> DEFINE items == {Claim(owner[k], q, k, OnlyVersion(k)) : k \in KeysOf[j]}
<1>1. KeysOf[j] \subseteq Keys
  BY JobsAssumption
<1>2. \A c \in items : \E k \in KeysOf[j] :
        /\ c = Claim(owner[k], q, k, OnlyVersion(k))
        /\ c \in ClaimIds /\ c.org = owner[k] /\ c.pred = q /\ c.key = k
        /\ c.ver = OnlyVersion(k) /\ VersionsOf(k) = {OnlyVersion(k)}
  <2> SUFFICES ASSUME NEW k \in KeysOf[j]
               PROVE  LET c == Claim(owner[k], q, k, OnlyVersion(k)) IN
                        /\ c \in ClaimIds /\ c.org = owner[k] /\ c.pred = q /\ c.key = k
                        /\ c.ver = OnlyVersion(k) /\ VersionsOf(k) = {OnlyVersion(k)}
    OBVIOUS
  <2>1. owner[k] \in OrgIds /\ k \in Keys
    BY <1>1
  <2> QED
    BY <2>1, OneVersion, ClaimFields
<1> DEFINE p == Plan(os, items, reused)
<1> HIDE DEF items
<1>3. p \in Plans /\ p.orgs = os /\ p.items = items
  <2>1. items \subseteq ClaimIds /\ orgs \subseteq OrgIds
    BY <1>2 DEF TypeOK
  <2> QED
    BY <2>1, PlanFields
<1> HIDE DEF p
<1>4. Fresh(p)
  BY <1>2, <1>3 DEF Fresh
<1>5. Shaped(j, p)
  <2>1. \A c \in p.items : c.org \in p.orgs /\ c.pred = q /\ ByName(c)
    BY <1>2, <1>3 DEF ByName
  <2>2. \A c, d \in p.items : c.key = d.key => c = d
    BY <1>2, <1>3
  <2> QED
    BY <2>1, <2>2 DEF Shaped
<1>6. Good(j, p)
  BY <1>3, <1>4, <1>5 DEF Good
<1> QED
  BY <1>6 DEF p, items

LEMMA ExpensePlansGood ==
  ASSUME TypeOK, NEW j \in Jobs, NEW p \in ExpensePlans(j)
  PROVE  Good(j, p)
<1>1. PICK o \in {x \in orgs : \A k \in KeysOf[j] : x.name = NameOf[k]} :
        /\ p = Plan({o}, {Claim(o, "EXPENSE", k, OnlyVersion(k)) : k \in KeysOf[j]}, FALSE)
        /\ \A k \in KeysOf[j] : SingleVersion(k)
  BY DEF ExpensePlans
<1> DEFINE owner == [k \in KeysOf[j] |-> o]
<1>2. {o} \in SUBSET OrgIds /\ owner \in [KeysOf[j] -> {o}]
  BY <1>1 DEF TypeOK
<1>3. {Claim(o, "EXPENSE", k, OnlyVersion(k)) : k \in KeysOf[j]}
        = {Claim(owner[k], "EXPENSE", k, OnlyVersion(k)) : k \in KeysOf[j]}
  OBVIOUS
<1>4. \A k \in KeysOf[j] : owner[k].name = NameOf[k]
  BY <1>1
<1> HIDE DEF owner
<1> QED
  BY <1>1, <1>2, <1>3, <1>4, KeyedGood DEF Predicates

LEMMA TargetPlansGood ==
  ASSUME TypeOK, NEW j \in Jobs, NEW p \in TargetPlans(j)
  PROVE  Good(j, p)
<1> DEFINE owner == [k \in KeysOf[j] |-> First(SameName(NameOf[k]))]
           items == {Claim(owner[k], "TARGET", k, OnlyVersion(k)) : k \in KeysOf[j]}
           named == {Claim(First(SameName(NameOf[k])), "TARGET", k, OnlyVersion(k)) :
                       k \in KeysOf[j]}
           os == {c.org : c \in items}
           reused == {c \in items : Matching(c) # {}} = items
<1>1. /\ \A k \in KeysOf[j] : Cardinality(SameName(NameOf[k])) = 1 /\ SingleVersion(k)
      /\ p = Plan({c.org : c \in named}, named, {c \in named : Matching(c) # {}} = named)
  BY DEF TargetPlans
<1>2. named = items
  OBVIOUS
<1>3. \A k \in KeysOf[j] : owner[k] \in orgs /\ owner[k].name = NameOf[k]
  <2> TAKE k \in KeysOf[j]
  <2>1. SameName(NameOf[k]) # {}
    <3>1. Cardinality(SameName(NameOf[k])) = 1
      BY <1>1
    <3> HIDE DEF owner, items, named, os, reused
    <3> QED
      BY <3>1, FS_EmptySet
  <2>2. owner[k] \in SameName(NameOf[k])
    BY <2>1 DEF First
  <2> QED
    BY <2>2 DEF SameName
<1>4. \A k \in KeysOf[j] : owner[k] \in OrgIds /\ k \in Keys
  BY <1>3, JobsAssumption DEF TypeOK
<1>5. \A k \in KeysOf[j] : Claim(owner[k], "TARGET", k, OnlyVersion(k)).org = owner[k]
  BY <1>1, <1>4, OneVersion, ClaimFields DEF Predicates
<1>6. os \in SUBSET OrgIds /\ owner \in [KeysOf[j] -> os]
  <2>1. \A k \in KeysOf[j] : Claim(owner[k], "TARGET", k, OnlyVersion(k)) \in items
    OBVIOUS
  <2>2. \A c \in items : \E k \in KeysOf[j] : c.org = owner[k]
    BY <1>5
  <2>3. owner = [k \in KeysOf[j] |-> owner[k]]
    OBVIOUS
  <2> HIDE DEF items, owner
  <2>4. os \subseteq OrgIds /\ \A k \in KeysOf[j] : owner[k] \in os
    BY <1>4, <1>5, <2>1, <2>2
  <2> QED
    BY <2>3, <2>4
<1>7. p = Plan(os, items, reused) /\ reused \in BOOLEAN
  BY <1>1, <1>2
<1> HIDE DEF owner, named, os, reused
<1>8. "TARGET" \in Predicates
  BY DEF Predicates
<1>9. Good(j, Plan(os, items, reused))
  BY <1>1, <1>3, <1>6, <1>7, <1>8, KeyedGood
<1> QED
  BY <1>7, <1>9

LEMMA WitnessPlansGood ==
  ASSUME TypeOK, NEW j \in Jobs, Lane[j] = "WITNESS", NEW p \in WitnessPlans(j)
  PROVE  Good(j, p)
<1> DEFINE committee == NameOf[CHOOSE k \in KeysOf[j] : TRUE]
           rows == {o \in orgs : o.name \in {committee, FullName[committee]}}
           home == IF rows = {} THEN [ns |-> "COMMITTEE", name |-> FullName[committee]]
                                ELSE First(rows)
           owner == [k \in KeysOf[j] |-> home]
<1>1. /\ \A k \in KeysOf[j] : SingleVersion(k)
      /\ p = Plan({home}, {Claim(home, "WITNESS", k, OnlyVersion(k)) : k \in KeysOf[j]}, FALSE)
  BY DEF WitnessPlans
<1>2. FullName[committee] \in Names
  BY JobsAssumption
<1>3. home \in OrgIds
  <2>1. CASE rows = {}
    BY <1>2, <2>1 DEF OrgIds, Namespaces
  <2>2. CASE rows # {}
    <3>1. First(rows) \in rows
      BY <2>2 DEF First
    <3> QED
      BY <2>2, <3>1 DEF TypeOK
  <2> QED
    BY <2>1, <2>2
<1> HIDE DEF home
<1>4. {home} \in SUBSET OrgIds /\ owner \in [KeysOf[j] -> {home}]
  BY <1>3
<1>5. {Claim(home, "WITNESS", k, OnlyVersion(k)) : k \in KeysOf[j]}
        = {Claim(owner[k], "WITNESS", k, OnlyVersion(k)) : k \in KeysOf[j]}
  OBVIOUS
<1> HIDE DEF owner
<1> QED
  BY <1>1, <1>4, <1>5, KeyedGood DEF Predicates

LEMMA AlioPlansGood ==
  ASSUME TypeOK, NEW j \in Jobs, Lane[j] = "ALIO", NEW x \in AlioPlans(j)
  PROVE  Good(j, x)
<1> DEFINE named == {NameOf[kv[1]] : kv \in listing}
           os == {Institution(n) : n \in named}
           items == {Claim(Institution(NameOf[kv[1]]), p, kv[1], kv[2]) :
                       p \in {"CLASSIFICATION", "EXECUTIVE"}, kv \in listing}
<1>1. (\A kv \in listing : VersionsOf(kv[1]) = {kv[2]}) /\ x = Plan(os, items, FALSE)
  <2> DEFINE allowed == /\ complete
                        /\ \A kv \in listing : VersionsOf(kv[1]) = {kv[2]}
                        /\ \A n \in named : /\ Cardinality(Bound(n)) <= 1
                                            /\ Institution(n).name = n
                                            /\ Bound(n) = {} => SameName(n) \subseteq {AlioId(n)}
  <2>1. AlioPlans(j) = IF allowed THEN {Plan(os, items, FALSE)} ELSE {}
    BY DEF AlioPlans
  <2>2. allowed => \A kv \in listing : VersionsOf(kv[1]) = {kv[2]}
    OBVIOUS
  <2> HIDE DEF allowed, os, items
  <2> QED
    BY <2>1, <2>2
<1>2. \A kv \in listing : kv[1] \in Keys /\ kv[2] \in Versions
  BY DEF TypeOK
<1>3. \A n \in Names : Institution(n) \in OrgIds
  <2> TAKE n \in Names
  <2>1. Bound(n) \subseteq OrgIds
    BY DEF Bound, Published, Current, TypeOK, ClaimIds
  <2>2. AlioId(n) \in OrgIds
    BY DEF AlioId, OrgIds, Namespaces
  <2> QED
    BY <2>1, <2>2 DEF Institution, First
<1>4. \A kv \in listing : NameOf[kv[1]] \in Names /\ Institution(NameOf[kv[1]]) \in os
  BY <1>2, JobsAssumption
<1>5. os \subseteq OrgIds
  BY <1>3, <1>4
<1>6. \A c \in items : \E q \in {"CLASSIFICATION", "EXECUTIVE"}, kv \in listing :
        /\ c = Claim(Institution(NameOf[kv[1]]), q, kv[1], kv[2])
        /\ c \in ClaimIds /\ c.org = Institution(NameOf[kv[1]]) /\ c.pred = q
        /\ c.key = kv[1] /\ c.ver = kv[2] /\ VersionsOf(kv[1]) = {kv[2]}
  <2> SUFFICES ASSUME NEW q \in {"CLASSIFICATION", "EXECUTIVE"}, NEW kv \in listing
               PROVE  LET c == Claim(Institution(NameOf[kv[1]]), q, kv[1], kv[2]) IN
                        /\ c \in ClaimIds /\ c.org = Institution(NameOf[kv[1]]) /\ c.pred = q
                        /\ c.key = kv[1] /\ c.ver = kv[2] /\ VersionsOf(kv[1]) = {kv[2]}
    OBVIOUS
  <2>1. Institution(NameOf[kv[1]]) \in OrgIds /\ q \in Predicates
    BY <1>2, <1>3, <1>4 DEF Predicates
  <2>2. kv[1] \in Keys /\ kv[2] \in Versions /\ VersionsOf(kv[1]) = {kv[2]}
    BY <1>1, <1>2
  <2> HIDE DEF os, items
  <2> QED
    BY <2>1, <2>2, ClaimFields
<1> HIDE DEF os, items
<1>7. x \in Plans /\ x.orgs = os /\ x.items = items
  <2>1. items \subseteq ClaimIds /\ orgs \subseteq OrgIds
    BY <1>6 DEF TypeOK
  <2>2. os \subseteq OrgIds /\ x = Plan(os, items, FALSE)
    BY <1>1, <1>5
  <2> QED
    BY <2>1, <2>2 DEF Plan, Plans
<1>8. Fresh(x)
  BY <1>6, <1>7 DEF Fresh
<1>9. Shaped(j, x)
  <2>1. \A c \in x.items : c.org \in x.orgs /\ c.pred \in {"CLASSIFICATION", "EXECUTIVE"}
    BY <1>4, <1>6, <1>7
  <2>2. \A c, d \in x.items : c.pred = d.pred /\ c.key = d.key => c = d
    <3> SUFFICES ASSUME NEW c \in x.items, NEW d \in x.items, c.pred = d.pred, c.key = d.key
                 PROVE  c = d
      OBVIOUS
    <3>1. {c.ver} = {d.ver}
      BY <1>8 DEF Fresh
    <3>2. c.org = d.org
      BY <1>6, <1>7
    <3>3. c \in ClaimIds /\ d \in ClaimIds
      BY <1>6, <1>7
    <3> QED
      BY <3>1, <3>2, <3>3 DEF ClaimIds
  <2> QED
    BY <2>1, <2>2 DEF Shaped, ByName
<1> QED
  BY <1>7, <1>8, <1>9 DEF Good

(* Every plan a job can have is well formed, of the stored versions.       *)
LEMMA PlansGood ==
  ASSUME TypeOK, NEW j \in Jobs, NEW p \in PlansOf(j)
  PROVE  Good(j, p)
<1>1. Lane[j] \in Lanes
  BY JobsAssumption
<1>2. CASE Lane[j] \in {"MOIS", "ORGGO"}
  BY <1>2, OrganizationPlansGood DEF PlansOf
<1>3. CASE Lane[j] = "EXPENSE"
  BY <1>3, ExpensePlansGood DEF PlansOf
<1>4. CASE Lane[j] \in {"TARGET", "TARGETS"}
  BY <1>4, TargetPlansGood DEF PlansOf
<1>5. CASE Lane[j] = "ALIO"
  BY <1>5, AlioPlansGood DEF PlansOf
<1>6. CASE Lane[j] = "WITNESS"
  BY <1>6, WitnessPlansGood DEF PlansOf
<1> QED
  BY <1>1, <1>2, <1>3, <1>4, <1>5, <1>6 DEF Lanes

-----------------------------------------------------------------------------
(* The inductive invariant *)

(* A busy importer has a well-formed plan of one of the jobs.              *)
Tasks ==
  \A i \in Importers : pc[i] # "idle" =>
    /\ plan[i] \in [job : Jobs, todo : Plans]
    /\ Shaped(plan[i].job, plan[i].todo)

(* The claims that are stored or that some importer is about to store.     *)
Known(c) ==
  \/ c \in stored
  \/ \E i \in Importers : pc[i] # "idle" /\ c \in plan[i].todo.items

(* Whatever its importer, a claim of a record has the version every other  *)
(* claim of the record has.  The plans of overlapping importers agree      *)
(* because each was made while the record had a single version and no      *)
(* version is ever forgotten: this is what no commit has to check.         *)
VersionsAgree ==
  /\ \A c \in ClaimIds : Known(c) => <<c.key, c.ver>> \in observations
  /\ \A c, d \in ClaimIds : Known(c) /\ Known(d) /\ c.key = d.key => c.ver = d.ver

StoredSound == \A c \in stored : c.org \in orgs /\ ByName(c)

(* What an importer inserts, with what is there, is its plan.              *)
WriteSound ==
  \A i \in Importers : pc[i] = "reading" =>
    /\ write[i].orgs \subseteq plan[i].todo.orgs
    /\ plan[i].todo.orgs \subseteq orgs \cup write[i].orgs
    /\ write[i].items \subseteq plan[i].todo.items
    /\ plan[i].todo.items \subseteq stored \cup write[i].items

(* Without overlap, what a transaction has read is still so when it commits. *)
Serial ==
  ~setting.overlap =>
    \A i \in Importers : pc[i] = "reading" =>
      /\ \A k \in Importers : pc[k] = "reading" => k = i
      /\ Accepts(plan[i].job, plan[i].todo)
      /\ write[i] = Missing(plan[i].todo)

Safe ==
  /\ TypeOK /\ Tasks /\ VersionsAgree /\ StoredSound /\ WriteSound /\ Serial /\ BoundOnce

(* The judgement of a plan depends on the rows and the records alone.      *)
LEMMA AcceptsStays ==
  ASSUME UNCHANGED <<orgs, observations, stored, withheld, replaced>>,
         NEW k \in Importers, plan'[k] = plan[k]
  PROVE  /\ Accepts(plan[k].job, plan[k].todo) => Accepts(plan[k].job, plan[k].todo)'
         /\ Missing(plan[k].todo)' = Missing(plan[k].todo)
<1>1. Current' = Current /\ Published' = Published
  BY DEF Current, Published
<1>2. \A c : Matching(c)' = Matching(c) /\ Owners(c)' = Owners(c)
  BY <1>1 DEF Matching, Owners, ImportKey
<1>3. \A c : (Equivalent(c)' <=> Equivalent(c)) /\ (Unambiguous(c)' <=> Unambiguous(c))
  BY <1>1, <1>2 DEF Equivalent, Unambiguous, VersionsOf
<1>4. \A n : SameName(n)' = SameName(n)
  BY DEF SameName
<1>5. ASSUME NEW j, NEW p
      PROVE  (Accepts(j, p)' <=> Accepts(j, p)) /\ Missing(p)' = Missing(p)
  BY <1>2, <1>3, <1>4 DEF Accepts, PairAccepts, SingleAccepts, BatchAccepts, Missing
<1> QED
  BY <1>5

LEMMA SafeInit == Init => Safe
<1> SUFFICES ASSUME Init PROVE Safe
  OBVIOUS
<1>1. PICK s \in Scenarios : /\ setting = [jobs |-> s.jobs, overlap |-> s.overlap]
                             /\ orgs = s.orgs /\ observations = s.observations
  BY DEF Init
<1>2. /\ listing = {} /\ complete = FALSE
      /\ stored = {} /\ withheld = {} /\ replaced = {}
      /\ pc = [i \in Importers |-> "idle"]
  BY DEF Init
<1>3. TypeOK
  BY <1>1, <1>2, ScenariosAssumption DEF Init, TypeOK, NoRows
<1>4. Tasks /\ WriteSound /\ Serial /\ VersionsAgree /\ StoredSound
  BY <1>2 DEF Tasks, WriteSound, Serial, VersionsAgree, Known, StoredSound
<1>5. NamesOnce
  BY <1>1, ScenariosAssumption DEF NamesOnce
<1>6. OneCurrentPerRecord
  BY <1>2 DEF OneCurrentPerRecord, Current
<1> QED
  BY <1>3, <1>4, <1>5, <1>6 DEF Safe, BoundOnce

(* A step of a collector, a proposal or an approval: the rows of the       *)
(* importers and the importers themselves stay, observations only grow.    *)
LEMMA ReadersStay ==
  ASSUME Safe, Quiet,
         UNCHANGED <<setting, orgs, stored, withheld, replaced, workVars>>,
         observations \subseteq observations', TypeOK'
  PROVE  Safe'
<1>1. UNCHANGED <<pc, plan, write>>
  BY DEF workVars
<1>2. Tasks'
  BY <1>1 DEF Safe, Tasks, Shaped, ByName
<1>3. VersionsAgree'
  BY <1>1 DEF Safe, VersionsAgree, Known
<1>4. StoredSound'
  BY DEF Safe, StoredSound, ByName
<1>5. WriteSound'
  BY <1>1 DEF Safe, WriteSound
<1>6. Serial'
  BY <1>1 DEF Serial, Quiet
<1>7. BoundOnce'
  BY DEF Safe, BoundOnce, OneCurrentPerRecord, NamesOnce, Current
<1> QED
  BY <1>2, <1>3, <1>4, <1>5, <1>6, <1>7 DEF Safe

LEMMA CollectSafe ==
  ASSUME Safe, NEW k \in Keys, NEW v \in Versions, Collect(k, v)
  PROVE  Safe'
<1>1. /\ Quiet /\ observations' = observations \cup {<<k, v>>} /\ runs' = runs + 1
      /\ UNCHANGED <<setting, orgs, listing, complete, stored, withheld, replaced,
                     jobVars, workVars, launches, edits>>
  BY DEF Collect
<1>2. TypeOK'
  BY <1>1 DEF Safe, TypeOK, jobVars, workVars
<1> QED
  BY <1>1, <1>2, ReadersStay

LEMMA EnumerateSafe ==
  ASSUME Safe, NEW L \in SUBSET AlioPairs, NEW done \in BOOLEAN, Enumerate(L, done)
  PROVE  Safe'
<1>1. /\ Quiet /\ observations' = observations \cup L /\ runs' = runs + 1
      /\ listing' = L /\ complete' = done
      /\ UNCHANGED <<setting, orgs, stored, withheld, replaced,
                     jobVars, workVars, launches, edits>>
  BY DEF Enumerate
<1>2. L \subseteq Keys \X Versions
  BY DEF AlioPairs
<1>3. TypeOK'
  BY <1>1, <1>2 DEF Safe, TypeOK, jobVars, workVars
<1> QED
  BY <1>1, <1>3, ReadersStay

LEMMA ReviewSafe ==
  ASSUME Safe, NEW j \in Jobs, Propose(j) \/ Approve(j)
  PROVE  Safe'
<1>1. Quiet /\ UNCHANGED <<setting, dbVars, workVars, counters>>
  BY DEF Propose, Approve
<1>2. UNCHANGED <<orgs, observations, listing, complete, stored, withheld, replaced>>
  BY <1>1 DEF dbVars
<1>3. universe' \in [Jobs -> Nat \cup {None}]
  <2>1. CASE Propose(j)
    <3>1. Cardinality(orgs) \in Nat
      BY OrgsFinite DEF Safe, TypeOK
    <3> QED
      BY <2>1, <3>1 DEF Propose, Safe, TypeOK
  <2>2. CASE Approve(j)
    BY <2>2 DEF Approve, Safe, TypeOK
  <2> QED
    BY <2>1, <2>2
<1>4. approved' \in [Jobs -> Plans \cup {None}]
  <2>1. CASE Propose(j)
    BY <2>1 DEF Propose, Safe, TypeOK
  <2>2. CASE Approve(j)
    <3>1. PICK p \in PlansOf(j) : approved' = [approved EXCEPT ![j] = p]
      BY <2>2 DEF Approve
    <3>2. p \in Plans
      BY PlansGood DEF Safe, Good
    <3> QED
      BY <3>1, <3>2 DEF Safe, TypeOK
  <2> QED
    BY <2>1, <2>2
<1>5. TypeOK'
  BY <1>1, <1>2, <1>3, <1>4 DEF Safe, TypeOK, workVars, counters
<1> QED
  BY <1>1, <1>2, <1>5, ReadersStay

(* A new plan knows only what the records hold, so it agrees with the others. *)
LEMMA PrepareSafe ==
  ASSUME Safe, NEW i \in Importers, NEW j \in Jobs, Prepare(i, j)
  PROVE  Safe'
<1>1. PICK p \in PlansOf(j) : plan' = [plan EXCEPT ![i] = [job |-> j, todo |-> p]]
  BY DEF Prepare
<1>2. /\ Quiet /\ pc[i] = "idle" /\ pc' = [pc EXCEPT ![i] = "prepared"]
      /\ again' = [again EXCEPT ![i] = FALSE] /\ launches' = launches + 1
      /\ UNCHANGED <<setting, orgs, observations, listing, complete, stored, withheld,
                     replaced, universe, approved, write, runs, edits>>
  BY DEF Prepare, dbVars, jobVars
<1>3. p \in Plans /\ Shaped(j, p) /\ Fresh(p)
  BY PlansGood DEF Safe, Good
<1>4. TypeOK'
  BY <1>1, <1>2, <1>3 DEF Safe, TypeOK
<1>5. /\ plan'[i] = [job |-> j, todo |-> p] /\ pc'[i] = "prepared"
      /\ \A k \in Importers : k # i => plan'[k] = plan[k] /\ pc'[k] = pc[k]
  BY <1>1, <1>2 DEF Safe, TypeOK
<1>6. Tasks'
  BY <1>3, <1>5 DEF Safe, Tasks, Shaped, ByName
<1>7. VersionsAgree'
  <2>1. \A c \in ClaimIds : Known(c)' => Known(c) \/ c \in p.items
    BY <1>2, <1>5 DEF Known
  <2>2. \A c \in ClaimIds : c \in p.items => VersionsOf(c.key) = {c.ver}
    BY <1>3 DEF Fresh
  <2>3. \A c \in ClaimIds : c.ver \in Versions
    BY DEF ClaimIds
  <2>4. \A c \in ClaimIds : Known(c)' => <<c.key, c.ver>> \in observations
    BY <2>1, <2>2, <2>3 DEF Safe, VersionsAgree, VersionsOf
  <2>5. \A c, d \in ClaimIds : Known(c)' /\ d \in p.items /\ c.key = d.key => c.ver = d.ver
    <3> SUFFICES ASSUME NEW c \in ClaimIds, NEW d \in ClaimIds,
                        Known(c)', d \in p.items, c.key = d.key
                 PROVE  c.ver = d.ver
      OBVIOUS
    <3>1. c.ver \in VersionsOf(d.key)
      BY <2>3, <2>4 DEF VersionsOf
    <3> QED
      BY <2>2, <3>1
  <2> QED
    BY <1>2, <2>1, <2>4, <2>5 DEF Safe, VersionsAgree
<1>8. StoredSound'
  BY <1>2 DEF Safe, StoredSound, ByName
<1>9. WriteSound'
  BY <1>2, <1>5 DEF Safe, WriteSound
<1>10. Serial'
  BY <1>2, <1>5 DEF Serial, Quiet
<1>11. BoundOnce'
  BY <1>2 DEF Safe, BoundOnce, OneCurrentPerRecord, NamesOnce, Current
<1> QED
  BY <1>4, <1>6, <1>7, <1>8, <1>9, <1>10, <1>11 DEF Safe

(* What a plan the transaction accepts does not insert is already there.   *)
LEMMA AcceptedIsThere ==
  ASSUME Safe, NEW i \in Importers, pc[i] = "prepared" \/ pc[i] = "reading",
         Accepts(plan[i].job, plan[i].todo),
         NEW c \in plan[i].todo.items, Matching(c) # {}
  PROVE  c \in Published
<1>1. plan[i] \in [job : Jobs, todo : Plans] /\ c \in ClaimIds /\ Known(c)
  BY DEF Safe, Tasks, Plans, Known
<1>2. Matching(c) = {} \/ Equivalent(c) => c \in Published
  BY DEF Equivalent
<1>3. CASE Lane[plan[i].job] = "EXPENSE"
  BY <1>2, <1>3 DEF Accepts, PairAccepts
<1>4. CASE Lane[plan[i].job] = "TARGET"
  <2>1. c \notin stored
    BY <1>4 DEF Accepts, SingleAccepts
  <2>2. PICK d \in stored : ImportKey(d) = ImportKey(c)
    BY DEF Matching, Current
  <2>3. d \in ClaimIds /\ Known(d)
    BY DEF Safe, TypeOK, Known
  <2>4. d.ver = c.ver
    BY <1>1, <2>2, <2>3, SameClaim DEF Safe, VersionsAgree
  <2> QED
    BY <1>1, <2>1, <2>2, <2>3, <2>4, SameClaim
<1>5. CASE Lane[plan[i].job] \notin {"EXPENSE", "TARGET"}
  BY <1>2, <1>5 DEF Accepts, BatchAccepts
<1> QED
  BY <1>3, <1>4, <1>5

LEMMA ReadSafe ==
  ASSUME Safe, NEW i \in Importers, Read(i)
  PROVE  Safe'
<1>1. /\ Quiet /\ pc[i] = "prepared" /\ Accepts(plan[i].job, plan[i].todo)
      /\ write' = [write EXCEPT ![i] = Missing(plan[i].todo)]
      /\ pc' = [pc EXCEPT ![i] = "reading"]
      /\ UNCHANGED <<setting, orgs, observations, listing, complete, stored, withheld,
                     replaced, universe, approved, plan, again, launches, runs, edits>>
  BY DEF Read, dbVars, jobVars, counters
<1> DEFINE p == plan[i].todo
           j == plan[i].job
<1>2. plan[i] \in [job : Jobs, todo : Plans] /\ Shaped(j, p)
  BY <1>1 DEF Safe, Tasks
<1>3. p \in Plans /\ p.orgs \subseteq OrgIds /\ p.items \subseteq ClaimIds
  BY <1>2 DEF Plans
<1>4. /\ pc'[i] = "reading" /\ write'[i] = Missing(p)
      /\ \A k \in Importers : k # i => pc'[k] = pc[k] /\ write'[k] = write[k]
  BY <1>1 DEF Safe, TypeOK
<1>5. Missing(p) \in [orgs : SUBSET OrgIds, items : SUBSET ClaimIds]
  BY <1>3 DEF Missing
<1>6. TypeOK'
  <2>1. write' \in [Importers -> [orgs : SUBSET OrgIds, items : SUBSET ClaimIds]]
    BY <1>1, <1>5 DEF Safe, TypeOK
  <2> QED
    BY <1>1, <2>1 DEF Safe, TypeOK
<1>7. Tasks'
  BY <1>1, <1>2, <1>4 DEF Safe, Tasks, Shaped, ByName
<1>8. VersionsAgree'
  <2>1. \A c \in ClaimIds : Known(c)' <=> Known(c)
    BY <1>1, <1>4 DEF Known
  <2> QED
    BY <1>1, <2>1 DEF Safe, VersionsAgree
<1>9. StoredSound'
  BY <1>1 DEF Safe, StoredSound, ByName
<1>10. WriteSound'
  <2>1. \A c \in p.items : c \in stored \/ c \in Missing(p).items
    BY <1>1, AcceptedIsThere DEF Missing, Published, Current
  <2>2. /\ Missing(p).orgs \subseteq p.orgs /\ p.orgs \subseteq orgs \cup Missing(p).orgs
        /\ Missing(p).items \subseteq p.items
    BY DEF Missing
  <2> QED
    BY <1>1, <1>4, <2>1, <2>2 DEF Safe, WriteSound
<1>11. Serial'
  <2>1. Accepts(j, p)'
    BY <1>1, AcceptsStays
  <2>2. Missing(p)' = Missing(p)
    BY <1>1, AcceptsStays
  <2> QED
    BY <1>1, <1>4, <2>1, <2>2 DEF Serial, Quiet
<1>12. BoundOnce'
  BY <1>1 DEF Safe, BoundOnce, OneCurrentPerRecord, NamesOnce, Current
<1> QED
  BY <1>6, <1>7, <1>8, <1>9, <1>10, <1>11, <1>12 DEF Safe

(* The state after a commit: one importer is idle again, its rows are in.  *)
LEMMA CommitEffect ==
  ASSUME Safe, NEW i \in Importers, Commit(i)
  PROVE  /\ pc[i] = "reading"
         /\ plan[i].todo.orgs \subseteq OrgIds /\ plan[i].todo.items \subseteq ClaimIds
         /\ write[i].orgs \cap orgs = {} /\ write[i].items \cap stored = {}
         /\ orgs' = orgs \cup plan[i].todo.orgs
         /\ stored' = stored \cup plan[i].todo.items
         /\ orgs' = orgs \cup write[i].orgs /\ stored' = stored \cup write[i].items
         /\ Current' = Current \cup write[i].items
         /\ pc'[i] = "idle"
         /\ \A k \in Importers : k # i => pc'[k] = pc[k] /\ plan'[k] = plan[k]
                                                        /\ write'[k] = write[k]
         /\ UNCHANGED <<setting, observations, listing, complete, withheld, replaced,
                        universe, approved, again, launches, runs, edits>>
<1>1. /\ pc[i] = "reading" /\ ~Collides(i)
      /\ orgs' = orgs \cup write[i].orgs /\ stored' = stored \cup write[i].items
      /\ pc' = [pc EXCEPT ![i] = "idle"] /\ plan' = [plan EXCEPT ![i] = None]
      /\ write' = [write EXCEPT ![i] = NoRows]
      /\ UNCHANGED <<setting, observations, listing, complete, withheld, replaced,
                     universe, approved, again, launches, runs, edits>>
  BY DEF Commit, jobVars, counters
<1>2. plan[i].todo.orgs \subseteq OrgIds /\ plan[i].todo.items \subseteq ClaimIds
  BY <1>1 DEF Safe, Tasks, Plans
<1>3. write[i].orgs \cap orgs = {} /\ write[i].items \cap stored = {}
  BY <1>1 DEF Collides
<1>4. /\ orgs' = orgs \cup plan[i].todo.orgs
      /\ stored' = stored \cup plan[i].todo.items
  BY <1>1 DEF Safe, WriteSound
<1>5. Current' = Current \cup write[i].items
  BY <1>1, <1>3 DEF Current, Safe, TypeOK
<1>6. /\ pc'[i] = "idle"
      /\ \A k \in Importers : k # i => pc'[k] = pc[k] /\ plan'[k] = plan[k]
                                                     /\ write'[k] = write[k]
  BY <1>1 DEF Safe, TypeOK
<1> QED
  BY <1>1, <1>2, <1>3, <1>4, <1>5, <1>6

(* Where importers overlap: a new claim and another current one of its     *)
(* record have one version, so under one organization they are one row.    *)
LEMMA CommitOverlapping ==
  ASSUME Safe, NEW i \in Importers, Commit(i),
         NEW c \in stored', NEW d \in stored', c.pred = d.pred, c.key = d.key, c.org = d.org
  PROVE  c = d
<1>1. pc[i] = "reading" /\ stored' = stored \cup plan[i].todo.items
  BY CommitEffect
<1>2. Known(c) /\ Known(d)
  BY <1>1 DEF Known
<1>3. c \in ClaimIds /\ d \in ClaimIds
  BY CommitEffect DEF Safe, TypeOK
<1>4. c.ver = d.ver
  BY <1>2, <1>3 DEF Safe, VersionsAgree
<1> QED
  BY <1>3, <1>4, SameClaim

(* Where they do not: the transaction has looked for the record under      *)
(* every organization, or only under one, whose name is the institution's. *)
LEMMA CommitAlone ==
  ASSUME Safe, NEW i \in Importers, Commit(i), ~setting.overlap,
         NEW c \in write[i].items, NEW d \in Current, c.pred = d.pred, c.key = d.key
  PROVE  FALSE
<1>1. /\ pc[i] = "reading" /\ Accepts(plan[i].job, plan[i].todo)
      /\ write[i] = Missing(plan[i].todo)
  BY CommitEffect DEF Safe, Serial
<1>2. /\ plan[i] \in [job : Jobs, todo : Plans] /\ Shaped(plan[i].job, plan[i].todo)
      /\ c \in plan[i].todo.items /\ Matching(c) = {}
  BY <1>1 DEF Safe, Tasks, Missing
<1>3. c \in ClaimIds /\ d \in ClaimIds /\ d \in stored
  BY <1>2 DEF Plans, Safe, TypeOK, Current
<1>4. c.org # d.org
  BY <1>2, <1>3, SameClaim DEF Matching
<1>5. CASE Lane[plan[i].job] \notin {"EXPENSE", "TARGET"}
  <2>1. Owners(c) \subseteq {c.org}
    BY <1>1, <1>2, <1>5 DEF Accepts, BatchAccepts
  <2>2. d.org \in Owners(c)
    BY DEF Owners
  <2> QED
    BY <1>4, <2>1, <2>2
<1>6. CASE Lane[plan[i].job] \in {"EXPENSE", "TARGET"}
  <2>1. c.org \in plan[i].todo.orgs /\ c.pred \in {"EXPENSE", "TARGET"} /\ ByName(c)
    BY <1>2, <1>6 DEF Shaped
  <2>2. plan[i].todo.orgs \subseteq orgs
    BY <1>1, <1>6 DEF Accepts, PairAccepts, SingleAccepts
  <2>3. d.org \in orgs /\ ByName(d)
    BY <1>3 DEF Safe, StoredSound
  <2>4. c.org.name = d.org.name
    BY <2>1, <2>3 DEF ByName
  <2> QED
    BY <1>4, <2>1, <2>2, <2>3, <2>4 DEF Safe, BoundOnce, NamesOnce
<1> QED
  BY <1>5, <1>6

LEMMA CommitSafe ==
  ASSUME Safe, NEW i \in Importers, Commit(i)
  PROVE  Safe'
<1>1. TypeOK'
  <2>1. /\ pc' = [pc EXCEPT ![i] = "idle"] /\ plan' = [plan EXCEPT ![i] = None]
        /\ write' = [write EXCEPT ![i] = NoRows]
    BY DEF Commit
  <2>2. NoRows \in [orgs : SUBSET OrgIds, items : SUBSET ClaimIds]
    BY DEF NoRows
  <2>3. /\ pc' \in [Importers -> {"idle", "prepared", "reading"}]
        /\ plan' \in [Importers -> [job : Jobs, todo : Plans] \cup {None}]
        /\ write' \in [Importers -> [orgs : SUBSET OrgIds, items : SUBSET ClaimIds]]
    BY <2>1, <2>2 DEF Safe, TypeOK
  <2> QED
    BY <2>3, CommitEffect DEF Safe, TypeOK
<1>2. Tasks'
  BY CommitEffect DEF Safe, Tasks, Shaped, ByName
<1>3. VersionsAgree'
  <2>1. \A c \in ClaimIds : Known(c)' => Known(c)
    BY CommitEffect DEF Known
  <2> QED
    BY <2>1, CommitEffect DEF Safe, VersionsAgree
<1>4. StoredSound'
  <2>1. \A c \in plan[i].todo.items : c.org \in plan[i].todo.orgs /\ ByName(c)
    BY CommitEffect DEF Safe, Tasks, Shaped
  <2> QED
    BY <2>1, CommitEffect DEF Safe, StoredSound, ByName
<1>5. WriteSound'
  BY CommitEffect DEF Safe, WriteSound
<1>6. Serial'
  BY CommitEffect DEF Safe, Serial
<1>7. OneCurrentPerRecord'
  <2> SUFFICES ASSUME NEW c \in Current', NEW d \in Current', c.pred = d.pred, c.key = d.key
               PROVE  c = d \/ (setting.overlap /\ c.org # d.org)
    BY CommitEffect DEF OneCurrentPerRecord
  <2>1. c \in stored' /\ d \in stored'
    BY DEF Current
  <2>2. CASE setting.overlap
    BY <2>1, <2>2, CommitOverlapping
  <2>3. CASE ~setting.overlap
    <3>1. CASE c \in Current /\ d \in Current
      BY <2>3, <3>1 DEF Safe, BoundOnce, OneCurrentPerRecord
    <3>2. CASE c \in write[i].items /\ d \in write[i].items
      BY <3>2, CommitEffect DEF Safe, WriteSound, Tasks, Shaped
    <3> QED
      BY <2>3, <3>1, <3>2, CommitEffect, CommitAlone
  <2> QED
    BY <2>2, <2>3
<1>8. NamesOnce'
  <2> SUFFICES ASSUME ~setting.overlap, NEW o \in orgs', NEW x \in orgs', o.name = x.name
               PROVE  o = x
    BY CommitEffect DEF NamesOnce
  <2>1. /\ pc[i] = "reading" /\ Accepts(plan[i].job, plan[i].todo)
        /\ write[i] = Missing(plan[i].todo)
    BY CommitEffect DEF Safe, Serial
  <2> DEFINE new == plan[i].todo.orgs \ orgs
  <2>2. write[i].orgs = new
    BY <2>1 DEF Missing
  <2>3. \A y \in new : SameName(y.name) = {}
    BY <2>1 DEF Accepts, PairAccepts, SingleAccepts, BatchAccepts
  <2>4. \A y, z \in new : y.name = z.name => y = z
    BY <2>1 DEF Accepts, PairAccepts, SingleAccepts, BatchAccepts
  <2>5. \A y \in new, z \in orgs : y.name # z.name
    BY <2>3 DEF SameName
  <2>6. \A y, z \in orgs : y.name = z.name => y = z
    BY DEF Safe, BoundOnce, NamesOnce
  <2> QED
    BY <2>2, <2>4, <2>5, <2>6, CommitEffect
<1> QED
  BY <1>1, <1>2, <1>3, <1>4, <1>5, <1>6, <1>7, <1>8 DEF Safe, BoundOnce

(* A transaction that ends without a commit leaves the rows as they were.  *)
LEMMA EndSafe ==
  ASSUME Safe, NEW i \in Importers, Collide(i) \/ Stop(i)
  PROVE  Safe'
<1>1. /\ pc[i] \in {"prepared", "reading"}
      /\ pc' = [pc EXCEPT ![i] = "idle"] \/ pc' = [pc EXCEPT ![i] = "prepared"]
      /\ \/ plan' = [plan EXCEPT ![i] = None] /\ pc' = [pc EXCEPT ![i] = "idle"]
         \/ UNCHANGED plan
      /\ write' = [write EXCEPT ![i] = NoRows]
      /\ again' = [again EXCEPT ![i] = TRUE] \/ UNCHANGED again
      /\ UNCHANGED <<setting, orgs, observations, listing, complete, stored, withheld,
                     replaced, universe, approved, launches, runs, edits>>
  BY DEF Collide, Stop, dbVars, jobVars, counters
<1>2. NoRows \in [orgs : SUBSET OrgIds, items : SUBSET ClaimIds]
  BY DEF NoRows
<1>3. TypeOK'
  <2>1. /\ pc' \in [Importers -> {"idle", "prepared", "reading"}]
        /\ plan' \in [Importers -> [job : Jobs, todo : Plans] \cup {None}]
        /\ write' \in [Importers -> [orgs : SUBSET OrgIds, items : SUBSET ClaimIds]]
        /\ again' \in [Importers -> BOOLEAN]
    BY <1>1, <1>2 DEF Safe, TypeOK
  <2> QED
    BY <1>1, <2>1 DEF Safe, TypeOK
<1>4. /\ pc'[i] # "reading" /\ (pc'[i] # "idle" => plan'[i] = plan[i])
      /\ \A k \in Importers : k # i => pc'[k] = pc[k] /\ plan'[k] = plan[k]
                                                     /\ write'[k] = write[k]
  BY <1>1 DEF Safe, TypeOK
<1>5. Tasks'
  BY <1>1, <1>4 DEF Safe, Tasks, Shaped, ByName
<1>6. VersionsAgree'
  <2>1. \A c \in ClaimIds : Known(c)' => Known(c)
    BY <1>1, <1>4 DEF Known
  <2> QED
    BY <1>1, <2>1 DEF Safe, VersionsAgree
<1>7. StoredSound'
  BY <1>1 DEF Safe, StoredSound, ByName
<1>8. WriteSound'
  BY <1>1, <1>4 DEF Safe, WriteSound
<1>9. Serial'
  <2> SUFFICES ASSUME ~setting.overlap, NEW k \in Importers, pc'[k] = "reading"
               PROVE  /\ \A l \in Importers : pc'[l] = "reading" => l = k
                      /\ Accepts(plan[k].job, plan[k].todo)'
                      /\ write'[k] = Missing(plan[k].todo)'
    BY <1>1 DEF Serial
  <2>1. /\ pc[k] = "reading" /\ plan'[k] = plan[k] /\ write'[k] = write[k]
        /\ \A l \in Importers : pc'[l] = "reading" => pc[l] = "reading"
    BY <1>4
  <2>2. /\ \A l \in Importers : pc[l] = "reading" => l = k
        /\ Accepts(plan[k].job, plan[k].todo) /\ write[k] = Missing(plan[k].todo)
    BY <2>1 DEF Safe, Serial
  <2>3. Accepts(plan[k].job, plan[k].todo)'
    BY <1>1, <2>1, <2>2, AcceptsStays
  <2>4. Missing(plan[k].todo)' = Missing(plan[k].todo)
    BY <1>1, <2>1, AcceptsStays
  <2> QED
    BY <2>1, <2>2, <2>3, <2>4
<1>10. BoundOnce'
  BY <1>1 DEF Safe, BoundOnce, OneCurrentPerRecord, NamesOnce, Current
<1> QED
  BY <1>3, <1>5, <1>6, <1>7, <1>8, <1>9, <1>10 DEF Safe

(* An operator changes the standing of a row while no transaction is under way. *)
LEMMA OperatorSafe ==
  ASSUME Safe, NEW c \in stored, Withdraw(c) \/ Restore(c) \/ Replace(c)
  PROVE  Safe'
<1>1. /\ Quiet /\ edits' = edits + 1
      /\ withheld' \in {withheld \cup {c}, withheld \ {c}}
      /\ UNCHANGED <<setting, orgs, observations, listing, complete, stored,
                     universe, approved, pc, plan, write, again, launches, runs>>
  BY DEF Withdraw, Restore, Replace, jobVars, workVars
<1>2. replaced \subseteq replaced' /\ replaced' \subseteq withheld'
  BY DEF Withdraw, Restore, Replace, Safe, TypeOK, Current
<1>3. TypeOK'
  BY <1>1, <1>2 DEF Safe, TypeOK
<1>4. Tasks'
  BY <1>1 DEF Safe, Tasks, Shaped, ByName
<1>5. VersionsAgree'
  BY <1>1 DEF Safe, VersionsAgree, Known
<1>6. StoredSound'
  BY <1>1 DEF Safe, StoredSound, ByName
<1>7. WriteSound'
  BY <1>1 DEF Safe, WriteSound
<1>8. Serial'
  BY <1>1 DEF Serial, Quiet
<1>9. BoundOnce'
  BY <1>1, <1>2 DEF Safe, BoundOnce, OneCurrentPerRecord, NamesOnce, Current
<1> QED
  BY <1>3, <1>4, <1>5, <1>6, <1>7, <1>8, <1>9 DEF Safe

LEMMA SafeStutter == Safe /\ UNCHANGED vars => Safe'
<1> SUFFICES ASSUME Safe, UNCHANGED vars PROVE Safe'
  OBVIOUS
<1>1. UNCHANGED <<setting, orgs, observations, listing, complete, stored, withheld, replaced,
                  universe, approved, pc, plan, write, again, launches, runs, edits>>
  BY DEF vars, dbVars, jobVars, workVars, counters
<1>2. TypeOK' /\ Tasks' /\ StoredSound' /\ WriteSound'
  BY <1>1 DEF Safe, TypeOK, Tasks, Shaped, StoredSound, ByName, WriteSound
<1>3. VersionsAgree'
  BY <1>1 DEF Safe, VersionsAgree, Known
<1>4. Serial'
  BY <1>1, AcceptsStays DEF Safe, Serial
<1>5. BoundOnce'
  BY <1>1 DEF Safe, BoundOnce, OneCurrentPerRecord, NamesOnce, Current
<1> QED
  BY <1>2, <1>3, <1>4, <1>5 DEF Safe

LEMMA SafeStep == Safe /\ [Next]_vars => Safe'
<1> SUFFICES ASSUME Safe, [Next]_vars PROVE Safe'
  OBVIOUS
<1>1. setting.jobs \subseteq Jobs /\ stored \subseteq ClaimIds
  BY DEF Safe, TypeOK
<1>2. ASSUME NEW k \in Keys, NEW v \in Versions, Collect(k, v) PROVE Safe'
  BY <1>2, CollectSafe
<1>3. ASSUME NEW L \in SUBSET AlioPairs, NEW done \in BOOLEAN, Enumerate(L, done) PROVE Safe'
  BY <1>3, EnumerateSafe
<1>4. ASSUME NEW j \in setting.jobs, Propose(j) \/ Approve(j) PROVE Safe'
  BY <1>1, <1>4, ReviewSafe
<1>5. ASSUME NEW i \in Importers, NEW j \in setting.jobs, Prepare(i, j) PROVE Safe'
  BY <1>1, <1>5, PrepareSafe
<1>6. ASSUME NEW i \in Importers, Read(i) \/ Commit(i) \/ Collide(i) \/ Stop(i) PROVE Safe'
  BY <1>6, ReadSafe, CommitSafe, EndSafe
<1>7. ASSUME NEW c \in stored, Withdraw(c) \/ Restore(c) \/ Replace(c) PROVE Safe'
  BY <1>7, OperatorSafe
<1> QED
  BY <1>2, <1>3, <1>4, <1>5, <1>6, <1>7, SafeStutter DEF Next

THEOREM SafeAlways == Spec => []Safe
BY SafeInit, SafeStep, PTL DEF Spec

-----------------------------------------------------------------------------
(* What follows *)

(* Types, and the operators' marks stay within the rows they mark.         *)
THEOREM ImportTypes == Spec => []TypeOK
<1>1. Safe => TypeOK
  BY DEF Safe
<1> QED
  BY <1>1, SafeAlways, PTL

(* A provider record is bound to one current claim and an institution has  *)
(* one row, whichever lanes, manifests and names come first; overlapping   *)
(* importers never give one organization two versions of a record.         *)
THEOREM RecordsBoundOnce == Spec => []BoundOnce
<1>1. Safe => BoundOnce
  BY DEF Safe
<1> QED
  BY <1>1, SafeAlways, PTL

(* A commit leaves its whole plan stored, and published where no operator  *)
(* could come between the read and the write.                              *)
LEMMA CommitLeaves ==
  ASSUME Safe, NEW i \in Importers, Commit(i)
  PROVE  /\ plan[i].todo.orgs \subseteq orgs'
         /\ plan[i].todo.items \subseteq stored'
         /\ ~setting.overlap => plan[i].todo.items \subseteq Published'
<1>1. plan[i].todo.orgs \subseteq orgs' /\ plan[i].todo.items \subseteq stored'
  BY CommitEffect
<1>2. ASSUME ~setting.overlap, NEW c \in plan[i].todo.items PROVE c \in Published'
  <2>1. /\ pc[i] = "reading" /\ Accepts(plan[i].job, plan[i].todo)
        /\ write[i] = Missing(plan[i].todo)
    BY <1>2, CommitEffect DEF Safe, Serial
  <2>2. CASE Matching(c) = {}
    <3>1. c \in write[i].items
      BY <1>2, <2>1, <2>2 DEF Missing
    <3>2. c \in stored' /\ c \notin stored
      BY <3>1, CommitEffect
    <3> QED
      BY <3>2, CommitEffect DEF Published, Current, Safe, TypeOK
  <2>3. CASE Matching(c) # {}
    <3>1. c \in Published
      BY <1>2, <2>1, <2>3, AcceptedIsThere
    <3> QED
      BY <3>1, CommitEffect DEF Published, Current
  <2> QED
    BY <2>2, <2>3
<1> QED
  BY <1>1, <1>2

THEOREM CommitsAreComplete == Spec => CommitComplete
<1> DEFINE A == \A i \in Importers : Commit(i) =>
                  /\ plan[i].todo.orgs \subseteq orgs'
                  /\ plan[i].todo.items \subseteq stored'
                  /\ ~setting.overlap => plan[i].todo.items \subseteq Published'
<1>1. Safe /\ [Next]_vars => [A]_vars
  BY CommitLeaves
<1>2. CommitComplete <=> [][A]_vars
  BY DEF CommitComplete
<1> QED
  BY <1>1, <1>2, SafeAlways, PTL DEF Spec

-----------------------------------------------------------------------------
(* Refinement: the importers keep a ledger of import keys *)

EntryOf(c) == [key |-> ImportKey(c), ver |-> c.ver, st |-> Standing(c)]

LEMMA EntryType ==
  Safe => /\ LedgerEntry = {EntryOf(c) : c \in stored}
          /\ LedgerEntry \subseteq Ledger!Entries
<1> SUFFICES ASSUME Safe
             PROVE  /\ LedgerEntry = {EntryOf(c) : c \in stored}
                    /\ LedgerEntry \subseteq Ledger!Entries
  OBVIOUS
<1>1. LedgerEntry = {EntryOf(c) : c \in stored}
  BY DEF LedgerEntry, EntryOf
<1>2. \A c \in stored : EntryOf(c) \in Ledger!Entries
  <2> TAKE c \in stored
  <2>1. c \in ClaimIds
    BY DEF Safe, TypeOK
  <2>2. ImportKey(c) \in OrgIds \X Predicates \X Keys /\ c.ver \in Versions
    BY <2>1 DEF ClaimIds, ImportKey
  <2>3. Standing(c) \in Ledger!Standings
    BY DEF Standing, Ledger!Standings
  <2> QED
    BY <2>2, <2>3 DEF EntryOf, Ledger!Entries
<1> QED
  BY <1>1, <1>2

(* Entries tell the rows apart: there is one per import key.               *)
OneEntry == \A c, d \in stored : ImportKey(c) = ImportKey(d) => c = d

LEMMA OneEntryPerKey == Safe => OneEntry
<1> SUFFICES ASSUME Safe, NEW c \in stored, NEW d \in stored, ImportKey(c) = ImportKey(d)
             PROVE  c = d
  BY DEF OneEntry
<1>1. c \in ClaimIds /\ d \in ClaimIds /\ Known(c) /\ Known(d)
  BY DEF Safe, TypeOK, Known
<1>2. c.key = d.key
  BY <1>1, SameClaim
<1>3. c.ver = d.ver
  BY <1>1, <1>2 DEF Safe, VersionsAgree
<1> QED
  BY <1>1, <1>3, SameClaim

(* A commit enters keys nobody has entered. *)
LEMMA CommitEnters ==
  ASSUME Safe, NEW i \in Importers, Commit(i)
  PROVE  Ledger!Enter
<1>1. Safe'
  BY CommitSafe
<1>2. /\ stored' = stored \cup write[i].items /\ write[i].items \cap stored = {}
      /\ UNCHANGED <<withheld, replaced>>
  BY CommitEffect
<1>3. \A c : EntryOf(c)' = EntryOf(c)
  BY <1>2 DEF EntryOf, Standing, ImportKey
<1>4. LedgerEntry' = {EntryOf(c) : c \in stored'}
  BY <1>1, <1>3 DEF LedgerEntry, EntryOf, ImportKey
<1>5. LedgerEntry = {EntryOf(c) : c \in stored} /\ LedgerEntry \subseteq Ledger!Entries
  BY EntryType
<1>6. (LedgerEntry \subseteq Ledger!Entries)'
  BY <1>1, EntryType, PTL
<1>7. LedgerEntry \subseteq LedgerEntry'
  BY <1>2, <1>4, <1>5
<1>8. ASSUME NEW e \in LedgerEntry' \ LedgerEntry
      PROVE  /\ e.st = "PUBLISHED"
             /\ \A f \in LedgerEntry' : f.key = e.key => f = e
  <2>1. PICK c \in stored' : e = EntryOf(c)
    BY <1>4, <1>8
  <2>2. c \notin stored
    BY <1>5, <1>8, <2>1
  <2>3. e.st = "PUBLISHED" /\ e.key = ImportKey(c)
    BY <2>1, <2>2 DEF EntryOf, Standing, Safe, TypeOK
  <2>4. ASSUME NEW f \in LedgerEntry', f.key = e.key PROVE f = e
    <3>1. PICK d \in stored' : f = EntryOf(d)
      BY <1>4, <2>4
    <3>2. ImportKey(d) = ImportKey(c)
      BY <2>3, <2>4, <3>1 DEF EntryOf
    <3>3. OneEntry'
      BY <1>1, OneEntryPerKey, PTL
    <3> QED
      BY <2>1, <3>1, <3>2, <3>3 DEF OneEntry, ImportKey
  <2> QED
    BY <2>3, <2>4
<1> QED
  BY <1>6, <1>7, <1>8 DEF Ledger!Enter

(* An operator moves the entry of one row.                                 *)
LEMMA EntryMoves ==
  ASSUME Safe, NEW c \in stored, UNCHANGED stored,
         \A d \in stored : d # c => Standing(d)' = Standing(d)
  PROVE  /\ EntryOf(c) \in LedgerEntry
         /\ LedgerEntry' = (LedgerEntry \ {EntryOf(c)})
                             \cup {[EntryOf(c) EXCEPT !.st = Standing(c)']}
<1>1. LedgerEntry = {EntryOf(d) : d \in stored}
  BY EntryType
<1>2. \A d \in stored : EntryOf(d) = EntryOf(c) => d = c
  BY OneEntryPerKey DEF OneEntry, EntryOf
<1> DEFINE moved == [EntryOf(c) EXCEPT !.st = Standing(c)']
<1>3. EntryOf(c)' = moved
  BY DEF EntryOf, ImportKey
<1>4. \A d \in stored : d # c => EntryOf(d)' = EntryOf(d)
  BY DEF EntryOf, ImportKey
<1>5. LedgerEntry' = {EntryOf(d)' : d \in stored}
  BY DEF LedgerEntry, EntryOf, ImportKey
<1>6. LedgerEntry \ {EntryOf(c)} = {EntryOf(d) : d \in stored \ {c}}
  BY <1>1, <1>2
<1>7. {EntryOf(d)' : d \in stored} = {EntryOf(d) : d \in stored \ {c}} \cup {moved}
  BY <1>3, <1>4
<1> QED
  BY <1>1, <1>5, <1>6, <1>7

LEMMA OperatorMoves ==
  ASSUME Safe, NEW c \in stored, Withdraw(c) \/ Restore(c) \/ Replace(c)
  PROVE  Ledger!Next
<1>1. UNCHANGED stored
  BY DEF Withdraw, Restore, Replace
<1>2. \A d \in stored : d # c => Standing(d)' = Standing(d)
  BY DEF Withdraw, Restore, Replace, Standing
<1>3. EntryOf(c) \in LedgerEntry /\ EntryOf(c).st = Standing(c)
  BY <1>1, <1>2, EntryMoves DEF EntryOf
<1>4. Ledger!Move(Standing(c), Standing(c)')
  BY <1>1, <1>2, <1>3, EntryMoves DEF Ledger!Move
<1>5. CASE Withdraw(c)
  <2>1. Standing(c) = "PUBLISHED" /\ Standing(c)' = "WITHHELD"
    BY <1>5 DEF Withdraw, Standing, Published, Current
  <2> QED
    BY <1>4, <2>1 DEF Ledger!Next
<1>6. CASE Restore(c)
  <2>1. Standing(c) = "WITHHELD" /\ Standing(c)' = "PUBLISHED"
    BY <1>6 DEF Restore, Standing, Current
  <2> QED
    BY <1>4, <2>1 DEF Ledger!Next
<1>7. CASE Replace(c)
  <2>1. Standing(c) \in {"PUBLISHED", "WITHHELD"} /\ Standing(c)' = "REPLACED"
    BY <1>7 DEF Replace, Standing, Current
  <2> QED
    BY <1>4, <2>1 DEF Ledger!Next
<1> QED
  BY <1>5, <1>6, <1>7

LEMMA LedgerStutters ==
  ASSUME UNCHANGED <<stored, withheld, replaced>>
  PROVE  LedgerEntry' = LedgerEntry
BY DEF LedgerEntry, Standing, ImportKey

LEMMA LedgerStep == Safe /\ [Next]_vars => [Ledger!Next]_LedgerEntry
<1> SUFFICES ASSUME Safe, [Next]_vars PROVE Ledger!Next \/ LedgerEntry' = LedgerEntry
  OBVIOUS
<1>1. ASSUME NEW i \in Importers, Commit(i) PROVE Ledger!Next
  BY <1>1, CommitEnters DEF Ledger!Next
<1>2. ASSUME NEW c \in stored, Withdraw(c) \/ Restore(c) \/ Replace(c) PROVE Ledger!Next
  BY <1>2, OperatorMoves
<1>3. ASSUME NEW k \in Keys, NEW v \in Versions, Collect(k, v) PROVE LedgerEntry' = LedgerEntry
  BY <1>3, LedgerStutters DEF Collect
<1>4. ASSUME NEW L \in SUBSET AlioPairs, NEW done \in BOOLEAN, Enumerate(L, done)
      PROVE  LedgerEntry' = LedgerEntry
  BY <1>4, LedgerStutters DEF Enumerate
<1>5. ASSUME NEW j \in setting.jobs, Propose(j) \/ Approve(j) PROVE LedgerEntry' = LedgerEntry
  BY <1>5, LedgerStutters DEF Propose, Approve, dbVars
<1>6. ASSUME NEW i \in Importers, NEW j \in setting.jobs, Prepare(i, j)
      PROVE  LedgerEntry' = LedgerEntry
  BY <1>6, LedgerStutters DEF Prepare, dbVars
<1>7. ASSUME NEW i \in Importers, Read(i) \/ Collide(i) \/ Stop(i) PROVE LedgerEntry' = LedgerEntry
  BY <1>7, LedgerStutters DEF Read, Collide, Stop, dbVars
<1>8. CASE UNCHANGED vars
  BY <1>8, LedgerStutters DEF vars, dbVars
<1> QED
  BY <1>1, <1>2, <1>3, <1>4, <1>5, <1>6, <1>7, <1>8 DEF Next

(* The importers implement the ledger: no import ever duplicates, changes, *)
(* revives or removes what is entered under an import key, also when they  *)
(* overlap and when the entry was withdrawn or corrected meanwhile.        *)
THEOREM ImplementsLedger == Spec => LedgerSpec
<1>1. Init => Ledger!Init
  BY DEF Init, Ledger!Init, LedgerEntry
<1> QED
  BY <1>1, SafeAlways, LedgerStep, PTL DEF Spec, LedgerSpec, Ledger!Spec
=============================================================================
