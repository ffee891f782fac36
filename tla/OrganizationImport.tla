-------------------------- MODULE OrganizationImport --------------------------
(***************************************************************************)
(* The reviewed importers that create organizations and publish claims     *)
(* about them.  Every command reads the database, builds a plan, and then  *)
(* hands the plan to one transaction of the repository, which reads again, *)
(* judges the plan and writes it whole or not at all.  Between the two     *)
(* reads other importers, the collectors and the operators go on.          *)
(*                                                                         *)
(* Ids are derived (uuid5), so a record stands for the row it identifies:  *)
(* an organization for its provider namespace and name, a claim for its    *)
(* organization, predicate, provider record and content version.           *)
(***************************************************************************)
EXTENDS Naturals, FiniteSets

CONSTANTS
  Importers,     \* the processes in which commands run
  Jobs,          \* the commands: a lane with its manifest, packet or record keys
  Lane,          \* [Jobs -> Lanes]
  Namespace,     \* [Jobs -> Namespaces], for the organization lanes
  NamesOf,       \* [Jobs -> SUBSET Names], the names of an organization manifest
  KeysOf,        \* [Jobs -> SUBSET Keys], the provider records of a claim job
  Names,         \* organization names
  FullName,      \* [Names -> Names], "국회 <committee>" of a committee's name
  Keys,          \* provider record keys
  NameOf,        \* [Keys -> Names], the institution a provider record names
  Versions,      \* content hashes
  Scenarios,     \* initial settings: [jobs, overlap, orgs, observations]
  MaxLaunches,   \* bound on prepared commands
  MaxRuns,       \* bound on collection steps
  MaxEdits,      \* bound on operator steps
  None

Lanes == {"MOIS", "ORGGO", "EXPENSE", "TARGET", "TARGETS", "ALIO", "WITNESS"}
Namespaces == {"MOIS", "ORGGO", "ALIO", "COMMITTEE"}
Predicates == {"EXPENSE", "TARGET", "CLASSIFICATION", "EXECUTIVE", "WITNESS"}
OrgIds == [ns : Namespaces, name : Names]

\* Content hashes have a fixed length and the installation's names are finitely many.
ASSUME FiniteAssumption == IsFiniteSet(Names) /\ IsFiniteSet(Versions)

\* Every lane reads its own packet or manifest; a witness packet names its committee.
ASSUME JobsAssumption ==
  /\ Lane \in [Jobs -> Lanes]
  /\ Namespace \in [Jobs -> Namespaces]
  /\ NamesOf \in [Jobs -> SUBSET Names]
  /\ KeysOf \in [Jobs -> SUBSET Keys]
  /\ \A j \in Jobs : Lane[j] = "WITNESS" => KeysOf[j] # {}
  /\ NameOf \in [Keys -> Names]
  /\ FullName \in [Names -> Names]

\* An installation starts with records of its providers and, where transactions do
\* not overlap, with one row per name.
ASSUME ScenariosAssumption ==
  \A s \in Scenarios :
    /\ s.jobs \subseteq Jobs
    /\ s.overlap \in BOOLEAN
    /\ s.orgs \subseteq OrgIds
    /\ ~s.overlap => \A o, x \in s.orgs : o.name = x.name => o = x
    /\ s.observations \subseteq Keys \X Versions

VARIABLES
  setting,       \* [jobs, overlap]: the jobs at hand; whether transactions overlap
  orgs,          \* the current rows of organizations
  observations,  \* the stored <<record key, version>> pairs
  listing,       \* the pairs the checkpoint of the item-4 collection lists
  complete,      \* its last run ended SUCCESS over all institutions
  stored,        \* the claim rows written by importers
  withheld,      \* those an operator withdrew
  replaced,      \* those a published correction superseded
  universe,      \* [Jobs -> organizations counted by the reviewed proposal, or None]
  approved,      \* [Jobs -> plan whose hash the owner confirmed, or None]
  pc, plan, write, again,   \* per importer: step, plan, rows to insert, retried
  launches, runs, edits     \* counters of the bounds

dbVars == <<orgs, observations, listing, complete, stored, withheld, replaced>>
jobVars == <<universe, approved>>
workVars == <<pc, plan, write, again>>
counters == <<launches, runs, edits>>
vars == <<setting, dbVars, jobVars, workVars, counters>>

ClaimIds == [org : OrgIds, pred : Predicates, key : Keys, ver : Versions]
Plans == [orgs : SUBSET OrgIds, created : SUBSET OrgIds,
          items : SUBSET ClaimIds, reused : BOOLEAN]

NoRows == [orgs |-> {}, items |-> {}]

-----------------------------------------------------------------------------
(* What the commands read.                                                 *)

Current == stored \ replaced
Published == Current \ withheld

SameName(n) == {o \in orgs : o.name = n}
VersionsOf(k) == {v \in Versions : <<k, v>> \in observations}
SingleVersion(k) == Cardinality(VersionsOf(k)) = 1
OnlyVersion(k) == CHOOSE v \in VersionsOf(k) : TRUE

\* Rows of a query come ordered by id; which of several is first is arbitrary but fixed.
First(S) == CHOOSE o \in S : TRUE

Claim(o, p, k, v) == [org |-> o, pred |-> p, key |-> k, ver |-> v]

\* `_claim_import_key`, and the current rows stored under the key of a claim.
ImportKey(c) == <<c.org, c.pred, c.key>>
Matching(c) == {d \in Current : ImportKey(d) = ImportKey(c)}

\* An equal row counts as reusable whatever its publication status.
EquivalentRow(c) == Matching(c) = {c}

\* Two claims with equal import semantics: one id, and the row is still published.
Equivalent(c) == Matching(c) = {c} /\ c \in Published

\* The organizations that hold a current claim of the provider record.
Owners(c) == {d.org : d \in {e \in Current : e.pred = c.pred /\ e.key = c.key}}

Plan(os, items, reused) ==
  [orgs |-> os, created |-> os \ orgs, items |-> items, reused |-> reused]

-----------------------------------------------------------------------------
(* The plans a job can have now: one, or none when its preflight refuses.   *)

\* MOIS and org.go manifests: all rows new or none, against a reviewed universe.
OrganizationPlans(j) ==
  LET ids == {[ns |-> Namespace[j], name |-> n] : n \in NamesOf[j]}
      free(o) == IF Lane[j] = "MOIS" THEN SameName(o.name) = {} \/ First(SameName(o.name)) = o
                                     ELSE SameName(o.name) \subseteq {o}
  IN IF /\ universe[j] # None
        /\ \A o \in ids : free(o)
        /\ ids \cap orgs \in {{}, ids}
        /\ Cardinality(orgs) = universe[j] + Cardinality(ids \cap orgs)
     THEN {Plan(ids, {}, ids \subseteq orgs)}
     ELSE {}

\* ALIO item 12: two yearly records of an organization the operator names.
ExpensePlans(j) ==
  IF \A k \in KeysOf[j] : SingleVersion(k)
  THEN {Plan({o}, {Claim(o, "EXPENSE", k, OnlyVersion(k)) : k \in KeysOf[j]}, FALSE) :
          o \in {x \in orgs : \A k \in KeysOf[j] : x.name = NameOf[k]}}
  ELSE {}

\* Audit plan: each occurrence binds to the one current organization of its name; a
\* batch whose items are published in part is refused.
TargetPlans(j) ==
  LET items == {Claim(First(SameName(NameOf[k])), "TARGET", k, OnlyVersion(k)) :
                  k \in KeysOf[j]}
      found == {c \in items : Matching(c) # {}}
  IN IF /\ \A k \in KeysOf[j] : Cardinality(SameName(NameOf[k])) = 1 /\ SingleVersion(k)
        /\ \A c \in found : Equivalent(c)
        /\ found \in {{}, items}
     THEN {Plan({c.org : c \in items}, items, found = items)}
     ELSE {}

\* The organizations bound to an institution by a published item-4 claim.
Bound(n) ==
  {c.org : c \in {d \in Published : d.pred \in {"CLASSIFICATION", "EXECUTIVE"}
                                    /\ NameOf[d.key] = n}}
AlioId(n) == [ns |-> "ALIO", name |-> n]
Institution(n) == IF Bound(n) = {} THEN AlioId(n) ELSE First(Bound(n))

\* ALIO item 4: everything a complete collection lists, in one operation.  Each
\* disclosure gives the institution a classification claim and its executives.
AlioPlans(j) ==
  LET named == {NameOf[kv[1]] : kv \in listing}
  IN IF /\ complete
        /\ \A kv \in listing : VersionsOf(kv[1]) = {kv[2]}
        /\ \A n \in named : /\ Cardinality(Bound(n)) <= 1
                            /\ Institution(n).name = n
                            /\ Bound(n) = {} => SameName(n) \subseteq {AlioId(n)}
     THEN {Plan({Institution(n) : n \in named},
                {Claim(Institution(NameOf[kv[1]]), p, kv[1], kv[2]) :
                   p \in {"CLASSIFICATION", "EXECUTIVE"}, kv \in listing},
                FALSE)}
     ELSE {}

\* Witness lists: a committee's row under either of its names, or a new one.
WitnessPlans(j) ==
  LET committee == NameOf[CHOOSE k \in KeysOf[j] : TRUE]
      rows == {o \in orgs : o.name \in {committee, FullName[committee]}}
      home == IF rows = {} THEN [ns |-> "COMMITTEE", name |-> FullName[committee]]
                           ELSE First(rows)
  IN IF \A k \in KeysOf[j] : SingleVersion(k)
     THEN {Plan({home}, {Claim(home, "WITNESS", k, OnlyVersion(k)) : k \in KeysOf[j]}, FALSE)}
     ELSE {}

PlansOf(j) ==
  CASE Lane[j] \in {"MOIS", "ORGGO"}     -> OrganizationPlans(j)
    [] Lane[j] = "EXPENSE"               -> ExpensePlans(j)
    [] Lane[j] \in {"TARGET", "TARGETS"} -> TargetPlans(j)
    [] Lane[j] = "ALIO"                  -> AlioPlans(j)
    [] Lane[j] = "WITNESS"               -> WitnessPlans(j)

-----------------------------------------------------------------------------
(* How the three entry points of the repository judge a plan.               *)

\* The evidence of a claim must rest on a record with one stored version.
Unambiguous(c) == Cardinality(VersionsOf(c.key)) <= 1

\* The batch looks for the record only under the organization of the item.
BatchAcceptsOwnOnly(p) ==
  /\ \A o \in p.orgs \ orgs : SameName(o.name) = {}
  /\ \A c \in p.items : Unambiguous(c) /\ (Matching(c) = {} \/ Equivalent(c))

\* The batch trusts the organizations of its plan.
BatchAcceptsNames(p) ==
  \A c \in p.items :
    /\ Owners(c) \subseteq {c.org}
    /\ Unambiguous(c)
    /\ IF Matching(c) = {} THEN c \notin stored ELSE Equivalent(c)

BatchAccepts(p) ==
  /\ \A o \in p.orgs \ orgs : SameName(o.name) = {}
  /\ \A o, x \in p.orgs \ orgs : o.name = x.name => o = x
  /\ \A c \in p.items :
       /\ Owners(c) \subseteq {c.org}
       /\ Unambiguous(c)
       /\ IF Matching(c) = {} THEN c \notin stored ELSE Equivalent(c)

PairAccepts(p) ==
  /\ p.orgs \subseteq orgs
  /\ \A c \in p.items : Unambiguous(c) /\ (Matching(c) = {} \/ Equivalent(c))

SingleAccepts(p) ==
  /\ p.orgs \subseteq orgs
  /\ \A c \in p.items : Unambiguous(c) /\ c \notin stored

Accepts(j, p) ==
  CASE Lane[j] = "EXPENSE" -> PairAccepts(p)
    [] Lane[j] = "TARGET"  -> SingleAccepts(p)
    [] OTHER               -> BatchAccepts(p)

\* The rows to insert: what is missing, nothing that is reused.
Missing(p) == [orgs |-> p.orgs \ orgs, items |-> {c \in p.items : Matching(c) = {}}]

-----------------------------------------------------------------------------
Init ==
  /\ \E s \in Scenarios :
       /\ setting = [jobs |-> s.jobs, overlap |-> s.overlap]
       /\ orgs = s.orgs
       /\ observations = s.observations
  /\ listing = {} /\ complete = FALSE
  /\ stored = {} /\ withheld = {} /\ replaced = {}
  /\ universe = [j \in Jobs |-> None]
  /\ approved = [j \in Jobs |-> None]
  /\ pc = [i \in Importers |-> "idle"]
  /\ plan = [i \in Importers |-> None]
  /\ write = [i \in Importers |-> NoRows]
  /\ again = [i \in Importers |-> FALSE]
  /\ launches = 0 /\ runs = 0 /\ edits = 0

\* Where transactions do not overlap, nothing happens between a read and its commit.
Quiet == setting.overlap \/ \A i \in Importers : pc[i] # "reading"

\* A collector stores one more version of a record of a claim lane.
Collect(k, v) ==
  /\ Quiet
  /\ runs < MaxRuns
  /\ \E j \in setting.jobs : Lane[j] # "ALIO" /\ k \in KeysOf[j]
  /\ <<k, v>> \notin observations
  /\ observations' = observations \cup {<<k, v>>}
  /\ runs' = runs + 1
  /\ UNCHANGED <<setting, orgs, listing, complete, stored, withheld, replaced,
                 jobVars, workVars, launches, edits>>

\* The collector keeps one row per record and overwrites it.
EnumerateInPlace(L, done) ==
  /\ Quiet
  /\ runs < MaxRuns
  /\ \A kv, lw \in L : NameOf[kv[1]] = NameOf[lw[1]] => kv = lw
  /\ listing' = L
  /\ complete' = done
  /\ observations' = {kv \in observations : \A lw \in L : lw[1] # kv[1]} \cup L
  /\ runs' = runs + 1
  /\ UNCHANGED <<setting, orgs, stored, withheld, replaced, jobVars, workVars,
                 launches, edits>>

\* A collection of item 4, as far as it came: at most one disclosure per institution.
Enumerate(L, done) ==
  /\ Quiet
  /\ runs < MaxRuns
  /\ \A kv, lw \in L : NameOf[kv[1]] = NameOf[lw[1]] => kv = lw
  /\ listing' = L
  /\ complete' = done
  /\ observations' = observations \cup L
  /\ runs' = runs + 1
  /\ UNCHANGED <<setting, orgs, stored, withheld, replaced, jobVars, workVars,
                 launches, edits>>

\* A proposal artifact counts the organizations and has no name conflict.
Propose(j) ==
  /\ Quiet
  /\ Lane[j] \in {"MOIS", "ORGGO"} /\ universe[j] = None
  /\ \A n \in NamesOf[j] : SameName(n) = {}
  /\ universe' = [universe EXCEPT ![j] = Cardinality(orgs)]
  /\ UNCHANGED <<setting, dbVars, approved, workVars, counters>>

\* A witness dry run prints the hash of the plan and the owner approves it.
Approve(j) ==
  /\ Quiet
  /\ Lane[j] = "WITNESS"
  /\ \E p \in PlansOf(j) :
       /\ approved[j] # p
       /\ approved' = [approved EXCEPT ![j] = p]
  /\ UNCHANGED <<setting, dbVars, universe, workVars, counters>>

\* A command with --commit has read what it needs; a witness plan must be the approved one.
Prepare(i, j) ==
  /\ Quiet
  /\ pc[i] = "idle"
  /\ launches < MaxLaunches
  /\ \E p \in PlansOf(j) :
       /\ ~p.reused
       /\ Lane[j] = "WITNESS" => approved[j] = p
       /\ plan' = [plan EXCEPT ![i] = [job |-> j, todo |-> p]]
  /\ pc' = [pc EXCEPT ![i] = "prepared"]
  /\ again' = [again EXCEPT ![i] = FALSE]
  /\ launches' = launches + 1
  /\ UNCHANGED <<setting, dbVars, jobVars, write, runs, edits>>

\* The transaction reads the database again and accepts the plan.
Read(i) ==
  /\ Quiet
  /\ pc[i] = "prepared"
  /\ Accepts(plan[i].job, plan[i].todo)
  /\ write' = [write EXCEPT ![i] = Missing(plan[i].todo)]
  /\ pc' = [pc EXCEPT ![i] = "reading"]
  /\ UNCHANGED <<setting, dbVars, jobVars, plan, again, counters>>

Collides(i) == write[i].orgs \cap orgs # {} \/ write[i].items \cap stored # {}

\* The inserts and the commit succeed.
Commit(i) ==
  /\ pc[i] = "reading"
  /\ ~Collides(i)
  /\ orgs' = orgs \cup write[i].orgs
  /\ stored' = stored \cup write[i].items
  /\ pc' = [pc EXCEPT ![i] = "idle"]
  /\ plan' = [plan EXCEPT ![i] = None]
  /\ write' = [write EXCEPT ![i] = NoRows]
  /\ UNCHANGED <<setting, observations, listing, complete, withheld, replaced,
                 jobVars, again, counters>>

\* A primary key was taken in the meantime: everything is rolled back.  The pair
\* import reads and judges once more, the others give up.
Collide(i) ==
  /\ pc[i] = "reading"
  /\ Collides(i)
  /\ Lane[plan[i].job] = "EXPENSE" /\ ~again[i]
  /\ pc' = [pc EXCEPT ![i] = "prepared"]
  /\ again' = [again EXCEPT ![i] = TRUE]
  /\ write' = [write EXCEPT ![i] = NoRows]
  /\ UNCHANGED <<setting, dbVars, jobVars, plan, counters>>

\* A refusal, an exception or the death of the process: nothing is written.
Stop(i) ==
  /\ pc[i] \in {"prepared", "reading"}
  /\ pc' = [pc EXCEPT ![i] = "idle"]
  /\ plan' = [plan EXCEPT ![i] = None]
  /\ write' = [write EXCEPT ![i] = NoRows]
  /\ UNCHANGED <<setting, dbVars, jobVars, again, counters>>

\* The operator workflow on a claim of an organization.
Withdraw(c) ==
  /\ Quiet /\ edits < MaxEdits
  /\ c \in Published
  /\ withheld' = withheld \cup {c}
  /\ edits' = edits + 1
  /\ UNCHANGED <<setting, orgs, observations, listing, complete, stored, replaced,
                 jobVars, workVars, launches, runs>>

Restore(c) ==
  /\ Quiet /\ edits < MaxEdits
  /\ c \in Current \cap withheld
  /\ withheld' = withheld \ {c}
  /\ edits' = edits + 1
  /\ UNCHANGED <<setting, orgs, observations, listing, complete, stored, replaced,
                 jobVars, workVars, launches, runs>>

\* The original stays published beside its correction.
ReplaceShown(c) ==
  /\ Quiet /\ edits < MaxEdits
  /\ c \in Current
  /\ replaced' = replaced \cup {c}
  /\ edits' = edits + 1
  /\ UNCHANGED <<setting, orgs, observations, listing, complete, stored, withheld,
                 jobVars, workVars, launches, runs>>

\* The correction of a claim is published: the original is withheld and superseded.
Replace(c) ==
  /\ Quiet /\ edits < MaxEdits
  /\ c \in Current
  /\ withheld' = withheld \cup {c}
  /\ replaced' = replaced \cup {c}
  /\ edits' = edits + 1
  /\ UNCHANGED <<setting, orgs, observations, listing, complete, stored,
                 jobVars, workVars, launches, runs>>

AlioPairs == {kv \in Keys \X Versions :
                \E j \in setting.jobs : Lane[j] = "ALIO" /\ kv[1] \in KeysOf[j]}

Next ==
  \/ \E k \in Keys, v \in Versions : Collect(k, v)
  \/ \E L \in SUBSET AlioPairs \ {{}}, done \in BOOLEAN : Enumerate(L, done)
  \/ \E j \in setting.jobs : Propose(j) \/ Approve(j)
  \/ \E i \in Importers, j \in setting.jobs : Prepare(i, j)
  \/ \E i \in Importers : Read(i) \/ Commit(i) \/ Collide(i) \/ Stop(i)
  \/ \E c \in stored : Withdraw(c) \/ Restore(c) \/ Replace(c)

Spec == Init /\ [][Next]_vars

-----------------------------------------------------------------------------
(* Properties                                                               *)

\* Every variable holds what its declaration says, and importers work on known jobs.
TypeOK ==
  /\ setting \in [jobs : SUBSET Jobs, overlap : BOOLEAN]
  /\ orgs \subseteq OrgIds
  /\ observations \subseteq Keys \X Versions
  /\ listing \subseteq observations /\ complete \in BOOLEAN
  /\ stored \subseteq ClaimIds /\ withheld \subseteq stored /\ replaced \subseteq withheld
  /\ universe \in [Jobs -> Nat \cup {None}]
  /\ approved \in [Jobs -> Plans \cup {None}]
  /\ pc \in [Importers -> {"idle", "prepared", "reading"}]
  /\ plan \in [Importers -> [job : Jobs, todo : Plans] \cup {None}]
  /\ write \in [Importers -> [orgs : SUBSET OrgIds, items : SUBSET ClaimIds]]
  /\ again \in [Importers -> BOOLEAN]
  /\ launches \in Nat /\ runs \in Nat /\ edits \in Nat

\* One provider record backs at most one current claim of a predicate.  Where
\* transactions overlap two importers may bind it to two organizations, but never
\* to one organization twice under different versions.
OneCurrentPerRecord ==
  \A c, d \in Current :
    c.pred = d.pred /\ c.key = d.key => c = d \/ (setting.overlap /\ c.org # d.org)

\* Names are not unique in the table: only the same-name checks of the manifests and
\* of the batch keep two lanes from creating one institution twice.
NamesOnce == ~setting.overlap => \A o, x \in orgs : o.name = x.name => o = x

\* A record and an institution are joined once, whichever lane and name come first.
BoundOnce == OneCurrentPerRecord /\ NamesOnce

\* An import that reports success has left every item of its plan stored, under its
\* organization, and, unless an operator came between its reads, published.
CommitComplete ==
  [][\A i \in Importers : Commit(i) =>
       /\ plan[i].todo.orgs \subseteq orgs'
       /\ plan[i].todo.items \subseteq stored'
       /\ ~setting.overlap => plan[i].todo.items \subseteq Published']_vars

\* What is entered under an import key stays: an import never changes, duplicates or
\* revives it, also when two importers overlap and when it was withdrawn or corrected.
Standing(c) ==
  IF c \in replaced THEN "REPLACED" ELSE IF c \in withheld THEN "WITHHELD" ELSE "PUBLISHED"

LedgerEntry == {[key |-> ImportKey(c), ver |-> c.ver, st |-> Standing(c)] : c \in stored}

Ledger == INSTANCE RecordLedger WITH
  LedgerKeys <- OrgIds \X Predicates \X Keys, LedgerVersions <- Versions, entry <- LedgerEntry

\* The importers implement the ledger of import keys.
LedgerSpec == Ledger!Spec
=============================================================================
