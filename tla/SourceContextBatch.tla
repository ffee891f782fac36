------------------------- MODULE SourceContextBatch -------------------------
(***************************************************************************)
(* The source-context batches of packages/persistence/alio_person_... and  *)
(* nec_person_materialization.py, beside collectors and operators.         *)
(*                                                                         *)
(* A dry run classifies every listed row and prints a receipt; a commit is *)
(* given the receipt of a dry run, takes the locks, classifies again and   *)
(* writes a person to review, a link and a draft claim for every row to    *)
(* create, if its own receipt is the same.  A dry run takes no lock, and   *)
(* each of its queries sees what is committed by then.                     *)
(*                                                                         *)
(* Evidence is written with its claim and never changed.  Provenance rows  *)
(* are taken to be in place, and an institution to have one organization.  *)
(***************************************************************************)
EXTENDS AdminRecords

CONSTANTS
  Workers,         \* processes of the two batch workers
  AlioScope,       \* the one scope of the ALIO rows
  NecScopes,       \* the scopes of the NEC rows, one an election type
  ScopeOf, KeyOf,  \* the scope of a row, and its provider record key
  Anchored,        \* the NEC rows with a birth date
  Sites            \* where a behaviour starts, and what can happen in it

ASSUME RowsAreScoped ==
  /\ \A row \in AlioRows : ScopeOf[row] = AlioScope
  /\ \A row \in NecRows : ScopeOf[row] \in NecScopes
  /\ AlioScope \notin NecScopes
  /\ WitnessRows = {}

VARIABLES
  site,      \* [db, roster, listings, actions, asked, jobs, ...]: see Init
  db,        \* the committed rows, as in AdminRecords
  roster,    \* by scope, what its checkpoint lists, [rows, trusted], or None
  stored,    \* every row ever collected
  locked,    \* the workers who hold the advisory and the table locks
  job,       \* by worker that runs, what it has read
  shown      \* the receipts dry runs have printed

vars == <<site, db, roster, stored, locked, job, shown>>

Scopes == NecScopes \cup {AlioScope}
Lanes == {"ALIO", "NEC"}
LaneScopes(lane) ==
  site.asked \cap IF lane = "ALIO" THEN {{AlioScope}} ELSE SUBSET NecScopes \ {{}}

(* The version of a record that the checkpoint lists has another beside it.*)
Drifted(row, versions) ==
  \E v \in versions \ {row} : ScopeOf[v] = ScopeOf[row] /\ KeyOf[v] = KeyOf[row]

-----------------------------------------------------------------------------
(* Packets.  Their ids are functions of the row, for a NEC person of the   *)
(* candidate's id alone.                                                   *)

PersonId(row) == <<Batch, IF row \in NecRows THEN KeyOf[row] ELSE row>>
PacketId(row) == <<Batch, row>>

PacketLinks(d, row) == {l \in d.link : l.id = PacketId(row)}

(* A NEC packet counts as managed while its link and its claim are current;*)
(* an ALIO packet whatever became of them.  The name is never lost: a      *)
(* rename leaves it as an alias.                                           *)
InForce(d, row) ==
  (\E l \in PacketLinks(d, row) : l.live) /\ d.claim[PacketId(row)].live

Untouched(d, row) ==
  LET p == d.person[PersonId(row)] k == d.claim[PacketId(row)] IN
  /\ p.name = NameOf[row] /\ p.status = "REVIEW" /\ p.active
  /\ k.status = "DRAFT" /\ InForce(d, row)

Present(d, row) == {PersonId(row) \in DOMAIN d.person,
                    PacketId(row) \in DOMAIN d.claim,
                    PacketLinks(d, row) # {}}

PacketState(d, row) ==
  IF Present(d, row) = {FALSE} THEN "ABSENT"
  ELSE IF FALSE \in Present(d, row) THEN "PARTIAL"
  ELSE IF row \in NecRows /\ ~ InForce(d, row) THEN "CONFLICT"
  ELSE IF Untouched(d, row) THEN "EXACT" ELSE "MANAGED"

-----------------------------------------------------------------------------
(* What a job asks of the tables, a statement each, at READ COMMITTED.  Of *)
(* a row it holds a session keeps what it has read: the people who stand   *)
(* are not refreshed by the query for everybody, nor are claims.           *)

Totals(d) == [people    |-> Cardinality(Active(d)),
              claims    |-> Cardinality(Live(d)),
              evidence  |-> Cardinality(DOMAIN d.claim),
              links     |-> Cardinality({l \in d.link : l.live}),
              published |-> Cardinality(Public(d))]

Queries(lane) ==
  IF lane = "ALIO"
  THEN <<"active", "aliases", "person", "link", "claim", "linked", "listed",
         "people", "claims", "evidence", "links", "published">>
  ELSE <<"active", "aliases", "person", "link", "claim", "linked",
         "people", "claims", "evidence", "links", "published">>

(* All of it at one moment, about some rows.                               *)
Current(d, rows) == PutAll(Totals(d),
  [active  |-> [p \in Active(d) |-> d.person[p]],
   aliases |-> UNION {d.person[p].aliases : p \in DOMAIN d.person},
   person  |-> d.person, link |-> d.link, claim |-> d.claim,
   linked  |-> {l \in d.link : l.live /\ l.row \in rows},
   listed  |-> {row \in rows : Listed(d, row)}])

Fetched(d, held, rows, query) ==
  CASE query = "person" -> PutAll(d.person, held.active)
    [] query = "listed" ->
         {row \in rows :
            Cardinality(Listing(d, row)
                        \cap Listing([claim |-> PutAll(d.claim, held.claim)], row)) = 1}
    [] OTHER -> Current(d, rows)[query]

-----------------------------------------------------------------------------
(* Verdicts, of what a job has read (d), for the rows of its lane it has   *)
(* seen: which of them are of a run that never succeeded (doubted), and    *)
(* which have another version (drifted).                                   *)

On(d, row) == {l \in d.linked : l.row = row}
Taken(d) == {d.active[p].name : p \in DOMAIN d.active} \cup d.aliases

First(cases) ==
  cases[CHOOSE i \in DOMAIN cases : cases[i][1] /\ \A j \in 1 .. i - 1 : ~ cases[j][1]][2]

SettledOrMended(d, row) ==                   \* mutant: a partial packet is completed
  << <<PacketState(d, row) = "EXACT", "ALREADY_MATERIALIZED">>,
     <<PacketState(d, row) = "MANAGED", "ALREADY_MANAGED">>,
     <<PacketState(d, row) # "ABSENT", "CREATE">> >>
Settled(d, row) ==
  << <<PacketState(d, row) = "EXACT", "ALREADY_MATERIALIZED">>,
     <<PacketState(d, row) = "MANAGED", "ALREADY_MANAGED">>,
     <<PacketState(d, row) # "ABSENT", "PARTIAL_OR_CONFLICTING_MATERIALIZATION">>,
     <<Cardinality(On(d, row)) > 1, "MULTIPLE_ACTIVE_LINKS">> >>

AlioVerdict(d, seen, row) ==
  First(<< <<row \in seen.drifted, "HISTORICAL_VERSION_DRIFT">>,
           <<row \notin d.listed, "ORGANIZATION_BINDING_REQUIRED">> >>
        \o Settled(d, row) \o
        << <<On(d, row) # {}, "ALREADY_MANAGED_LINK">>,
           <<\E o \in seen.rows \ {row} : NameOf[o] = NameOf[row], "CURRENT_NAME_REPEATED">>,
           <<NameOf[row] \in Taken(d), "CURRENT_PERSON_OR_ALIAS_COLLISION">>,
           <<TRUE, "CREATE">> >>)

NecVerdict(d, seen, row) ==
  First(<< <<row \notin Anchored, "IDENTITY_ANCHOR_MISSING">>,
           <<row \in seen.doubted, "CHECKPOINT_CONFLICT">>,
           <<row \in seen.drifted, "HISTORICAL_VERSION_DRIFT">> >>
        \o Settled(d, row) \o
        << <<On(d, row) # {}, "ALREADY_LINKED_OTHER_CONTEXT">>,
           <<\E o \in seen.rows \ {row} : KeyOf[o] = KeyOf[row],
             "HUBOID_REPEATED_ACROSS_CURRENT_SCOPES">>,
           <<NameOf[row] \in Taken(d), "CURRENT_PERSON_OR_ALIAS_COLLISION">>,
           <<TRUE, "CREATE">> >>)

Verdict(d, seen, row) ==
  IF seen.lane = "ALIO" THEN AlioVerdict(d, seen, row) ELSE NecVerdict(d, seen, row)

Creates(d, seen) == {row \in seen.rows : Verdict(d, seen, row) = "CREATE"}

(* What the receipt tells: how many rows of which scope, how many of which *)
(* verdict, the totals, and the rows to create by name.                    *)
Receipt(j) ==
  LET Having(v) == {row \in j.seen.rows : Verdict(j.view, j.seen, row) = v} IN
  [lane |-> j.seen.lane,
   listed |-> [s \in j.scopes |-> Cardinality({row \in j.seen.rows : ScopeOf[row] = s})],
   reasons |-> [v \in {Verdict(j.view, j.seen, row) : row \in j.seen.rows} |->
                  Cardinality(Having(v))],
   totals |-> [t \in {"people", "claims", "evidence", "links", "published"} |-> j.view[t]],
   selected |-> Creates(j.view, j.seen)]

-----------------------------------------------------------------------------
(* Collectors and operators                                                *)

(* A site bounds how many collections, commands and jobs there are, and how*)
(* many processes at once, and gives what a scope may list, what operators *)
(* do, and the scopes they ask a batch for.                                *)
Init ==
  /\ site \in Sites
  /\ db = site.db
  /\ roster = [s \in Scopes |-> [rows |-> site.roster[s], trusted |-> TRUE]]
  /\ stored = UNION Range(site.roster)
  /\ locked = {}
  /\ job = <<>>
  /\ shown = {}

(* A collection stores what it lists.  It may be cut short before the last *)
(* page, or after it with its run never a SUCCESS.                         *)
Collect(s) ==
  /\ site.runs > 0
  /\ \E rows \in site.listings[s] :
       /\ stored' = stored \cup rows
       /\ \E seen \in {None} \cup [rows : {rows}, trusted : BOOLEAN] :
            roster' = [roster EXCEPT ![s] = seen]
  /\ site' = [site EXCEPT !.runs = @ - 1]
  /\ UNCHANGED <<db, locked, job, shown>>

(* Operators recheck the row behind a confirmation against its checkpoint. *)
Relied(cmd) ==
  LET x == cmd.targets[1] IN
  CASE cmd.action \in {"REGISTER_PERSON", "LINK_PERSON"} -> {x}
    [] cmd.action = "RESOLVE_PERSON" -> {l.row : l \in ContextOf(db, x)}
    [] cmd.action = "PUBLISH" /\ db.claim[x].kind = "ROLE" -> {db.claim[x].row}
    [] OTHER -> {}

StandsInList(row) ==                         \* mutant: in whichever version
  LET r == roster[ScopeOf[row]] IN
  /\ r # None /\ r.trusted /\ row \in r.rows
  /\ row \in NecRows => row \in Anchored
StandsInRoster(row) ==
  LET r == roster[ScopeOf[row]] IN
  /\ r # None /\ r.trusted /\ row \in r.rows
  /\ ~ Drifted(row, stored)
  /\ row \in NecRows => row \in Anchored

(* What an operator writes waits for the table locks.                      *)
Command ==
  /\ site.commands > 0
  /\ locked = {}
  /\ \E act \in site.actions : \E cmd \in Commands(db, act, 1) :
       /\ Permitted(db, cmd)
       /\ \A row \in Relied(cmd) : StandsInRoster(row)
       /\ db' = Planned(db, site.commands, cmd)
  /\ site' = [site EXCEPT !.commands = @ - 1]
  /\ UNCHANGED <<roster, stored, locked, job, shown>>

(* The organization import publishes the listing of a row of the roster.   *)
Import(row) ==
  /\ locked = {}
  /\ roster[AlioScope] # None /\ roster[AlioScope].trusted
  /\ row \in AlioRows \cap roster[AlioScope].rows
  /\ ClaimsAt(db, row) = {}
  /\ db' = [db EXCEPT !.claim = Put(@, <<Org, row>>,
              [Draft("LIST", Org, row, None) EXCEPT !.status = "PUBLISHED"])]
  /\ UNCHANGED <<site, roster, stored, locked, job, shown>>

-----------------------------------------------------------------------------
(* The workers                                                             *)

(* The advisory lock is one for each lane, the tables' are for all.        *)
LocksFree(lane) == locked = {}

(* A dry run expects nothing, a commit one receipt.                        *)
Job(lane, scopes, expected) ==
  [scopes |-> scopes, expected |-> expected, todo |-> scopes, open |-> {},
   seen |-> [lane |-> lane, rows |-> {}, doubted |-> {}, drifted |-> {}],
   view |-> <<>>]

Start(w, lane, scopes, expected) ==
  /\ w \notin DOMAIN job /\ Cardinality(DOMAIN job) < site.processes
  /\ site.jobs > 0
  /\ job' = Put(job, w, Job(lane, scopes, expected))
  /\ site' = [site EXCEPT !.jobs = @ - 1]
  /\ UNCHANGED <<db, roster, stored, shown>>

DryRun(w) == \E lane \in Lanes : \E scopes \in LaneScopes(lane) :
  Start(w, lane, scopes, {}) /\ UNCHANGED locked

(* --commit --expected-receipt-sha256, of any receipt that was printed.    *)
Commit(w) == \E r \in shown : \E scopes \in LaneScopes(r.lane) :
  /\ Start(w, r.lane, scopes, {r})
  /\ LocksFree(r.lane)
  /\ locked' = locked \cup {w}

(* The end of the process: what it wrote is committed or rolled back, and  *)
(* its locks are gone either way.                                          *)
LeaveHolding(w) == /\ job' = Restrict(job, DOMAIN job \ {w})   \* mutant: session locks
                   /\ UNCHANGED <<site, roster, stored, locked>>
Leave(w) == /\ job' = Restrict(job, DOMAIN job \ {w})
            /\ locked' = locked \ {w}
            /\ UNCHANGED <<site, roster, stored>>

Halt(w) == w \in DOMAIN job /\ Leave(w) /\ UNCHANGED <<db, shown>>

SeenWith(seen, r) ==
  [seen EXCEPT !.rows = @ \cup r.rows,
               !.doubted = @ \cup (IF r.trusted THEN {} ELSE r.rows)]

(* One scope's checkpoint.  Without a complete manifest the worker raises, *)
(* for ALIO without a SUCCESS too.  Then what is stored for the scope.     *)
ReadCheckpoint(w, s) ==
  /\ w \in DOMAIN job
  /\ s \in job[w].todo /\ job[w].open = {}
  /\ LET r == roster[s] IN
     IF r = None \/ (s = AlioScope /\ ~ r.trusted)
     THEN Halt(w)
     ELSE /\ job' = [job EXCEPT ![w].todo = @ \ {s}, ![w].open = {s},
                                ![w].seen = SeenWith(@, r)]
          /\ UNCHANGED <<site, db, roster, stored, locked, shown>>

ReadStored(w) ==
  /\ w \in DOMAIN job
  /\ job[w].open # {}
  /\ job' = [job EXCEPT ![w].open = {},
                        ![w].seen.drifted = @ \cup
                           {row \in job[w].seen.rows :
                              ScopeOf[row] \in job[w].open /\ Drifted(row, stored)}]
  /\ UNCHANGED <<site, db, roster, stored, locked, shown>>

(* Then the queries, one after the other.                                  *)
Read(w) ==
  /\ w \in DOMAIN job
  /\ job[w].todo = {} /\ job[w].open = {}
  /\ LET view == job[w].view
         queries == Queries(job[w].seen.lane)
         i == Cardinality(DOMAIN view) + 1
     IN /\ i \in DOMAIN queries
        /\ job' = [job EXCEPT ![w].view =
                      Put(@, queries[i], Fetched(db, view, job[w].seen.rows, queries[i]))]
  /\ UNCHANGED <<site, db, roster, stored, locked, shown>>

Counted(w) == w \in DOMAIN job /\ "published" \in DOMAIN job[w].view

Show(w) ==
  /\ Counted(w)
  /\ job[w].expected = {}
  /\ shown' = shown \cup {Receipt(job[w])}
  /\ Leave(w)
  /\ UNCHANGED db

(* STALE_PREFLIGHT, or nothing to create.                                  *)
MatchesReasons(w) ==                         \* mutant: only the verdicts count
  \E r \in job[w].expected : Receipt(job[w]).reasons = r.reasons
Matches(w) == Receipt(job[w]) \in job[w].expected
Decline(w) ==
  /\ Counted(w)
  /\ job[w].expected # {}
  /\ ~ Matches(w) \/ Creates(job[w].view, job[w].seen) = {}
  /\ Halt(w)

(* persist_source_context_person_packets: a person to review, the link and *)
(* the draft for every row to create.  A NEC claim is of a candidacy.      *)
Persisted(d, rows) ==
  [d EXCEPT
     !.person = PutAll(@, [p \in {PersonId(row) : row \in rows} |->
                  [name |-> NameOf[CHOOSE row \in rows : PersonId(row) = p],
                   aliases |-> {}, status |-> "REVIEW", active |-> TRUE]]),
     !.link = @ \cup {Link(PacketId(row), PersonId(row), row, "CONTEXT") : row \in rows},
     !.claim = PutAll(@, [k \in {PacketId(row) : row \in rows} |->
                 Draft(IF k[2] \in NecRows THEN "CANDIDACY" ELSE "ROLE",
                       PersonId(k[2]), k[2], None)])]

Persist(w) ==
  /\ Counted(w)
  /\ job[w].expected # {}
  /\ Matches(w)
  /\ LET rows == Creates(job[w].view, job[w].seen) IN rows # {} /\ db' = Persisted(db, rows)
  /\ Leave(w)
  /\ UNCHANGED shown

Next ==
  \/ \E s \in Scopes : Collect(s)
  \/ \E row \in AlioRows : Import(row)
  \/ Command
  \/ \E w \in Workers :
       \/ DryRun(w) \/ Commit(w) \/ Halt(w)
       \/ \E s \in Scopes : ReadCheckpoint(w, s)
       \/ ReadStored(w) \/ Read(w) \/ Show(w) \/ Decline(w) \/ Persist(w)

Spec == Init /\ [][Next]_vars

-----------------------------------------------------------------------------
(* Properties                                                              *)

Batches(d) == {p \in DOMAIN d.person : p[1] = Batch}
Packets(d) == {k \in DOMAIN d.claim : k[1] = Batch}

(* A database d is finite, its rows have their columns and refer to rows   *)
(* that exist and to what was collected, a person of the batch has all     *)
(* three parts of a packet, and a packet is made from what was collected.  *)
Sound(d, rows) ==
  /\ DOMAIN d = {"claim", "person", "link", "review"}
  /\ IsFiniteSet(DOMAIN d.claim) /\ IsFiniteSet(DOMAIN d.person) /\ IsFiniteSet(d.link)
  /\ \A c \in DOMAIN d.claim :
       /\ DOMAIN d.claim[c] = {"kind", "subject", "row", "origin", "status", "live"}
       /\ d.claim[c].subject \in DOMAIN d.person \cup {Org} /\ d.claim[c].row \in rows
  /\ \A p \in DOMAIN d.person :
       DOMAIN d.person[p] = {"name", "aliases", "status", "active"}
  /\ \A l \in d.link :
       /\ DOMAIN l = {"id", "person", "row", "how", "live"}
       /\ l.person \in DOMAIN d.person /\ l.row \in rows
  /\ \A p \in Batches(d) :
       \E row \in rows : PersonId(row) = p /\ Present(d, row) = {TRUE}
  /\ \A k \in Packets(d) : \E row \in rows : k = PacketId(row)

(* The tables are sound, whatever is listed was collected, and locks are   *)
(* held by commits alone.                                                  *)
TypeOK ==
  /\ Sound(db, stored)
  /\ \A s \in Scopes : roster[s] # None => roster[s].rows \subseteq stored
  /\ DOMAIN job \subseteq Workers
  /\ locked \subseteq {w \in DOMAIN job : job[w].expected # {}}

(* While a commit holds the locks nothing is written but what it writes,   *)
(* once: the selection of a receipt that was printed, over rows that still *)
(* give every row the verdict it has, and still add up as they did.        *)
OnlyShownWrites ==
  [][locked # {} /\ db' # db =>
       \E w \in locked : \E r \in job[w].expected \cap shown :
         /\ r.selected = Creates(Current(db, job[w].seen.rows), job[w].seen)
         /\ r.totals = Totals(db)
         /\ db' = Persisted(db, r.selected)
         /\ locked' = {}]_vars

(* Nobody a batch makes is known already: the name is not one of a current *)
(* person or alias, no other version of the record was made before, and no *)
(* id is taken, so that every total but the published grows by the number  *)
(* of packets; for two batches at once and with operators and collectors   *)
(* beside them.  Newcomers share a name only as candidates of one commit.  *)
NewcomersAreNew ==
  [][LET made == Packets(db') \ Packets(db)
         n == Cardinality(made) IN
     made # {} =>
       /\ Totals(db') = [t \in DOMAIN Totals(db) |->
                          IF t = "published" THEN Totals(db)[t] ELSE Totals(db)[t] + n]
       /\ \A k \in made : LET row == k[2] IN
            /\ ~ Collides(db, NameOf[row])
            /\ \A v \in stored \ {row} :
                 ScopeOf[v] = ScopeOf[row] /\ KeyOf[v] = KeyOf[row]
                 => PacketId(v) \notin DOMAIN db'.claim
            /\ \A m \in made \ {k} :
                 NameOf[m[2]] = NameOf[row] => {m[2], row} \subseteq NecRows]_vars

SameRecord(row, v) == ScopeOf[row] = ScopeOf[v] /\ KeyOf[row] = KeyOf[v]
LinkedOnce(d) ==
  \A l, m \in d.link : l.live /\ m.live /\ SameRecord(l.row, m.row) => l = m

(* A record of a provider is somebody's once, in whichever of its versions:*)
(* operators who register and link, merge what is linked, and batches whose*)
(* rows were read while collectors store another version of the record.    *)
RecordLinkedOnce == LinkedOnce(db)

-----------------------------------------------------------------------------
(* What is taken for granted of the constants                              *)

ASSUME RowsAreFinite == IsFiniteSet(Rows)

(* An id is a pair, of what made the row and of what: the number of a      *)
(* command, the batch, or an import.                                       *)
ASSUME IdsAssumption == Batch \notin Nat /\ Batch # Org

(* A behaviour starts in a database the program could have made, and a     *)
(* scope lists rows of its own.                                            *)
ASSUME SitesAssumption ==
  \A s \in Sites :
    /\ DOMAIN s = {"db", "roster", "listings", "actions", "asked", "processes", "jobs",
                   "commands", "runs"}
    /\ Sound(s.db, UNION Range(s.roster)) /\ LinkedOnce(s.db)
    /\ DOMAIN s.roster = Scopes /\ DOMAIN s.listings = Scopes
    /\ \A c \in Scopes : \A rows \in s.listings[c] \cup {s.roster[c]} :
         rows \subseteq {row \in Rows : ScopeOf[row] = c}
    /\ s.actions \subseteq Actions
    /\ {s.jobs, s.commands, s.runs} \subseteq Nat
=============================================================================
