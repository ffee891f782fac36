# civic-intel: TLA+ models, model checking and proofs

civic-intel collects public records about Korean public officials and organisations from
official providers. It keeps every provider record as an immutable *observation*, turns
observations into *people*, *organizations*, *claims* and *evidence* under human review, and
publishes the claims that pass a gate. This directory models the parts of it whose correctness
depends on order, on concurrency, on failure, or on a long history of legal calls.

Contents: [1 Inventory](#1-inventory) · [2 Plan](#2-plan) · [3 Batch ingestion](#3-batch-ingestion)
· [4 Operator workflow](#4-operator-workflow) · [5 Assembly materialization](#5-assembly-materialization)
· [6 Source-context materialization](#6-source-context-materialization)
· [7 Organization claim import](#7-organization-claim-import)
· [8 Scheduled acquisition and roll-call votes](#8-scheduled-acquisition-and-roll-call-votes)
· [9 Relationship pages](#9-relationship-pages) · [10 Collections of a universe](#10-collections-of-a-universe)
· [11 Runs](#11-runs) · [12 Proofs](#12-proofs) · [13 Findings](#13-findings) · [14 Limits](#14-limits)

## 1. Inventory

The Python code is layered. `packages/domain` holds contracts, database rows and enums;
`packages/connectors` has one module per provider API (HTTP and parsing only);
`packages/verification` is decision code and the writers of reviewed imports;
`packages/persistence` writes the database; `workers` are command-line jobs; `apps/api` is
FastAPI; `apps/web` is a Next.js site that reads the API.

All processes share one database, SQLite or PostgreSQL at its default isolation READ COMMITTED, and
nothing else but the scheduler's lock file. What interleaves is therefore database transactions and,
between them, whatever a process read earlier and still holds. Four kinds of process write:

- **collectors** (`workers/*`) page through a provider and store observations. Nothing in the code
  keeps two collectors of one scope apart except the lock file of the scheduler, which a collector
  started by hand does not take; `docs/roles/ROLE_MODEL.md:104` asks the people who run them to.
- **materializers** (the Assembly pass after an enumeration, and the ALIO and NEC source-context
  batches) turn stored observations into people, links and draft or published claims.
- **importers and publishers** publish reviewed claims about organizations and people: the
  organization importers, the roll-call vote publisher, the importers of single packets.
- **operators** (through `apps/api/admin.py`) preview and commit commands that review, register,
  link, publish, withdraw, correct, rename, deactivate and merge.

They meet in the tables `people`, `organizations`, `person_observation_links`, `claims` and
`identity_review_items`.

| Component | State it keeps | Operations | What is hard | What makes it correct | Status |
|---|---|---|---|---|---|
| **Paginated batch ingestion**: `workers/local_elections.py`, `workers/assembly_roster.py`, `start_source_run` / `commit_source_page` / `finish_source_run` in `repository.py` | `source_runs`, `source_checkpoints`, `feeder_observations`; in the worker: page, manifest, expected total | read checkpoint, start run, fetch, commit page, finish, abort, resume | workers racing on one checkpoint; a crash between page and status; a provider that changes while it is paged; resuming with another page size | a trusted checkpoint covers its scope, lists stored rows only and one version a record; runs are closed; what a consumer accepts is the provider's roster | modelled, proved |
| **Operator workflow**: `admin_workflow.py`, `apps/api/admin.py` | `claims`, `people`, links, reviews, `admin_operations` receipts; the preview in the browser | preview, commit, replay of fourteen actions | the plan is computed at the preview and applied up to five minutes later; batches; corrections; cascades; merges | what is written is what was shown, once; what is public stays backed; a row has one owner | partly (13 of 14 actions), proved |
| **National Assembly materialization**: `enumerate_and_materialize`, `materialize_feeder_observation`, `resolve_assembly_distinct_person_review`, `decide_materialization` | `people`, links, reviews | decide over one observation and auto-link, auto-create or open a review; resolve a reviewed conflict | read, decide, write without a lock; one transaction per observation and a crash between them; merges and renames in between | a provider key stands for one person; namesakes are made by reviews only; reviews are answered once | modelled, proved |
| **Source-context materialization**: `alio_` and `nec_person_materialization.py`, their workers | people in REVIEW, links, draft claims; the receipt an operator carries from a dry run to a commit | dry run, commit | receipt staleness; partial packets; reads long before the write; two lanes with different locks | a commit writes what a dry run printed; it makes no namesake; its own work never looks like a conflict later | modelled, proved |
| **Organization claim import**: `repository.py` from line 2900, `workers/gukgam_*`, `workers/mois_reviewed_*`, `workers/orggo_reviewed_*`, `workers/alio_*_claim_import.py` | organizations, claims, evidence with derived ids | plan, confirm, commit of a manifest, a packet or a collection | two imports race for one id and the loser retries once; a plan made from reads that are over; a manifest half published | a batch is all or nothing; a record backs one current claim; a name is one organization; nothing an operator did is undone | modelled, proved |
| **Scheduled acquisition**: `workers/scheduled_acquisition.py` | a lock file made with `O_EXCL`, one child process at a time | select jobs, run each, append the receipt | a kill leaves the lock; a kill of the parent alone leaves the child collecting | one collector at a time; the lock is given back | modelled, proved |
| **Plenary roll-call votes**: `workers/assembly_roll_call_votes.py`, `verification/assembly_plenary_votes.py` | run, checkpoint with cursor and exceptions, member rows, captured documents; vote claims | collect bill by bill under a budget, resume; publish member by member | a resume trusts the cursor and exceptions of another universe; rows fetched after the tally they are held against; a publication that stops half-way | what the publisher accepts covers the universe; published votes add up; one current vote a member and bill | modelled, proved |
| **Collections of a universe**: the enumerators of ALIO executives and expenses, OpenDART executives, meeting graphs, subcommittee reviews, MPM positions, meetings, committee members, biographies, bills, personnel notices, organization codes | the same run and checkpoint rows; in the checkpoint, the universe and what the steps before the cursor gave | read the universe, test it, commit it step by step, stop at a budget, resume, test the whole | each lane has its own tests of what it may resume; a resume over a universe that moved; two processes on one checkpoint; a kill between the pages of one unit | a checkpoint tells the truth of the steps before its cursor; a completed run stored what it read; those who use it accept it | modelled |
| **Reviewed person and member imports** | people, claims, evidence | one transaction comparing packets of data | data comparison | equal packets are accepted | not modelled: one actor, one step, all data |
| **Publication gate and source policy**: `verification/claims.py`, `policy.py` | none | judge one claim with its evidence | many conditions, one step | - | partly: the part on people and links is in the operator workflow |
| **Provider connectors** | none | HTTP and parsing | failing, partial and contradictory answers | - | the provider of `SourceIngestion` and `RollCallVotes` |
| **Verification builders** (`verification/*`) | none | pure functions of packets | - | - | partly (names and birth dates, source-context packets, vote rows) |
| **Relationship pages**: `relationship_projection.py`, `relationship_bindings.py`, `relationship_graph.py`, their endpoints in `main.py` | none stored; a cache of names; what a request has read so far | one person's relations, a comparison of two, the path between two | a dozen reads in sessions of their own, beside operators; periods stated in days, months, years or not at all; a search that stops at a depth | what a page states stood together; an overlap is one; a path is shortest | modelled, proved |
| **Other rendering projections** (`profile_projection.py`, `money_projection.py`) | none | layouts of published rows, sums of amounts | - | - | not modelled: one step, all data |
| **Public and operator API** | none; signed preview tokens | queries; drafts of work orders, which write nothing (`work_orders.py`) | a token against the database it is committed to; a page made of many reads | - | partly: the token is in the operator workflow, the relationship endpoints are the relationship pages |
| **Web site** (`apps/web`) | caches | pages, search | - | - | not modelled |
| **Migrations and deployment** | the schema | run by hand | - | - | not modelled |

`PROJECT.json` lists the hazards of this code at the lines where they bite, with the properties that
would catch them. A hazard without a property says why.

## 2. Plan

Order of work, the most important behaviour first. Everything above the line exists.

1. `SourceIngestion` + `RosterArchive` (abstract) + `SourceIngestionProofs`: every collector writes through
   its three transactions, and later stages trust its checkpoints.
2. `AdminRecords` (what a command accepts and writes, operators without state) + `AdminWorkflow`
   (+ proofs): where operators decide who a record is about and what becomes public.
3. `AssemblyMaterialization` (+ proofs): where people and their role claims become public without one.
4. `OrganizationImport` + `RecordLedger` (abstract) (+ proofs): the importers that publish about
   organizations.
5. `ScheduledAcquisition`, and `RollCallVotes` (+ proofs of both), which extends it: a collector under
   the scheduler, from the provider to the public claim.
6. `SourceContextBatch` (+ proofs), over `AdminRecords`: the two batches that make people, with their
   receipts, between operators and collectors.
7. `RelationshipProjection` and `RelationshipGraph` (+ proofs): what the public pages conclude from the
   claims the others publish, while operators go on.
8. `UnitCollection` (+ proofs): the collectors that read a universe first, each with tests of its own, and
   those who use their checkpoints.

---

9. The last action of the operator workflow (`REGISTER_SOURCE_POLICY`), the OpenDART, PETI and press
    kinds of `LINK_PERSON`, the dependencies that block a merge; the partitioned workers.

## 3. Batch ingestion

### `SourceIngestion`

One (feeder, scope), any number of enumerator processes, one provider.

| TLA+ | Code |
|---|---|
| `rows`, `drifts` | the provider's roster in listing order, and how often it changed (external) |
| `runs` | `source_runs`: status, cursor before and after, counters |
| `checkpoint` | the `source_checkpoints` row, or none (a run then starts from the cursor `None`): cursor, metadata (total, page count, page size, manifest), `last_run_id` |
| `observations` | `feeder_observations`: one row a (key, content hash), with the run that created it |
| `worker[w]` | the local variables of `enumerate()`; a crash loses them |
| `ReadCheckpoint` | the read at the top of `enumerate()`, *before* the run is opened |
| `StartRun` | `start_source_run`, a transaction: a RUNNING row with the cursor found *then*, which may not be the one read before |
| `FetchPage` | request, parse and the checks on one response (`Acceptable`) |
| `CommitPage` | `commit_source_page`, a transaction: observations, checkpoint, counters |
| `FinishRun`, `AbortRun` | `finish_source_run`: SUCCESS after the loop, PARTIAL or FAILED in the except clause |
| `StepRaises`, `Crash` | an exception in any step; the death of the process |
| `Amend`, `Withdraw`, `Enlist` | the provider amends, drops or inserts a record, at any place in its order |

A row is its key and its content hash. The manifest `seen_provider_hashes` and the list
`page_fingerprints` are one set of pages, each a set of rows: what the code tests (a key seen before,
a page content seen before) is a question about that set. A response may hold any subset of the page
it should hold, so that a provider which answers badly is an ordinary step; the reported total is the
roster's length at that moment. The candidate and winner enumerators of
`workers/local_elections.py` and the one of `workers/assembly_roster.py` run the same steps; where
they differ is in how a consumer judges the checkpoint, and the three tests are three operators:
`PublisherAccepts`, `ReviewAccepts`, `NecAccepts`.

The policy, source and snapshot rows a page also writes are left out. A conflict on them is a page
transaction that raises.

**Properties.** `AcceptedIsExact`: on a provider that holds still, what any consumer accepts is the
provider's roster, whatever failures, crashes, resumes and page sizes led there. `SuccessCovers`,
`ManifestUnambiguous`: the checkpoint stays sound however workers race on it and the provider changes.
`SuccessUsable`: a SUCCESS, also one a resumed run brought, is accepted.
`RunsClose`: an enumerator lets go of its run, and a run it leaves has a status; only a crash leaves one
RUNNING.

### `RosterArchive`

What the layer promises its consumers: an append-only archive, and a *trusted* roster that was
archived first, has one version a key, and is revoked by the next page. `ArchiveSpec` is its
specification under the mapping `archive <- Stored`, `trusted <-` the manifest of a checkpoint whose
last run is SUCCESS. It is checked as a property of a run and proved (`ImplementsArchive`).

## 4. Operator workflow

### `AdminRecords`

The rows of `claims`, `people`, `person_observation_links` and `identity_review_items` as one record
`db`, and for each action what it accepts (`Permitted`, `Accepts`, `May...`: the refusals of
`build_plan` and of the function of each action), what its plan reads (`Reads`: `Plan.query` and
`Plan.get` record every row they return) and what it writes (`Effect` for one target, and `Planned`, a
recursive function over the targets of a batch). It has no variables, so that `AdminWorkflow` and `SourceContextBatch` take the commands from
one place.

Every guard reads the *committed* database `d`; only the writes go to `a`, the database as the plan
has written it so far. That is how `build_plan` works with batches: it plans every target before
`Plan.apply` writes the first row. What a command creates is named by a pair, its request and
its target, as the code's ids are new ones each time; rows of a seed are named the same way, after
something that is no request.

A claim has a kind: `LIST` is an imported organization claim that carries a source row, `ROLE` the
claim registration or linking drafts from a source row, `LINKED` the person claim that restates a
witness list claim, `CORRECTION` a drafted replacement. Evidence is immutable and stands behind its
claim; source policies and checkpoints are taken to hold, since they only add reasons to refuse.

### `AdminWorkflow`

| TLA+ | Code |
|---|---|
| `receipt` | `admin_operations`: who committed what, for each request id that was |
| `desk[a]` | the signed preview in an operator's browser: command, what the plan read (the state hash) and the changes it showed |
| `Preview` | `admin_preview`: build the plan, write nothing |
| `Commit` | `commit_command` under its advisory lock or `BEGIN IMMEDIATE`: build the plan again, require the same reads (`Current`), write |
| `Replay` | `commit_command` when the receipt is there |
| `Close` | the operator cancels, or the five minutes of the token run out |
| `Materialize` | the source-context batch, dry run and commit as one step (section 6 has their steps) |

**Properties.** `PreviewHonored`: every write is the one somebody was shown, once, under a new
receipt, or the batch's. `PublishedIsBacked`: what `_publication_gate` checked stays true.
`IdentitiesDistinct`: a row has one owner, and no two
people the same name. `LinkedHasSource` (which fails, finding 1),
`SourceNotWithdrawn` (what holds of it), `CorrectionReplaces`: the versions of a claim. The original of a
published correction is not public, nor current, again, and no later command brings another correction of
it into public; one batch can hold two, and publishes both. `MergeKeepsPublic`: a merge loses nothing public.

`AdminWorkflowMC` starts from seed databases, each one an operation sequence leads to: `Fresh`
(organization claims only), `Known` (a registered person with a public role and a public witness
claim), `Twins` (a second person who turned out to be the first under an earlier name, so that a merge
is possible) and `Revised` (`Twins` with a drafted correction). Starting from them is what makes deep
commands reachable with two to five requests. An *office* is a set of seeds with the operators,
actions and batch sizes that meet there.

## 5. Assembly materialization

### `AssemblyMaterialization`

| TLA+ | Code |
|---|---|
| `current` | for each record key, the version in the latest complete roster |
| `people`, `links`, `reviews` | the rows of those tables that materialization reads; `reviews[o]` oldest first |
| `runner[w]` | a process: the observations it has yet to do and, inside a transaction, what it has read |
| `Enumerate` | `enumerate_and_materialize`: the enumeration (one step here; `SourceIngestion` has its steps) and the list to materialize |
| `ReadLinks`, `Decide`, `Look`, `Write` | `materialize_feeder_observation`: the two queries, `decide_materialization`, the search for an open review or a link, the writes |
| `Abort` | an error or a crash: the transaction rolls back and the pass ends |
| `TakeReview`, `Resolve` | `resolve_assembly_distinct_person_review` |
| `Register`, `Rename`, `Deactivate`, `Merge` | the operator commands on people, reduced to the rows above |

`Overlap` says whether anybody may act while a runner is inside a transaction. The code takes no lock
here; `docs/roles/ROLE_MODEL.md:104` asks the operators of the system to run one mutation at a time
"until shared runtime exclusion and overlap tests are proven". The checked run takes that rule as
its assumption (`Overlap = FALSE`): passes are interleaved transaction by transaction with other
passes, reviews and commands, but transactions do not overlap. Setting `Overlap = TRUE` in
`AssemblySerial.cfg` shows what the rule keeps out: within a few thousand states each of
`NamesakesReviewed`, `OnePersonPerKey` and `ReviewAnswered` is violated, by a person,
a link or a review that somebody else committed between a runner's read and its write.

**Properties.** `OnePersonPerKey`: consumers of a provider key fail when it stands for two people.
`NamesakesReviewed`: automatic creation never makes a second person of a name. `ReviewAnswered`: a
resolved review made one person, other than its candidate, and one live link cites it, which is where a
repeated resolution looks for its answer (`repository.py:1266`). A merge hands the citation on, and a
deactivation takes the answer back, by rejecting the review. It rejects the latest review of the
observation only: where a later pass opened a second review of the same observation, the first stays
resolved without a live link, which takes seven commands and passes in a particular order and which the
property leaves out (`i = Len(reviews[o])`).

## 6. Source-context materialization

### `SourceContextBatch`

Two lanes make people in REVIEW out of rows of a complete roster: ALIO executives
(`alio_safe_person_materialization`) and NEC candidates (`nec_safe_person_materialization`), the second
over the scopes named on its command line. A dry run prints what it would create and the SHA-256 of
everything it looked at; a commit is given that hash, locks, repeats the dry run, and writes only if it
comes to the same hash.

| TLA+ | Code |
|---|---|
| `db` | the rows of `AdminRecords`: people, links, claims |
| `roster`, `stored` | the manifest of each scope's checkpoint; the observations |
| `locked` | the commits that hold their locks: the lane's advisory lock and the tables of people, links, claims and evidence |
| `job[w]` | the locals and the session of a process while it runs: its scopes, the receipt it was given, if any, the scopes to read (`todo`, `open`), in `seen` its lane and what the rosters told it, in `view` what the tables answered, a field for each query |
| `shown` | the receipts printed so far |
| `Start` (`DryRun`, `Commit`) | the command line; a commit takes its locks first |
| `ReadCheckpoint`, `ReadStored` | the reads of each scope: its checkpoint with the listed rows; what else is stored of their records |
| `Read` (`Queries`, `Fetched`) | the queries of `prepare_..._materialization` over the tables, in their order, one a step: current people, aliases, the people, links and claims of the packets, the links of the rows, for ALIO the listings, then each total |
| `Verdict`, `Receipt` | what the process makes of it, in memory |
| `Show` | a dry run prints its receipt and ends |
| `Decline`, `Persist` | a commit refuses a changed receipt or finds nothing to do; or writes its packets (`persist_source_context_person_packets`) |
| `Halt` | an error at any step; the locks go with the transaction |
| `Command` | a whole operator command, from `AdminRecords` |
| `Collect`, `Import` | collectors store a new version and list it; the organization importer publishes its claim |

Every query is a step of its own. At READ COMMITTED each sees what is committed by then, so a dry run
may put together answers of different moments: a commit of its own lane between its query for the people
and its query for the links leaves it half of a packet, and it reports a conflict that never was. A
session also keeps the rows it holds (`Fetched`): the query for the packets' people does not
refresh those the query for current people brought, and the listing of a row counts only where the claim,
as it was first read, and the row, as it is by now, both qualify. So nothing is claimed of what a single
dry run reports. A commit asks the same queries with the tables locked against all
writers, which is what makes its answers those of one moment; that they are (`FreshInv`) is what the proofs start from.

ALIO's worker stops where a checkpoint is not of a SUCCESS or lists no complete manifest; NEC's stops
for the second reason and reports the rows of a failed run in doubt (`doubted`), making nothing of them.
Provenance rows (source, policy, snapshot) are in place.

**Properties.** `OnlyShownWrites`: a commit writes exactly what some dry run printed, over rows that
still have those verdicts and totals. `NewcomersAreNew`: a person a batch makes has a name nobody known
has, whichever lane runs beside it, and no version of the record was used before. `RecordLinkedOnce`: at any time a record of a provider, in whichever of its versions, is
linked to one person at most. Three places keep it so and none of them suffices: operators look for
links of the row itself and ask that no other version be stored; a batch looks for
packets and links of the row and drops rows with other versions; and a merge hands links over. Collectors store new versions between any two of these reads.

`SourceContextBatchMC` has eight sites: both lanes at once over one name (`TwoLanes`), with an operator
who registers it too (`Beside`); operators who rename, confirm, merge, deactivate, publish and withdraw
what a batch made (`Offices`); one candidate in two scopes (`Ballots`, `BallotsAgain`), whose lists change
(`Rosters`, `RostersOfTwo`); and an executive whose record changes after a batch made the person, whom operators then
take down or confirm, while others ask to link the new version (`Versions`). The last, `Offices` and `Rosters` run one process
at a time, so that what stands between its queries are operators and collectors; the others run two.

## 7. Organization claim import

### `OrganizationImport`

| TLA+ | Code |
|---|---|
| `orgs`, `stored`, `withheld`, `replaced` | `organizations`; the claims written by importers, and what operators did with them |
| `observations`, `listing`, `complete` | stored records, what the checkpoint of the ALIO item-4 collection lists, whether its run was complete |
| `universe`, `approved` | what an owner confirmed: the count of organizations a proposal was reviewed against, the hash of a plan |
| `pc`, `plan`, `write`, `again` | an importer: its step, the plan it holds, the rows its transaction will insert, whether it retried |

Seven lanes: `MOIS` and `ORGGO` make organizations from a manifest; `EXPENSE`, `TARGET`, `TARGETS`,
`ALIO` and `WITNESS` publish claims, one packet or one batch at a time. In every lane a command reads
(`...Plans`), perhaps waits for an owner who confirms the hash of the plan, and hands it to one
transaction that reads again and judges again, and either inserts all or nothing. Ids are derived
(uuid5), so a record stands for the row it identifies, and the primary key decides a race: the loser's
transaction raises, is taken back, and `import_organization_claim` tries once more.

**Properties.** `CommitComplete`: a commit that is reported means the whole manifest is stored.
`BoundOnce`: a provider record backs one current claim, and a name is one organization. `LedgerSpec`: the importers implement `RecordLedger`, a
book in which a key is entered once, published, and then moved by operators only.

## 8. Scheduled acquisition and roll-call votes

### `ScheduledAcquisition`

`lock` is the file with the process that made it, `phase` and `child` the scheduler and the collector
it waits for, `live` the collectors that run, `overridden` whether somebody went round the lock (by
starting a collector by hand, or removing the file of a dead scheduler whose child still runs). A
collector that hangs is killed at its timeout and waited for; a scheduler that is killed leaves the
file and its child. The jobs of one invocation follow each other under one lock and differ in their
command lines, so the module follows one job.

### `RollCallVotes`

Extends the schedule with what the collector does, and goes on to the public claim.

| TLA+ | Code |
|---|---|
| `provider` | for each bill its member rows and its published tally (external) |
| `run`, `checkpoint`, `observations`, `captured` | the runs' status; cursor, universe, exceptions and owner; member rows with `recorded_at`; the stored documents |
| `work[w]` | the collector's locals: the universe it fetched, its position, exceptions so far, what it holds of a bill, what is left of `--max-bills` |
| `Launch`, `Start` | the worker starts, under the scheduler or by hand, fresh or resumed, and reads the checkpoint |
| `OpenRun`, `FetchUniverse`, `CommitPages`, `FetchBill`, `CommitBill`, `Finish`, `Fail`, `Die` | the run; the summary and its pages; one bill's rows, their reconciliation and their transaction; SUCCESS or PARTIAL; an error; a kill |
| `StartPublication`, `ReadMember`, `ImportMember`, `Report`, `StopPublication` | the publisher: the test of the checkpoint (`Accepts`), the newest row of each bill for a member, a transaction a member |
| `Amend`, `Withdraw`, `Restore`, `Replace`, `Unlink` | the provider amends; operators edit claims or cut a link |

**Properties.** `OneCollector`, `LockReleased` for the schedule. `AcceptedCovers`: a checkpoint the
publisher accepts covers its universe, and its exceptions are exactly the bills that do not add up.
`ClaimsSound`: a published vote is of a reconciled bill, and the only current one of its member and bill.
`PublicationComplete`: a publication that ends has a claim for every row it was due.

## 9. Relationship pages

Three public pages say how people are connected: one person's relations, a comparison of two, and the
shortest chain of evidence between two. Nothing of it is stored; each request reads a dozen times, every
time in a session of its own, and computes the page from what it got.

### `RelationshipProjection`

What is computed, as operators without state.

| TLA+ | Code |
|---|---|
| a claim `<<text, person>>`; `TextOf` | a claim with its qualifiers: the lane it comes from, what it names, the period it is about (`held`) and the units it states it in |
| `Period`, `Bounds`, `Overlap` | the periods of `extract_affiliation`, `_biography_bounds`, `temporal_overlap` |
| `Candidates`, `Lookup`, `Bind` | `OrganizationRegistry`: names with a tier, spans of a line, ambiguity |
| `Vias`, `Affiliations` | `extract_affiliations`: committees and their crosswalk to organizations, parties, disclosures, witnesses, schools, careers, historical terms |
| `Derivable`, `Derived`, `Relations` | `derive_pair`, `relations_for_person`, the loop of `compare_payload` |
| `Cosponsors`, `Moves` | `cosponsorship_pairs`, `career_transitions` |
| `Edges`, `Turn`, `Met`, `Chain`, `Search` | `shortest_evidence_path`: the graph, a turn of its loop, what has been met when it ends, the chain read backwards |

`held` is what the text is about and is in no database: it is there so that a property can compare what
is concluded from a stated period with what was the case. Days are numbers; months and years have a
fixed number of days. `SourcesAssumption` says what it means that a source is true: a list holds on the
day it is of, an activity recorded as going on went on, and there is a day of every capture on which all
that it lists held. A capture is a complete run of a roster, the receipt of a disclosure, or an
institution on a day; only of a run that goes past midnight would that be more than its key says. A name is a model value, and so are the spans of words of a career line.

### `RelationshipGraph`

| TLA+ | Code |
|---|---|
| `db` | committed rows: published claims, who is active, who was made from a source context, organizations, witness lists, audit targets, classifications |
| `request`, `view`, `answer` | a request, what it has read so far (`load_relationship_graph`'s locals), its response |
| `view.left`, `AtOnce`, `Portions` | the keys a read of several statements has still to ask for: `current_claims_by_ids` and `published_bill_participants` take 1,000 keys to a statement, each statement a moment of its own at READ COMMITTED |
| `registry` | `_registry_cache`, kept for ten minutes across requests; `Expire` is the ten minutes |
| `Check`, `ReadPeople` … `ReadParts` | `person_or_404` and the reads, in the order of the code, one session each; `published_bill_participants` reads a person's bills in one statement and then everybody's part in them, so many bills to a statement |
| `Answer` | `person_relationships_payload`, `compare_payload`, `shortest_evidence_path` |
| `Publish` … `CorrectList`, `WithdrawClassification`, `WithdrawTarget` | what operators commit beside a request, in the parts a page can see |
| `Found`, `ImportClassified`, `ImportList`, `ImportTarget` | `import_organization_batch`, the ALIO importer, the importer of witness lists, `import_organization_claim`: organizations and the claims about them. A batch is a step for each; every read of a request sees the rows before or after such a step, and more in between than the program shows |
| `seen` | history: the database at every moment since the request began |

**Properties.** `RelationsWereCurrent`: the claims behind each relation and move, and those by which a
pair took part in one bill, were published together, of people who stood, at one moment of the request,
whatever commits in between. It holds because people's claims come from a single statement, which is all
that keeps a person from being related to the one he was merged into, and the parts in one bill never
come from two. Of a pair's bills together nothing of the kind holds: with more bills than go into a
statement, a pair may count a bill that was withdrawn before the next one was published, and the model,
with `AtOnce = 1` and two bills, goes through that. Links, lists, names and organizations are read at
other moments too, and the answer may mix them. `PathIsShortest`: over what was read, a chain is given exactly when
there is one within the edges asked for, and none is shorter (the reference counts balls around the
origin, without a queue). `PeriodsAreHonored`: an overlap is one, and a move was made in that order,
whatever the units. `OverlapIsReal` is the promise of the code's docstring and fails (finding 3).

## 10. Collections of a universe

### `UnitCollection`

Twelve enumerators. Nine differ from those of section 3 in that they first read what there is to collect, the
*universe*, and then go through it in steps; three go through the pages of a list like those of
section 3, each with another idea of what may be resumed. All write through the same three transactions.
`lane` says which enumerator a behaviour is of:

| Lane | Worker | Universe | A step | Carried by the checkpoint | Resumes when |
|---|---|---|---|---|---|
| `EXECUTIVE` | `public_institutions.py` | directory of institutions | an institution, with its disclosure or none | one disclosure an institution | the directory is the same |
| `CORPORATE` | `corporate_talent.py` | directory of corporations | a corporation | how many had executives, and how many none | the same, and the two add up to the cursor |
| `EXPENSE` | `alio_business_expense.py` | directory with report numbers | one of the selected institutions | a report row each | the directory, reports included, is the same |
| `GRAPH` | `assembly_meeting_graph_enumeration.py` | pages of the meeting lists | a meeting, in two or more pages | the meetings whose pages name a bill twice, differently | the fingerprint of all meetings is the same |
| `REVIEW` | `assembly_subcommittee_review_enumeration.py` | pages of a list | a page, with the bills whose last row is on it | the number of packets | every bill has the same rows on the same pages |
| `MPM` | `mpm_key_positions.py` | the attachments of a release | an attachment | the hash of each | every attachment before the cursor is fetched again and has its hash |
| `MEETINGS` | `assembly_meeting_universe.py` | pages of a list | a page, with the meetings first seen on it | nothing | never |
| `MEMBERS` | `assembly_committees.py` | pages of a list | a page | the rows so far | never |
| `BIOGRAPHY` | `assembly_member_biographies.py` | pages of a list | a page | the rows so far | never |
| `BILLS` | `legislative_activity.py` | none | a page | the rows of each page | the page size is the same |
| `GAZETTE` | `gwanbo_personnel.py` | none | a page | the rows of each page | always, with any page size |
| `CODES` | `mois_organization_codes.py` | none | a page | how many rows, their hash, a hash of each page | before the first success, the page size is the same and just these rows are stored |

| TLA+ | Code |
|---|---|
| `listing`, `content` | the provider: its list, some units repeated in it, and what it answers for each (external) |
| `runs`, `checkpoint`, `stored` | `source_runs`, the `source_checkpoints` row, `feeder_observations` |
| `worker[w]` | the locals of `enumerate()`: the checkpoint it found, the universe it has read, cursor, what it holds, the unit in hand, its budget |
| `ReadCheckpoint`, `StartRun` | the read of the checkpoint, before the run is opened; `start_source_run` |
| `ReadDirectory`, `ReadPage` | one document; or page after page, each stating the total, which may not change |
| `ReadRuns` | the codes look for an earlier success before the run is opened |
| `BeginStream`, `FetchPage` | what a streamed lane resumes from, and its next page, tested against all pages before it |
| `Begin` | the lane's demands of the universe (`Sound`), and of the checkpoint (`Resumes`) |
| `CommitDirectory` | the first page transaction of the directory lanes, which sets the cursor to 0 |
| `Verify` | a resumed MPM run fetches what was completed |
| `Fetch`, `CommitPart`, `CommitStep` | the next unit, and its page transactions |
| `Test`, `Finish`, `Raise` | the last test (`Whole`), the status, the except clause |
| `Crash`, `Exit` | the process dies or ends |
| `Amend`, `Relist` | the provider changes a unit or its list |

The observations of a resumed run belong to whichever run committed them, and a checkpoint to whoever
wrote it last. Nothing keeps a second process of a lane away. `Page` is therefore as blind as
`commit_source_page`: it writes the checkpoint over whatever is there.

**Properties.** `CheckpointBacked`: what a checkpoint says of the steps before its cursor is so, since a
resumed run fetches nothing before it. `RunCovers`: a completed run, also one resumed from another run
over another reading of the universe, has stored all of the universe it read. `SuccessIsWhole`: the
checkpoint of a run that succeeded is at its end, and those who use the collection (`ImportAccepts`,
`BatchAccepts`, `RolesAccept`, `BiographiesAccept`, `ActivityAccepts`: the importer of organization claims,
the source-context batch, the publishers of committee roles, biographies and bills) accept it. The batch is asked for less than
the others, see the observation on `records_seen` in section 13.

## 11. Runs

| Run | Constants | Shows |
|---|---|---|
| `ingestion_resume` | 1 worker, 4 keys, 1 content, page sizes 2 and 3, 3 runs, 1 crash, steady provider, fairness | `AcceptedIsExact`, `SuccessUsable`, `RunsClose` |
| `ingestion_race` | 2 workers, 2 keys, 2 contents, page size 1, 3 runs, 1 change of the provider | `TypeOK`, `SuccessCovers`, `ManifestUnambiguous`, `ArchiveSpec` |
| `admin_operators` | 1 operator with 5 requests from `Fresh` (of the reviews only `EXCLUDE`) and from `Twins`, with the batch; 2 operators with 3 requests from `Revised`, single targets, and 1 who publishes, corrects, withdraws and merges there in batches of 2; from `Known`, without `CORRECT_CLAIM`, 2 operators with 3 requests and the batch, 2 who publish and withdraw in batches of 2 with 2 requests, and 1 who also links in batches of 2 with 3, beside the batch | `TypeOK`, `IdentitiesDistinct`, `PublishedIsBacked`, `CorrectionReplaces`, `SourceNotWithdrawn`, `MergeKeepsPublic`, `PreviewHonored` |
| `admin_cascade` | 1 operator, 2 requests | `LinkedHasSource` fails: finding 1 |
| `assembly_serial` | 2 runners, 2 records, the first with two versions, 4 people, 3 commands, `Overlap = FALSE` | `TypeOK`, `OnePersonPerKey`, `NamesakesReviewed`, `ReviewAnswered` |
| `source_context` | eight sites, with 1 or 2 processes at a time, up to 4 jobs, 3 commands, 2 collections | `TypeOK`, `RecordLinkedOnce`, `OnlyShownWrites`, `NewcomersAreNew` |
| `organization_import` | 2 importers, 2 versions, 3 launches, 2 collections, 2 edits, three installations with and without overlap | `TypeOK`, `BoundOnce`, `CommitComplete`, `LedgerSpec` |
| `roll_call` | 2 bills, 2 members, 2 schedulers, 2 collectors, 1 kill, four installations, fairness | `TypeOK`, `OneCollector`, `AcceptedCovers`, `ClaimsSound`, `PublicationComplete`, `LockReleased` |
| `roll_call_stale` | 1 collector, 1 bill amended and amended back, 3 runs | `PublishedFromLatestRun` fails: finding 2 |
| `relationship_graph` | 3 people, months of 2 days and years of 2 months, four installations: oversight with 1 request and 2 edits (a page over the committee, a page over the bills, a path over the committee) or, over all of it, 2 requests and 1 edit; stated periods, 9 texts in every combination of three; named careers and schools, 13 texts likewise; chains with 1 to 8 edges asked for; one key to a statement | `TypeOK`, `RelationsWereCurrent`, `PathIsShortest`, `PeriodsAreHonored` |
| `relationship_overlap` | the same installations | `OverlapIsReal` fails: finding 3 |
| `unit_collection` | twelve lanes, each with 1 worker, 3 runs, 1 kill and 1 change, and with 2 workers, 2 runs and 1 change; those that resume also with 3 runs and 2 changes; 2 or 3 units | `TypeOK`, `CheckpointBacked`, `RunCovers`, `SuccessIsWhole` |

**Why the bounds are enough.** *Ingestion*: four rows make two pages at
page size 2 and at page size 3, so a resume with the other size passes the count of pages and has to be
caught later, on boundaries that do and do not line up, with a full and with a short last page; three runs
give a run, its resume and a run from the start, or two racing runs and a third that meets what they
left. One change of the provider is enough to put two versions of a key on two pages. *Workflow*: a
stale preview needs two operators; a registered row, its link and a publication need three requests, a
merge after a rename fewer from `Twins`; batches of two have a first and a second target in both
orders. *Materialization*: two records with one name and contradictory birth dates reach every branch
of `decide_materialization`; the longest way to a case the properties tell apart (a provider key whose
person has no birth date: register, rename, merge) takes three commands, and four people are one more
than it makes. *Source context*: a receipt goes stale by one command, one collection or one commit of the
other lane; a dry run, its commit and a second pair need four jobs, two of them at a time put every query of one between any two of the other; to make, take down and link again what one record lists takes two commands and a collection. *Organizations*: a race needs two
importers, a third launch finds what they left; an operator's withdrawal and restoration, or a
withdrawal and a correction, are two edits. *Votes*: with two bills a cursor stands before, between and
after them; with two members a publication stops half-way; two runs are a run and its resume. *Pages*: a
relation has two ends, and a third person makes a chain with a person in the middle; one edit falls
between every two reads, two make a withdrawal and a publication, or a merge and a correction, inside one
request; a year of two months and a month of two days are the smallest in which rounding to each unit
differs; one key to a statement puts two bills of a person into two; edges asked for run from one to the eight of the default, and the longest chain has six.
*Collections*: three runs are a run, its resume, and a run over what the provider has by then; two changes
are a change and its reversal, so that an old checkpoint fits again; two workers share the one checkpoint;
the lists a provider turns to hold what each lane tests: repeated, moved, missing and new units, and none.

`CHECK_DEADLOCK FALSE` stands where requests, runs or changes are bounded: those systems really stop.
`AssemblySerial.cfg` needs no such line, since a roster may always be enumerated again. Symmetry is
used over keys, contents and workers, over operators, over runners and over importers, none of which any
initial state or property tells apart; the runs with fairness use none.

**Fairness.** In `SourceIngestion`, `FairSpec` asks for weak fairness of `WorkerStep(w)`: an enumerator
that has started is a sequential program, whose HTTP calls have a timeout and whose transactions end,
and which has its own process. Nobody is obliged to start one (`ReadCheckpoint`), an exception is never
obliged to occur or not to occur (`StepRaises`), and crashes are not fair. Paging ends because a page is
accepted only when it holds rows never seen in the enumeration, and a total that changes aborts it. In
`RollCallVotes` it is, for each scheduler, weak fairness of going on with its job, of ending the wait
for its child, and of leaving: `subprocess.run` has a timeout, after which the child is killed, so the
wait ends whether or not the collector does. No collector is obliged to make progress.

## 12. Proofs

| Module | Theorem | States |
|---|---|---|
| `SourceIngestionProofs` | `TypeInvariant` | `TypeOK`, and `Ownership` |
| | `ManifestsAreStored` | `Spec => []ManifestStored` |
| | `ManifestsAreUnambiguous` | `Spec => []ManifestUnambiguous` |
| | `SuccessIsCovered` | `Spec => []SuccessCovers` |
| | `AcceptedRostersAreExact` | `Spec => []AcceptedIsExact` |
| | `SuccessesAreUsable` | at most one worker: `Spec => []SuccessUsable` |
| | `ImplementsArchive` | `Spec => ArchiveSpec` |
| `RollCallVotesProofs` | `ScheduleTypes` | `ScheduleSpec => []ScheduleTypeOK` |
| | `LockHolds` | `ScheduleSpec => []OneCollector` |
| | `CollectorsExclude` | `Spec => []OneCollector` |
| | `AcceptedIsCovered` | `Spec => []AcceptedCovers` |
| | `ClaimsHold` | `Spec => []ClaimsSound` |
| | `VotesTypes` | `Spec => []TypeOK` |
| | `PublicationsAreComplete` | `Spec => PublicationComplete` |
| `SourceContextBatchProofs` | `CommitsAreFresh` | `Spec => []Inv` |
| | `ShownIsAllThatIsWritten` | `Spec => OnlyShownWrites` |
| | `BatchTypes` | `Spec => []TypeOK` |
| | `RecordsAreLinkedOnce` | `Spec => []RecordLinkedOnce` |
| | `BatchMakesNewcomers` | `Spec => NewcomersAreNew` |
| `OrganizationImportProofs` | `ImportTypes` | `Spec => []TypeOK` |
| | `RecordsBoundOnce` | `Spec => []BoundOnce` |
| | `CommitsAreComplete` | `Spec => CommitComplete` |
| | `ImplementsLedger` | `Spec => LedgerSpec` |
| `AssemblyMaterializationProofs` | `MaterializationTypes` | `Spec => []TypeOK` |
| | `KeysHaveOnePerson` | `~ Overlap`: `Spec => []OnePersonPerKey` |
| | `NamesakesAreReviewed` | `~ Overlap`: `Spec => []NamesakesReviewed` |
| | `ReviewsStayAnswered` | `~ Overlap`: `Spec => []ReviewAnswered` |
| `AdminWorkflowProofs` | `WorkflowTypes` | `Spec => []TypeOK` |
| | `IdentitiesAreDistinct` | `Spec => []IdentitiesDistinct` |
| | `PublishedAreBacked` | `Spec => []PublishedIsBacked` |
| | `SourcesAreNotWithdrawn` | `Spec => []SourceNotWithdrawn` |
| | `MergesKeepPublic` | `Spec => MergeKeepsPublic` |
| | `PreviewsAreHonored` | `Spec => PreviewHonored` |
| | `CorrectionsReplace` | `Spec => CorrectionReplaces` |
| `RelationshipGraphProofs` | `PagesAgree` | the pages of two people and their comparison relate them alike |
| | `StatedOverlapIsReal` | a verified overlap of two stated intervals is one |
| | `StatedMovesAreOrdered` | a move stated to the month was made in that order |
| | `AnswersAreCurrent` | `Spec => []RelationsWereCurrent` |
| | `PageTypes` | `Spec => []TypeOK` |
| | `PathsAreShortest` | `Spec => []PathIsShortest` |
| | `PeriodsHold` | `Spec => []PeriodsAreHonored` |
| `UnitCollectionProofs` | `CollectionTypes` | `Spec => []TypeOK` |
| | `CheckpointsAreBacked` | `Spec => []CheckpointBacked` |
| | `RunsCover` | `Spec => []RunCovers` |
| | `SuccessesAreWhole` | `Spec => []SuccessIsWhole` |

They hold for every number of processes, rows, bills, members, people, operators, targets of a batch and
edits, under the named assumptions of the modules: page sizes are positive and bounds are naturals, bills
are finitely many numbers, `None` is no record; a calendar has months and years of any length; names and
versions of organizations are finitely many, and each import has its lane, namespace and names
(`FiniteAssumption`, `JobsAssumption`, `ScenariosAssumption`); an observation has a record and a name;
requests are finitely many and name what they make, which no earlier row is named after
(`IdsAssumption`), and an office starts in a database that operators and importers could have left
(`OfficesAssumption`: `Consistent`, `Versioned`); so does a site of the batch, whose rosters list rows of their own
scope, whose rows are finitely many and whose records are linked once (`SitesAssumption`: `Sound`, `LinkedOnce`, `RowsAreFinite`); the units of a collection are numbers, each named once in what a lane selects
(`UnitsAssumption`, `NamedOnce`), and a provider lists what it publishes (`InstallationsAssumption`: the
list may repeat units, and change); a database of claims starts with finitely many rows, claims of people
who stand, a request bounds its path by a natural number, a witness list is of an organization and a
statement takes some keys (`StartsAssumption`: `Backed`, `ListsAssumption`, `StatementsAssumption`). A source is true (`SourcesAssumption`, used by `PeriodsHold` alone: what the code makes of a text
can only be right if the text is). TLC evaluates each of them for the instances it runs. Two
hypotheses are of single theorems, and say what the theorem needs and another reading of the code lacks:
`~ Overlap` (section 5) and one worker at a time (below).

**`SourceIngestionProofs`.** The invariant is built in three layers.

1. `IndType == TypeOK /\ Ownership`. `TypeOK` alone is not inductive: a page commit writes
   `runs[worker[w].run]`, so the type of `runs` depends on every worker that opened a run owning an
   existing one. `Ownership` says that it does, that the run is still RUNNING (`OwnsRunning`), that
   nobody else owns it (`OwnsAlone`), what a worker in each phase holds (`LocalState`), and that the
   checkpoint names a run that exists (`LastRunExists`).
2. `Carried`. Manifests exist in three places: the checkpoint, the copy a worker read before opening
   its run, and the pages it carries. All satisfy the same predicate: stored, one version a key, and,
   as long as the provider has not changed, part of its roster with its total. Without the second and
   third place the first is not inductive: a worker writes its own copy over the checkpoint, however
   old.
3. `Coverage`. `SuccessCovers` is about a status written in another transaction than the pages. What
   makes it inductive is that a worker in phase `covered` whose run is still the checkpoint's last
   writer finds the checkpoint covered; `OwnsAlone` then shows that no other worker's commit or
   finish interferes.

`AcceptedRostersAreExact` combines them: on a steady provider the manifest is a subset of the roster,
and covering means that its size is the reported total, which is the roster's; equal sizes make equal
sets. `SuccessesAreUsable` adds `Tallies`: a run's `seen` and the rows of the pages behind the cursor it
recorded make up what that many pages hold, which is how the NEC context recognizes a resumed run that
covered its scope. The cursor is recorded by `start_source_run` and the pages are counted from the
checkpoint read before it; with two workers these may differ, so the theorem is about one worker (any
number may run after each other, die and resume), with a provider that changes as it likes.
`ImplementsArchive` maps `CommitPage` to `Record`, `FinishRun` of the checkpoint's last run to
`Trust`, and every other step to a stutter.

**`RollCallVotesProofs`.** The first part is about `ScheduledAcquisition` alone. `OneCollector` is about collectors alone; what keeps them apart is the
relation of lock, phase and child that `LockInv` states: who is not idle made the file; without a file
nothing runs; the holder's phase says what may run. It holds until somebody goes round the lock.

Each step of the votes is a step of the schedule or leaves it alone, so
`LockInv` carries over (`CollectorsExclude`). `CoverInv` follows the cursor: the checkpoint's exceptions
are those of the bills before it, and so are a running collector's, which is what a resume trusts.
`SoloInv` and `TimesInv` add what holds where collectors did not overlap. `ClaimInv` is about rows: two
current claims of one member and bill would have to come from two publications, the second of which
looked. The publisher's choice of the newest row needs a least element of a finite set of numbers, which
comes from the well-foundedness of the naturals rather than by induction.
`VotesTypes` needs `WorkTypes` besides: a collector writes to a run that is stored, and the checkpoint it read
names one. `PublicationsAreComplete` rests on `OwnInv`: an open run has one collector and is RUNNING, so
nobody writes in the name of a run that succeeded (`SuccessIsFinal`); a checkpoint that still names the
publication's run is therefore the one its rows were read from. `PubInv` and `Imported` follow the
members: who has been visited has been imported, who was read last is about to be.

**`SourceContextBatchProofs`.** `OnlyShownWrites` compares rows before and after a write with a receipt
printed long before. Its invariant `Inv` says that a job with a receipt holds the locks, and alone
(`JobInv`, `LockInv`), that the queries behind a job are the first of the list (`InOrder`), and that each
answer the holder of the locks has got is what the tables say now (`FreshInv`): the locks keep every
writer out from before the first read. The step of a query is where the session's cache matters:
`Fetched` looks at answers given before, and `FetchedIsCurrent` shows that with nothing written in between the cache
changes nothing. Once everything is asked (`AllAsked`), verdicts and totals are those of one state
(`CountedIsCurrent`), and with `Matches` they are what the receipt showed.

The other three need to know what a verdict is made of. It is the first true case of three joined lists
(`FirstOfThree`, `AlioChain`, `NecChain`), so that each lemma on verdicts looks at one list, and
`DueRows` turns the verdict of a view into facts about the tables. `BatchTypes`
needs, of each command of the operators, that it writes to one target and keeps the batch's rows, links
and claims in step (`Formed`, `Kept`); only commits make such rows, all three parts at once (`SoundInv`);
`RosterInv` (a scope lists rows of its own, all collected) keeps the two lanes' rows apart.
`BatchMakesNewcomers` is about versions of one record that another job collected: `ReadInv` says that a
job reads each scope once, and so knows, once it has compared the scope with what is stored, of any two versions in what it has read; `TwinInv`, that a commit
with the locks knows of every version some packet was made of or somebody was linked to (`Unused`), since both are of collected rows
and a version stored later is not yet used. `RecordsAreLinkedOnce` combines the two with the
operators' own guard: a command links a row without links and without versions (`CommandOfOne`,
`OneMoreLink`), a merge ends a link for each it makes (`MergeLinks`), a batch links rows no version of which is used (`PersistLinks`).
That a commit makes as many persons as its receipt counted is counting: `TotalsGrow`.

**`OrganizationImportProofs`.** `BoundOnce` says that a record has one current claim, but no commit looks
for one: an importer inserts what its plan found missing, and the plan was made from reads that are over.
What makes the invariant inductive is `VersionsAgree`: every claim stored, or planned by anybody, is of a
version that was collected, and all those of one record are of one version, because each plan was refused
unless its record had a single version, and versions are never forgotten. With it two plans of one record
are one plan, and the identifier derived from it is the same. `WriteSound` carries the plan through the
insert that loses a race and looks again, `Serial` says what a transaction's reads are worth where none
overlap. `CommitsAreComplete` is an action property of `Safe`; `ImplementsLedger` maps a commit to the
entry of all its items, an operator's edit to a change of standing, and all other steps to a stutter.

**`AssemblyMaterializationProofs`.** `RowsKept` is the type invariant with the references between rows
(links and reviews name people that exist, ids are consecutive), and holds with overlap. The other three
theorems are about `SerialInv == Reads /\ Identities`. `Reads` says that at most one runner is inside a
transaction and that what it has read is what the rows say now, which is what the rule of serial mutation
buys. `Identities` strengthens the properties to rows: the live links of a record key are of one person
(`OneLink`, where the property counts people), an observation has one live link (`OneRow`), and a
resolved review made one person and is cited as long as it is the last (`Answered`). An earlier
`ReviewAnswered` asked every resolved review for a live link. The proof does not go through where a
deactivation rejects a later review of the observation and not the resolved one; that takes more commands
than the run allows. The property now asks it of an observation's last review, and at most one of others.

**`AdminWorkflowProofs`.** Three invariants, one above the other.

1. `Safe` has `Consistent(db)`: the four state properties, and `Grounded`, what is known of where a claim
   comes from (a linked claim restates a witness listing, which is never about a person). The properties
   need each other: a merge keeps names distinct because a merged person is no longer active, and keeps
   claims backed because each row has one owner. `Unmade` says that no request without a receipt has
   made a row, so that ids are new. `PublishedAreBacked` and the others are parts of `Consistent`;
   `MergesKeepPublic` follows from what a merge does to a consistent database.
2. `InOrder` adds `Versioned(db)`: the original of a published correction is not current, and the current
   corrections of one claim are of one subject, that of the claim while it is current. The second part is
   what carries a merge: all versions of a claim move to the survivor at once, or none does. Every step
   is shown to `Succeed`: it keeps `Versioned`, and publishes a correction only by ending an original
   that was current, so that no correction in public can be of the same one.
3. `Honest` says of each preview on a desk that *some* consistent database, with the reads the preview
   recorded, would be changed as the preview shows. `PreviewsAreHonored` needs no more than that and
   `PlanShows`: two consistent databases that read the same for a command are changed the same by it.
   This noninterference lemma is the claim the code's state hash rests on, that no plan uses a row
   it did not record; it has one lemma per action (`PublishAlike`, `MergeAlike`, ...).

A command's effect is a recursive function over the targets of its batch. What it keeps is shown of one
target on a database that the earlier ones have partly written; the batch then follows from `CountUp`,
an induction by least counterexample, which comes from the well-foundedness of the naturals since the
library's induction theorems cannot be instantiated.

**`RelationshipGraphProofs`.** The first three theorems are about the projection, for any claims.
`PagesAgree` needs that `derive_pair` is symmetric, which rests on different people having different ids
and on exactly one side of a witness relation being a committee member. The two `Stated` theorems need
that moving a start to the end of its unit and an end to the beginning of its own leaves an interval
inside the period it is about. `AnswersAreCurrent` is about requests: `RelationsWereCurrent` is not
inductive, since it says nothing of a request that has not answered. The invariant adds `Moments` (at
every moment since the request began, published claims were of people who stood), `ReadTogether` (the
claims read so far, and the parts in each bill, stood at one of those moments), `Unread` (no part is read
of a bill still to be asked for, so a later statement adds nothing to a bill of an earlier one) and
`Answered` (an answer is the page of what was read); `PageClaims` then shows that every statement of a
page rests on claims of one read, or on parts in one bill. `PageTypes` adds `Reads`: which of a request's reads are behind it at each stage, and that the links
it read follow the organizations it read.

`PathsAreShortest` comes down to the search. `SearchIsShortest`: for any finite set of edges of two ends
each, any two people and any limit, what `Search` returns is `Shortest`. Its invariant `Search1`, of a turn
of the loop, says of some measure `d` of the nodes met that each but the origin was met over an edge from
a node one nearer (`Measured`), that the queue is in the order of `d` and spans two values of it
(`Queued`), and that whatever left the queue is no further than what is in it, is not the target, and has
its neighbours met (`Explored`). `TurnDoes` keeps it and counts turns that were not in vain, so that as many
turns as there are nodes end the loop (`SearchEnds`); `ChainIs` reads the path off `previous`, `MetWithin` and
`WithinMet` compare the measure with the balls of the property. The inductions are over numbers, by
least counterexample (`CountUp`). `FewEdges` then says that finitely many claims and links make such
a graph, which is why the invariant also follows the links to a moment, and databases have finitely
many rows.

`PeriodsHold` rests on `SourcesAssumption` and on two lemmas of every lane: the interval that is used lies
within the period a text is about (`IntervalHeld`), and so does the day of a list, unless the text is a career line
that does not go on (`AsOfHeld`). `OverlapHeld` and `MoveHeld` draw the conclusions. What remains, the career line
that was over, is finding 3.

**`UnitCollectionProofs`.** One invariant for twelve lanes, any number of processes among them. It rests on
one predicate, `Backed`, of a cursor, of what is held and of a universe: the steps before the cursor are
stored. What that means is the lane's own: a manifest that names each unit once (`Manifest`), two counters
(`Tally`), meetings with their conflicts (`Graphed`), packets of rows (`Reviewed`), the rows so far
(`Kept`), pages without a common key (`Streams`). A lemma for each says that one step keeps it
(`ManifestAdds`, `TallyAdds`, `GraphedAdds`, `ReviewedAdds`, `KeptAdds`, `StreamsAdd`), another that what is
stored meanwhile does not disturb it (`BackedGrows`). `CheckpointBacked` alone is not inductive, since the
checkpoint is not the only place: `IInv` is the conjunction of

1. `SiteInv` and `OwnInv`: what the provider lists it has, and a run that is open has one process and is
   RUNNING;
2. `WorkInv` (`Apart` of each process) and `SealInv` (`Sealed`): `Backed` holds of what a process has in
   hand, of the copy of the checkpoint it read before it started (`prior`, however old), and of the
   checkpoint; and a unit that was fetched is the next of the plan (`Next1`);
3. `SameInv`: a checkpoint whose last writer is still going says what that process has. It is what a success
   is about: a run ends in a transaction of its own, and another process may have written the checkpoint
   in between, but then it names that process's run;
4. `SeenInv` and `EndInv`: a run from the start has seen every disclosure its process holds, and so has
   the checkpoint of one that succeeded.

A resume is the step that needs most: the universe that the process has read must be the one the
checkpoint is backed over, which is what each lane's comparison is for (`BackedAgain`). In the graph lane
the plan is the meetings in the order of their numbers, by rank, so that the meetings before the cursor are those with
fewer than `cursor` below them (`Ranks`, `MeetingsBelow`); the fingerprint is a set and has no order of its own.
`RunCovers` then reads `Backed` at the last cursor, and `SuccessIsWhole` reads `EndInv`.

Only model-checked is liveness (`RunsClose`, `LockReleased`), which takes fairness and ENABLED, out of the prover's
reach; every invariant and every other action property that a run checks is a theorem. `LinkedHasSource`,
`PublishedFromLatestRun` and `OverlapIsReal` fail (section 13).

## 13. Findings

1. `admin_cascade`: publishing a correction of a witness list claim supersedes and withholds the
   original, but leaves in public the person claim that restates it, which `WITHDRAW` takes along:
   "it cannot outlive its source" (`admin_workflow.py:1284`).
2. `roll_call_stale`: a vote that is amended and amended back is published in the amended version,
   since a stored version keeps its first `recorded_at`. `assembly_plenary_votes.py:218`: "from the
   latest complete term run".
3. `relationship_overlap`: a career line carries the day its biography was recorded as its `as_of`, and
   an `as_of` inside the other person's interval verifies an overlap, so a job that was over long before is
   said to overlap. `relationship_projection.py:755`: "Overlap is VERIFIED only from shared capture or two
   fully known intervals"; the limitation each page carries (`relationship_graph.py:264`) says that
   an affiliation of unconfirmed period makes no overlap.

Also met while modelling, and in the models as the code has it:

- An institution that files a second disclosure keeps its first classification published beside the
  second, and both lists of executives (`alio_current_executive_claim_import.py:258`;
  `docs/exec-plans/completed/alio-organization-executive-content-activation-v1.md:50` has "one institution-level Claim
  per organization").
- The scheduler appends `--resume` to arguments that exclude it, and the collector exits
  (`scheduled_acquisition.py:224`; `docs/operations/SCHEDULED_ACQUISITION.md:38` has "rerun one job with `--only
  <job> --resume`"). `Refuse` in `ScheduledAcquisition` is that step.
- Two career lines stated to the year give a move although nothing says which came first: an end in
  a year is kept as its first day, a start as its last, and the months of the two differ.
- `NOT_OVERLAPPING` is no more than that the shrunken intervals are disjoint: the periods may overlap.
- Two committee codes of one name are joined where one organization is named after it (`Crosswalk`).
- Co-sponsors are not held against `public_people`: the page can name a person it has no name for.
- A path may lead from a witness to another of the same committee, whom no relation joins.
- The registry keeps the name of an institution for ten minutes after its classification was withdrawn.
- A roster in which one row leaves and another joins keeps its total, and a run over it ends SUCCESS
  without a row that slid to a page already fetched.
- A person made from a record without a birth date is linked to later versions whose dates contradict
  each other, because AUTO_LINK compares with the person's date and never fills it in.
- One PUBLISH of a correction and of its own withdrawn original sets the original back to PUBLISHED when
  its id sorts last, and one PUBLISH of two drafts that correct the same original publishes both: the
  guards of a batch read committed rows. `CorrectionReplaces` allows both: the original is superseded all
  the same, and the two corrections are of one command.
- A deactivated member is created and published again by the next Assembly pass
  (`repository.py:917`; `docs/operations/OPERATOR_CONSOLE.md:91` has "Deletion means public removal/deactivation").
- A deactivation rejects only the latest review of an observation (`admin_workflow.py:375`): an older one
  that was resolved stays resolved, without a live link.
- A resolution that is repeated after its person was merged into another is refused, although the
  survivor's link cites the review: the action of that link is no longer `REVIEWED_CREATE`
  (`repository.py:1272`).
- A vote that changes after its claim was corrected is published as a second claim beside the
  correction, where `ASSEMBLY_ROLL_CALL_VOTE_FEEDER.md` has "A changed vote for the same bill fails
  closed for review".
- A NEC commit may make two people of one name out of two candidates of its own
  (`FEEDER_SOURCE_COVERAGE.md:107` has "no-Person-name-collision subset"), and the Assembly pass, which
  takes no lock, may add a namesake of somebody a batch just made.
- The hash of a witness plan covers `organization_action`, so a rerun after the committee was created is
  refused (`docs/operations/MODUIGUKGAM_SITES_DEPLOYMENT.md:198` has "Reruns are idempotent"), and a
  corrected witness list can be published again under the committee's other organization.
- One withdrawn or corrected claim makes a whole ALIO import refuse.
- The source-context batch holds the `records_seen` of the last run against the whole manifest
  (`alio_person_materialization.py:286`), which a run that was resumed late in the collection never reaches.
- A meeting whose pages are being committed when its run is killed keeps the conflict found then, also if
  the next run finds none: `bill_conflict_meetings` may name a meeting without a conflict, never omit one.
- The last test of the ALIO and OpenDART enumerators reads the checkpoint back, whoever wrote it; those of
  meeting graphs, reviews and lists read nothing back, and MPM tests only what it holds itself.

## 14. Limits

- Pages: the filters on layers and relation types, `limit_per_via`, labels, roles and evidence ids are left
  out, the gate and the policies are taken to admit every published claim, evidence is immutable,
  and neighbours of a node are taken in a fixed order that is not the code's.
- Data is abstracted: names, hashes, dates and packets are model values. What a parser or a normaliser
  makes of a response, what an evidence packet holds, and how a claim is worded are not modelled.
- The clock is not modelled: the five minutes of a preview token are `Close`, which may happen at any
  time; `recorded_at` is a number that grows with each version built.
- SQL is modelled by its transactions. `CommitPage`, `CommitBill`, `Commit`, the locked writes of a
  source-context commit and the serial transactions of materialization are atomic; at READ COMMITTED,
  where the code relies on a unique constraint, the loser's transaction raises and rolls back
  (`StepRaises`, `Collide`). Everything a process holds between two transactions is in separate steps.
- In `admin_operators` two operators on `Revised` take single targets, and one there takes batches;
  `CORRECT_CLAIM` is offered to no race on `Known`. `LinkedHasSource` fails (finding 1); what holds of it is
  `SourceNotWithdrawn`. `assembly_serial` assumes transactions do not overlap (see 5).
- Four modules have the operators' tables, and each has the others' effect on them as actions:
  `Materialize` in `AdminWorkflow`, `Command` in `SourceContextBatch` (the same operators), `Register`,
  `Rename`, `Deactivate` and `Merge` in `AssemblyMaterialization`, `Withdraw`, `Restore` and `Replace` in
  the importers. They are not composed into one state space.
- Collections: a page of a list has one row, except for the streamed lanes; the yearly lists of meetings are one list; a directory is
  fetched in one step; an institution has one disclosure or none, and those that only correct an
  earlier one are not told apart; committees of MEMBERS and the years of MEETINGS are not partitions of their own.
- Liveness under fairness, `ENABLED` and induction over recursive data stay with the model checker.
