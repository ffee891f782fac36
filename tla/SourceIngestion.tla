-------------------------- MODULE SourceIngestion --------------------------
(***************************************************************************)
(* Batch ingestion of one paginated provider roster: the enumerator of     *)
(* workers/local_elections.py and the run, page and checkpoint operations  *)
(* of packages/persistence/repository.py it drives.                        *)
(*                                                                         *)
(* Several worker processes may enumerate the same (feeder, scope).  They  *)
(* share nothing but the database; each database operation is one          *)
(* transaction and so one action, everything else a worker holds is local  *)
(* and lost in a crash.  The provider may change its roster at any time.   *)
(* A row stands for a provider record: its key and its content hash.       *)
(***************************************************************************)
EXTENDS Naturals, Sequences, FiniteSets

CONSTANTS
  Workers,      \* enumerator processes
  Keys,         \* provider record keys (huboid, MONA_CD)
  Hashes,       \* content hashes of normalised records
  PageSizes,    \* page sizes an operator may pass on the command line
  None,         \* Python's None
  MaxRuns,      \* bound: source runs ever started
  MaxCrashes,   \* bound: worker crashes
  MaxDrifts,    \* bound: changes of the provider's roster
  MaxRows       \* bound: rows the provider lists

ASSUME BoundsAreNaturals ==
  /\ PageSizes \subseteq Nat \ {0}
  /\ MaxRuns \in Nat /\ MaxCrashes \in Nat /\ MaxDrifts \in Nat /\ MaxRows \in Nat

Row == [key : Keys, hash : Hashes]
Status == {"RUNNING", "SUCCESS", "PARTIAL", "FAILED"}
Phases == {"idle", "start", "fetch", "commit", "covered", "failed"}

VARIABLES
  rows,          \* the provider's roster, in listing order
  drifts,        \* how often it changed
  runs,          \* source_runs, in starting order
  checkpoint,    \* the source_checkpoints row of the scope, or None
  observations,  \* feeder_observations: row versions with the creating run
  worker,        \* local state of each enumerator process
  crashes        \* how often a worker crashed

provider == <<rows, drifts>>
database == <<runs, checkpoint, observations>>
vars == <<rows, drifts, runs, checkpoint, observations, worker, crashes>>

-----------------------------------------------------------------------------
(* Helpers *)

Least(a, b) == IF a <= b THEN a ELSE b
Less(a, b) == IF a <= b THEN 0 ELSE a - b          \* max(0, a - b)
PageCount(total, size) ==                          \* max(1, ceil(total / size))
  IF total = 0 THEN 1 ELSE (total + size - 1) \div size
PageRows(p, size) ==
  {rows[i] : i \in ((p - 1) * size + 1) .. Least(p * size, Len(rows))}
Listed == {rows[i] : i \in 1 .. Len(rows)}
Stored == {o.row : o \in observations}
Seen(m) == UNION m.pages         \* the manifest seen_provider_hashes

(* checkpoint metadata: the pages committed so far, each standing for its  *)
(* rows in seen_provider_hashes and for its entry in page_fingerprints.    *)
Idle == [phase |-> "idle", resume |-> FALSE, size |-> 0, prior |-> None,
         run |-> 0, page |-> 0, expect |-> None, pages |-> {}, fetched |-> {},
         committed |-> 0]

Cursor == IF checkpoint = None THEN None ELSE checkpoint.cursor

DistinctKeys(s) == \A i, j \in 1 .. Len(s) : s[i].key = s[j].key => i = j

Rosters == {s \in UNION {[1 .. n -> Row] : n \in 0 .. MaxRows} : DistinctKeys(s)}

Init == /\ rows \in Rosters
        /\ drifts = 0
        /\ runs = <<>>
        /\ checkpoint = None
        /\ observations = {}
        /\ worker = [w \in Workers |-> Idle]
        /\ crashes = 0

-----------------------------------------------------------------------------
(* The provider *)

Drift(new) == /\ drifts < MaxDrifts
              /\ rows' = new
              /\ drifts' = drifts + 1
              /\ UNCHANGED <<runs, checkpoint, observations, worker, crashes>>

Amend == \E i \in 1 .. Len(rows), h \in Hashes :
           /\ h # rows[i].hash
           /\ Drift([rows EXCEPT ![i] = [key |-> rows[i].key, hash |-> h]])

Withdraw == \E i \in 1 .. Len(rows) :
              Drift([j \in 1 .. Len(rows) - 1 |-> IF j < i THEN rows[j] ELSE rows[j + 1]])

Enlist == \E i \in 1 .. Len(rows) + 1, r \in Row :
            /\ Len(rows) < MaxRows
            /\ \A q \in Listed : q.key # r.key
            /\ Drift([j \in 1 .. Len(rows) + 1 |->
                        IF j < i THEN rows[j] ELSE IF j = i THEN r ELSE rows[j - 1]])

-----------------------------------------------------------------------------
(* The enumerator *)

Set(w, changes) == worker' = [worker EXCEPT ![w] = changes]

Ready(resume, size, prior) ==
  [phase |-> "start", resume |-> resume, size |-> size, prior |-> prior,
   run |-> 0, page |-> 0, expect |-> None, pages |-> {}, fetched |-> {},
   committed |-> 0]

(* enumerate() reads the checkpoint before it opens its run; the value is  *)
(* used only when resuming.                                                *)
ReadCheckpoint(w) ==
  /\ worker[w].phase = "idle"
  /\ Len(runs) + Cardinality({v \in Workers : worker[v].phase = "start"}) < MaxRuns
  /\ \E resume \in BOOLEAN, size \in PageSizes :
       Set(w, Ready(resume, size, IF resume THEN checkpoint ELSE None))
  /\ UNCHANGED <<provider, database, crashes>>

(* start_source_run inserts a RUNNING run and records the cursor it finds  *)
(* in its own transaction; the worker continues from the checkpoint it had *)
(* read before, and refuses one that already covers its scope.             *)
Opened(me, run) ==
  LET resuming == me.prior # None IN
  [phase |-> IF resuming /\ me.prior.cursor >= me.prior.count THEN "failed" ELSE "fetch",
   resume |-> me.resume, size |-> me.size, prior |-> None, run |-> run,
   page |-> IF resuming THEN me.prior.cursor + 1 ELSE 1,
   expect |-> IF resuming THEN [total |-> me.prior.total, count |-> me.prior.count]
              ELSE None,
   pages |-> IF resuming THEN me.prior.pages ELSE {},
   fetched |-> {}, committed |-> 0]

StartRun(w) ==
  /\ worker[w].phase = "start"
  /\ runs' = Append(runs, [status |-> "RUNNING", resume |-> worker[w].resume,
                           before |-> Cursor, after |-> None,
                           seen |-> 0, created |-> 0, unchanged |-> 0])
  /\ Set(w, Opened(worker[w], Len(runs) + 1))
  /\ UNCHANGED <<provider, checkpoint, observations, crashes>>

(* The checks on one response: a stable total, a page in range, the exact  *)
(* number of rows, no key seen before and no page content seen before.     *)
Acceptable(me, total, got) ==
  /\ me.expect = None \/ me.expect = [total |-> total, count |-> PageCount(total, me.size)]
  /\ me.page <= PageCount(total, me.size)
  /\ Cardinality(got) = Least(me.size, Less(total, (me.page - 1) * me.size))
  /\ \A r \in got, q \in Seen(me) : r.key # q.key
  /\ got \notin me.pages

ReportedPage(got) == Cardinality(got)        \* mutant: the page's own row count
ReportedTotal(got) == Len(rows)

(* The response reports the provider's total and holds the page's rows, or *)
(* only some of them.                                                      *)
FetchPage(w) ==
  LET me == worker[w] IN
  /\ me.phase = "fetch"
  /\ \E got \in SUBSET PageRows(me.page, me.size) :
       LET total == ReportedTotal(got) IN
       Set(w, IF Acceptable(me, total, got)
              THEN [me EXCEPT !.phase = "commit", !.fetched = got,
                              !.expect = [total |-> total,
                                          count |-> PageCount(total, me.size)]]
              ELSE [me EXCEPT !.phase = "failed"])
  /\ UNCHANGED <<provider, database, crashes>>

FreshByKey(got) == {r \in got : \A q \in Stored : q.key # r.key}        \* mutant
Fresh(got) == got \ Stored

(* The run counters after a page of rows got, fresh among them.            *)
Counted(r, got, fresh, page) ==
  [status |-> r.status, resume |-> r.resume, before |-> r.before, after |-> page,
   seen |-> r.seen + Cardinality(got),
   created |-> r.created + Cardinality(fresh),
   unchanged |-> r.unchanged + Cardinality(got \ fresh)]

(* The worker after its page is committed: the next page, or the check     *)
(* that the scope is covered.                                              *)
Advanced(me, pages) ==
  [phase |-> IF me.page # me.expect.count THEN "fetch"
             ELSE IF Cardinality(UNION pages) = me.expect.total
                  THEN "covered" ELSE "failed",
   resume |-> me.resume, size |-> me.size, prior |-> None, run |-> me.run,
   page |-> IF me.page = me.expect.count THEN me.page ELSE me.page + 1,
   expect |-> me.expect, pages |-> pages, fetched |-> {},
   committed |-> me.committed + 1]

ManifestedOnCheckpoint(me) ==                \* mutant: a new enumeration extends the old
  {me.fetched} \cup IF checkpoint = None THEN {} ELSE checkpoint.pages
Manifested(me) == me.pages \cup {me.fetched}

SavedCleared(me, pages) ==                   \* mutant: the last page leaves no cursor
  [cursor |-> IF me.page = me.expect.count THEN None ELSE me.page,
   total |-> me.expect.total, count |-> me.expect.count,
   size |-> me.size, pages |-> pages, lastRun |-> me.run]
SavedForFirst(me, pages) ==                  \* mutant: last_run_id is never updated
  [cursor |-> me.page, total |-> me.expect.total, count |-> me.expect.count,
   size |-> me.size, pages |-> pages,
   lastRun |-> IF checkpoint = None THEN me.run ELSE checkpoint.lastRun]
Saved(me, pages) ==
  [cursor |-> me.page, total |-> me.expect.total, count |-> me.expect.count,
   size |-> me.size, pages |-> pages, lastRun |-> me.run]

(* commit_source_page: observations, checkpoint and run counters in one    *)
(* transaction.  A version already stored for the key is left as it is.    *)
CommitPage(w) ==
  LET me == worker[w]
      fresh == Fresh(me.fetched)
      pages == Manifested(me)
  IN
  /\ me.phase = "commit"
  /\ runs[me.run].status = "RUNNING"
  /\ observations' = observations \cup {[row |-> r, run |-> me.run] : r \in fresh}
  /\ checkpoint' = Saved(me, pages)
  /\ runs' = [runs EXCEPT ![me.run] = Counted(@, me.fetched, fresh, me.page)]
  /\ Set(w, Advanced(me, pages))
  /\ UNCHANGED <<provider, crashes>>

(* finish_source_run(SUCCESS) *)
FinishRun(w) ==
  LET me == worker[w] IN
  /\ me.phase = "covered"
  /\ runs[me.run].status = "RUNNING"
  /\ runs' = [runs EXCEPT ![me.run].status = "SUCCESS"]
  /\ Set(w, Idle)
  /\ UNCHANGED <<provider, checkpoint, observations, crashes>>

AbortRunRetries(w) ==                        \* mutant: the page is tried again
  /\ worker[w].phase = "failed"
  /\ Set(w, [worker[w] EXCEPT !.phase = "fetch"])
  /\ UNCHANGED <<provider, database, crashes>>

(* The except clause: PARTIAL once a page has been committed.              *)
AbortRun(w) ==
  LET me == worker[w] IN
  /\ me.phase = "failed"
  /\ runs[me.run].status = "RUNNING"
  /\ runs' = [runs EXCEPT ![me.run].status =
                            IF me.committed > 0 THEN "PARTIAL" ELSE "FAILED"]
  /\ Set(w, Idle)
  /\ UNCHANGED <<provider, checkpoint, observations, crashes>>

(* An exception in the fetch, in the page transaction (rolled back, for    *)
(* example by a concurrent insert of the same version) or in the           *)
(* transaction that records SUCCESS.                                       *)
StepRaises(w) ==
  /\ worker[w].phase \in {"fetch", "commit", "covered"}
  /\ Set(w, [worker[w] EXCEPT !.phase = "failed"])
  /\ UNCHANGED <<provider, database, crashes>>

(* The process dies: its run stays RUNNING and nobody owns it any more.    *)
Crash(w) ==
  /\ worker[w].phase # "idle"
  /\ crashes < MaxCrashes
  /\ crashes' = crashes + 1
  /\ Set(w, Idle)
  /\ UNCHANGED <<provider, database>>

WorkerStep(w) == \/ StartRun(w) \/ FetchPage(w) \/ CommitPage(w)
                 \/ FinishRun(w) \/ AbortRun(w)

Next == \/ Amend \/ Withdraw \/ Enlist
        \/ \E w \in Workers : \/ ReadCheckpoint(w) \/ WorkerStep(w)
                              \/ StepRaises(w) \/ Crash(w)

Spec == Init /\ [][Next]_vars

(* A started enumerator is a sequential program whose calls all return or  *)
(* time out, so it keeps taking steps; nobody is obliged to start one.     *)
FairSpec == Spec /\ \A w \in Workers : WF_vars(WorkerStep(w))

-----------------------------------------------------------------------------
(* The consumers of a checkpoint, each with its own test of completeness.  *)

LastRun == runs[checkpoint.lastRun]

Covers == /\ checkpoint.cursor = checkpoint.count
          /\ Cardinality(Seen(checkpoint)) = checkpoint.total

(* assembly_base_profile: publishes every row of the manifest.             *)
PublisherAccepts == /\ checkpoint # None
                    /\ LastRun.status = "SUCCESS"
                    /\ Seen(checkpoint) # {}
                    /\ Covers
                    /\ Seen(checkpoint) \subseteq Stored

(* _assert_current_assembly_review_observation: lets an operator resolve a *)
(* conflict about row r; every row must come from the last run itself.     *)
ReviewAccepts(r) == /\ checkpoint # None
                    /\ checkpoint.total > 0
                    /\ Covers
                    /\ r \in Seen(checkpoint)
                    /\ LastRun.status = "SUCCESS"
                    /\ LastRun.seen = checkpoint.total

NecRunCoversAlone == LastRun.seen = checkpoint.total      \* mutant: no credit

(* The pages before a run, by the cursor recorded at its start.            *)
PriorPages(r) == IF r.before = None THEN 0 ELSE r.before

(* The NEC context of a row: a resumed run is credited with the rows of    *)
(* the pages before it.                                                    *)
NecRunCovers ==
  IF LastRun.resume
  THEN /\ PriorPages(LastRun) < checkpoint.count
       /\ Least(PriorPages(LastRun) * checkpoint.size, checkpoint.total) + LastRun.seen
            = checkpoint.total
  ELSE LastRun.seen = checkpoint.total

NecAccepts(r) == /\ checkpoint # None
                 /\ LastRun.status = "SUCCESS"
                 /\ NecRunCovers
                 /\ LastRun.after = checkpoint.cursor
                 /\ Covers
                 /\ r \in Seen(checkpoint)
                 /\ checkpoint.count = PageCount(checkpoint.total, checkpoint.size)
                 /\ \A q \in Stored : q.key = r.key => q = r

-----------------------------------------------------------------------------
(* Types *)

Manifest == SUBSET SUBSET Row
Expect == [total : Nat, count : Nat]
Checkpoint == [cursor : Nat, total : Nat, count : Nat, size : Nat,
               pages : Manifest, lastRun : Nat]
Run == [status : Status, resume : BOOLEAN, before : Nat \cup {None}, after : Nat \cup {None},
        seen : Nat, created : Nat, unchanged : Nat]
Worker == [phase : Phases, resume : BOOLEAN, size : Nat, prior : Checkpoint \cup {None},
           run : Nat, page : Nat, expect : Expect \cup {None}, pages : Manifest,
           fetched : SUBSET Row, committed : Nat]

(* None is not a record and no cursor; the code tests "is None" first.     *)
ASSUME NoneIsNoRecord == None \notin Checkpoint /\ None \notin Expect /\ None \notin Nat

(* The type invariant. *)
TypeOK == /\ rows \in Seq(Row) /\ DistinctKeys(rows)
          /\ drifts \in Nat /\ crashes \in Nat
          /\ runs \in Seq(Run)
          /\ checkpoint \in Checkpoint \cup {None}
          /\ observations \subseteq [row : Row, run : 1 .. Len(runs)]
          /\ worker \in [Workers -> Worker]

-----------------------------------------------------------------------------
(* Properties *)

(* Every manifest, the checkpoint's or one a worker carries on from, lists *)
(* only versions that are stored: what resumes or publishes from it finds  *)
(* its observations (commit_source_page writes both in one transaction).   *)
ManifestStored ==
  /\ checkpoint # None => Seen(checkpoint) \subseteq Stored
  /\ \A w \in Workers : Seen(worker[w]) \subseteq Stored

(* A checkpoint whose last writer reports SUCCESS covers its whole scope,  *)
(* however many workers raced on it: SUCCESS is written in a transaction   *)
(* of its own, after the last page.                                        *)
SuccessCovers ==
  checkpoint # None => (LastRun.status = "SUCCESS" => Covers)

(* A manifest never lists two versions of one provider key, across         *)
(* resumes and page-size changes.                                          *)
ManifestUnambiguous ==
  checkpoint # None =>
    \A r, q \in Seen(checkpoint) : r.key = q.key => r = q

(* While the provider has not changed, whatever a consumer accepts is the  *)
(* provider's roster exactly: no row missing, none too many.               *)
AcceptedIsExact ==
  drifts = 0 =>
    /\ PublisherAccepts => Seen(checkpoint) = Listed
    /\ \A r \in Row : ReviewAccepts(r) \/ NecAccepts(r) => Seen(checkpoint) = Listed

(* With one worker at a time a SUCCESS is usable: the publisher accepts it *)
(* unless the roster is empty, and NEC accepts every unamended row, also   *)
(* after resumed runs.                                                     *)
SuccessUsable ==
  checkpoint # None /\ LastRun.status = "SUCCESS" =>
    /\ Seen(checkpoint) # {} => PublisherAccepts
    /\ \A r \in Seen(checkpoint) :
         (\A q \in Stored : q.key = r.key => q = r) => NecAccepts(r)

Running(n) == n \in 1 .. Len(runs) /\ runs[n].status = "RUNNING"
Owned(n) == \E w \in Workers : worker[w].run = n

(* An enumerator does not hold its run for ever, whatever totals and pages *)
(* the provider reports, and a run it leaves has ended in a status: no     *)
(* more of them are RUNNING without a process than processes have died.    *)
RunsClose ==
  \A n \in 1 .. MaxRuns :
    Owned(n) ~> /\ ~Owned(n)
                /\ Cardinality({m \in 1 .. MaxRuns : Running(m) /\ ~Owned(m)}) <= crashes

(* The archive the ingestion layer implements: what is stored, and the     *)
(* manifest a consumer may rely on.                                        *)
Trusted == IF checkpoint # None /\ LastRun.status = "SUCCESS"
           THEN {Seen(checkpoint)} ELSE {}
Archive == INSTANCE RosterArchive WITH archive <- Stored, trusted <- Trusted
ArchiveSpec == Archive!Spec
=============================================================================
