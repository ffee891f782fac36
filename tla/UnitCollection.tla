--------------------------- MODULE UnitCollection ---------------------------
(***************************************************************************)
(* Collections that read a provider's universe first and then go through   *)
(* it step by step: the enumerators of ALIO executives and business        *)
(* expenses, OpenDART executives, meeting graphs, subcommittee reviews,    *)
(* MPM key positions, meetings, committee members and biographies; and     *)
(* those that store each page of a list as they read it, the enumerators   *)
(* of bills, gazette notices and organization codes.  They use the runs,   *)
(* pages and checkpoints of repository.py, with one page transaction per   *)
(* step or more and, in the checkpoint's metadata, what a resumed run must *)
(* know of the steps before it.                                            *)
(*                                                                         *)
(* Each behaviour is of one lane on one scope.  Several processes may run  *)
(* it, resume it and die; the provider may change at any time.  A unit is  *)
(* an institution, a corporation, a meeting, an attachment, a bill or a    *)
(* member, its content what one answer of the provider holds of it.        *)
(***************************************************************************)
EXTENDS Naturals, Sequences, FiniteSets, SequencesExt

CONSTANTS
  Workers,        \* enumerator processes
  Units,          \* provider keys, numbers so that they sort
  Contents,       \* what a unit may be published with
  Empty,          \* published with nothing
  Clashing,       \* meeting contents that list one bill with different rows
  Selected,       \* the institutions of the expense collection, in order
  Groups,         \* the attachments of the MPM release, in order
  Installations,  \* initial [lane, listing, content, relists, budgets, workers, bounds]
  None

VARIABLES
  setting,     \* the lane, its budgets, page sizes and processes, the lists the
               \* provider may turn to, the bounds on runs, kills and changes
  listing,     \* the provider's list of units, some of them repeated
  content,     \* what it publishes of each unit
  drifts,      \* how often it changed
  runs,        \* source_runs, in starting order
  checkpoint,  \* the source_checkpoints row, or None
  stored,      \* feeder_observations
  worker,      \* local state of each process
  crashes

provider == <<setting, listing, content, drifts>>
database == <<runs, checkpoint, stored>>
vars == <<setting, listing, content, drifts, runs, checkpoint, stored, worker, crashes>>

lane == setting.lane

(* One directory document, in the order it is parsed into, which is        *)
(* committed before the first unit.                                        *)
Directed == {"EXECUTIVE", "CORPORATE", "EXPENSE"}
(* Lists that are read whole before anything is committed, page by page.   *)
Listed == {"REVIEW", "MEETINGS", "MEMBERS", "BIOGRAPHY"}
(* Lists of which each page is committed before the next is read.          *)
Streamed == {"BILLS", "GAZETTE", "CODES"}
Resumable == Directed \cup {"GRAPH", "REVIEW", "MPM"}

-----------------------------------------------------------------------------
(* The universe, as read: a sequence of <<unit, content>>.  The rows of a  *)
(* directory or of the meeting index show no content, but those of the     *)
(* expense directory do.                                                   *)

Entry(i) == <<listing[i], IF lane \in Listed \cup Streamed \cup {"EXPENSE"} THEN content[listing[i]] ELSE Empty>>
Entries == [i \in DOMAIN listing |-> Entry(i)]

Heads(s) == {s[i][1] : i \in DOMAIN s}
Distinct(s) == \A i, j \in DOMAIN s : s[i][1] = s[j][1] => i = j
Places(r, u) == {i \in DOMAIN r : r[i][1] = u}
Latest(r, u) == \E i \in Places(r, u) : \A j \in Places(r, u) : j <= i

ExecutiveDirectory(r) == Distinct(r)
Executives(r) == r # <<>> /\ ExecutiveDirectory(r)
CorporateDirectory(r) == Distinct(r)
Corporations(r) == r # <<>> /\ CorporateDirectory(r)
ExpenseDirectory(r) ==
  /\ Distinct(r)
  /\ \A i, j \in DOMAIN r : r[i][2] = r[j][2] /\ r[i][2] # Empty => i = j
Expenses(r) ==
  /\ r # <<>> /\ ExpenseDirectory(r)
  /\ \A u \in Range(Selected) : \E i \in Places(r, u) : r[i][2] # Empty
Meetings(r) == \A i, j \in DOMAIN r : r[i][1] = r[j][1] => r[i][2] = r[j][2]
Memberships(r) == r # <<>> /\ Distinct(r)
Biographies(r) == r # <<>> /\ Distinct(r)

(* What the lane demands of the universe it has read.                      *)
Sound(r) ==
  CASE lane = "EXECUTIVE" -> Executives(r)
    [] lane = "CORPORATE" -> Corporations(r)
    [] lane = "EXPENSE"   -> Expenses(r)
    [] lane = "MEMBERS"   -> Memberships(r)
    [] lane = "BIOGRAPHY" -> Biographies(r)
    [] OTHER              -> Meetings(r) \/ lane = "REVIEW"

(* All rows of a bill, with the pages they are on.                         *)
Packet(r, u) ==
  <<u, [c \in Contents \cup {Empty} |-> Cardinality({i \in Places(r, u) : r[i][2] = c})], Places(r, u)>>
Meeting(r, u) == <<u, {r[i][2] : i \in Places(r, u)}, Cardinality(Places(r, u))>>

(* What the checkpoint keeps of the universe, a fingerprint in most lanes. *)
Fingerprint(r) ==
  CASE lane = "MPM"                   -> Groups
    [] lane \in Directed              -> r
    [] lane \in {"GRAPH", "MEETINGS"} -> {Meeting(r, u) : u \in Heads(r)}
    [] lane = "REVIEW"                -> {Packet(r, u) : u \in Heads(r)}
    [] OTHER                          -> {}

(* A finite set of numbers as a sequence, the lowest first.                *)
Below(s, u) == Cardinality({v \in s : v < u})
Ascending(s) == [i \in 1 .. Cardinality(s) |-> CHOOSE u \in s : Below(s, u) = i - 1]

(* The steps: units, or the pages of a list.  A page has one row, and an   *)
(* empty list one page.                                                    *)
Plan(r) ==
  CASE lane = "MPM"     -> Groups
    [] lane = "EXPENSE" -> Selected
    [] lane = "GRAPH"   -> Ascending(Heads(r))
    [] lane \in Listed  -> [i \in 1 .. (IF r = <<>> THEN 1 ELSE Len(r)) |-> i]
    [] OTHER            -> [i \in DOMAIN r |-> r[i][1]]

-----------------------------------------------------------------------------
(* What a step stores, and what the checkpoint then holds of all steps so  *)
(* far.  x is <<unit, content>> of the step, or <<page, Empty>>.           *)

Anchored(r, i) == {Packet(r, u) : u \in {v \in Heads(r) : Max(Places(r, v)) = i}}
FirstSeen(r, i) == {Meeting(r, u) : u \in {v \in Heads(r) : Min(Places(r, v)) = i}}
ListRow(r, i) == {r[j] : j \in {i} \cap DOMAIN r}

Rows(r, x) ==
  CASE lane = "REVIEW"                  -> Anchored(r, x[1])
    [] lane = "MEETINGS"                -> FirstSeen(r, x[1])
    [] lane \in {"MEMBERS", "BIOGRAPHY"} -> ListRow(r, x[1])
    [] lane \in Streamed                -> x
    [] OTHER                            -> {x} \ (Units \X {Empty})

Nothing ==
  CASE lane = "CORPORATE"             -> [with |-> 0, without |-> 0]
    [] lane \in {"REVIEW", "MEETINGS"} -> 0
    [] OTHER                          -> {}

(* Current disclosures and institutions without one, report rows of the    *)
(* selected, the hash of each attachment, the rows of a list; packets.     *)
Disclosure(h, x) == h \cup {x}
Expense(h, x) == h \cup {x}
Attachment(h, x) == h \cup {x}
Membership(h, rows) == h \cup rows
Biography(h, rows) == h \cup rows
Packets(h, rows) == h + Cardinality(rows)
PageSeen(h, rows) == h \cup {rows}
Counted(h, x) == IF x[2] = Empty THEN [h EXCEPT !.without = @ + 1] ELSE [h EXCEPT !.with = @ + 1]
ConflictsOfStep(h, x) == IF x[2] \in Clashing THEN {x[1]} ELSE {}
(* The meetings with a conflict, noted as soon as one is fetched.          *)
Conflicts(h, x) == IF x[2] \in Clashing THEN h \cup {x[1]} ELSE h

Held(h, x, rows) ==
  CASE lane = "EXECUTIVE" -> Disclosure(h, x)
    [] lane = "EXPENSE"   -> Expense(h, x)
    [] lane = "MPM"       -> Attachment(h, x)
    [] lane = "CORPORATE" -> Counted(h, x)
    [] lane = "GRAPH"     -> Conflicts(h, x)
    [] lane = "REVIEW"    -> Packets(h, rows)
    [] lane = "MEMBERS"   -> Membership(h, rows)
    [] lane = "BIOGRAPHY" -> Biography(h, rows)
    [] lane \in Streamed  -> PageSeen(h, rows)
    [] OTHER              -> h

(* A disclosure is of one institution; an attachment has records and a     *)
(* meeting its detail.                                                     *)
ExecutiveUsable(h, x) == \A y \in h : y # x /\ (y[2] = x[2] => x[2] = Empty)
ExpenseUsable(h, x) == \A y \in h : y[2] # x[2]
MeetingUsable(x) == x[2] # Empty
AttachmentUsable(x) == x[2] # Empty

Usable(h, x) ==
  CASE lane = "EXECUTIVE" -> ExecutiveUsable(h, x)
    [] lane = "EXPENSE"   -> ExpenseUsable(h, x)
    [] lane = "GRAPH"     -> MeetingUsable(x)
    [] lane = "MPM"       -> AttachmentUsable(x)
    [] OTHER              -> TRUE

-----------------------------------------------------------------------------
(* Whether a checkpoint can be resumed over the universe r                 *)

ExecutiveResumes(k, r) == k.fingerprint = r /\ k.cursor < Len(r)
CorporateResumes(k, r) == k.fingerprint = r /\ k.cursor < Len(r) /\ k.held.with + k.held.without = k.cursor
ExpenseResumes(k, r) == k.fingerprint = r /\ k.cursor < Len(Selected)
GraphResumes(k, r) == k # None /\ k.fingerprint = Fingerprint(r) /\ k.cursor < Cardinality(Heads(r))
ReviewResumesAnyway(k, r) == k # None /\ k.cursor < Len(Plan(r))
ReviewResumes(k, r) == k # None /\ k.fingerprint = Fingerprint(r) /\ k.cursor < Len(Plan(r))
MpmResumes(k) == {x[1] : x \in k.held} = {Groups[i] : i \in 1 .. k.cursor} /\ k.cursor < Len(Groups)

Resumes(k, r) ==
  CASE lane = "EXECUTIVE" -> ExecutiveResumes(k, r)
    [] lane = "CORPORATE" -> CorporateResumes(k, r)
    [] lane = "EXPENSE"   -> ExpenseResumes(k, r)
    [] lane = "GRAPH"     -> GraphResumes(k, r)
    [] lane = "REVIEW"    -> ReviewResumes(k, r)
    [] lane = "MPM"       -> MpmResumes(k)

(* The last test of a run: the checkpoint it reads back, whoever wrote it, *)
(* and what it holds itself.                                               *)
ExecutiveWhole(h, r) == checkpoint # None /\ checkpoint.cursor = Len(r) /\ {x[1] : x \in h} = Heads(r)
CorporateWhole(h, r) == checkpoint # None /\ checkpoint.cursor = Len(r) /\ h.with + h.without = Len(r)
ExpenseWhole(h) == checkpoint # None /\ checkpoint.cursor = Len(Selected) /\ {x[1] : x \in h} = Range(Selected)
MpmWhole(h) == {x[1] : x \in h} = Range(Groups)

Whole(me) ==
  CASE lane = "EXECUTIVE" -> ExecutiveWhole(me.held, me.read)
    [] lane = "CORPORATE" -> CorporateWhole(me.held, me.read)
    [] lane = "EXPENSE"   -> ExpenseWhole(me.held)
    [] lane = "MPM"       -> MpmWhole(me.held)
    [] lane \in Streamed  -> Cardinality(UNION me.held) = me.total
    [] OTHER              -> TRUE

-----------------------------------------------------------------------------
Idle == [phase |-> "idle", resume |-> FALSE, budget |-> None, size |-> None, prior |-> None,
         run |-> 0, read |-> <<>>, total |-> None, pages |-> None, cursor |-> 0, held |-> {}, unit |-> None,
         committed |-> FALSE, steps |-> 0]

Init ==
  /\ \E i \in Installations :
       /\ setting = [lane |-> i.lane, relists |-> i.relists, budgets |-> i.budgets,
                     sizes |-> i.sizes, workers |-> i.workers, bounds |-> i.bounds]
       /\ listing = i.listing
       /\ content = i.content
  /\ drifts = 0
  /\ runs = <<>>
  /\ checkpoint = None
  /\ stored = {}
  /\ worker = [w \in Workers |-> Idle]
  /\ crashes = 0

(* How many steps there are, which a streamed lane knows from its first    *)
(* page; its checkpoint has the total and the page size for a fingerprint. *)
Steps(me) == IF lane \in Streamed THEN me.pages ELSE Len(Plan(me.read))
Known(me) == IF lane \in Streamed THEN <<me.total, me.size>> ELSE Fingerprint(me.read)

(* One transaction: rows, checkpoint and the counters of the run.          *)
Page(w, rows, cursor, held) ==
  LET me == worker[w] IN
  /\ runs[me.run].status = "RUNNING"
  /\ stored' = stored \cup rows
  /\ checkpoint' = [cursor |-> cursor, total |-> Steps(me), fingerprint |-> Known(me),
                    held |-> held, run |-> me.run]
  /\ runs' = [runs EXCEPT ![me.run].seen = @ + Cardinality(rows)]

(* enumerate() starts: the directories and the organization codes resume   *)
(* nothing but a checkpoint, which makes a failure of the codes PARTIAL.   *)
ReadCheckpoint(w) ==
  /\ w \in setting.workers /\ worker[w].phase = "idle"
  /\ Len(runs) < setting.bounds.runs
  /\ \E resume \in (IF lane \in Resumable \cup Streamed THEN BOOLEAN ELSE {FALSE}),
        budget \in setting.budgets, size \in setting.sizes :
       /\ resume /\ lane \in Directed \cup {"CODES"} => checkpoint # None
       /\ worker' = [worker EXCEPT ![w] =
            [Idle EXCEPT !.phase = "ready", !.resume = resume, !.budget = budget, !.size = size,
                         !.prior = IF resume THEN checkpoint ELSE None,
                         !.committed = lane = "CODES" /\ checkpoint # None]]
  /\ UNCHANGED <<provider, database, crashes>>

(* The codes are resumed before their first success only.                  *)
ReadRuns(w) ==
  /\ lane = "CODES" /\ worker[w].phase = "ready" /\ worker[w].resume
  /\ worker' = [worker EXCEPT ![w] = IF \E i \in DOMAIN runs : runs[i].status = "SUCCESS"
                                     THEN Idle ELSE [@ EXCEPT !.phase = "cleared"]]
  /\ UNCHANGED <<provider, database, crashes>>

StartRun(w) ==
  /\ worker[w].phase = IF lane = "CODES" /\ worker[w].resume THEN "cleared" ELSE "ready"
  /\ Len(runs) < setting.bounds.runs
  /\ runs' = Append(runs, [status |-> "RUNNING", resume |-> worker[w].resume, seen |-> 0])
  /\ worker' = [worker EXCEPT ![w].phase = "reading", ![w].run = Len(runs) + 1]
  /\ UNCHANGED <<provider, checkpoint, stored, crashes>>

(* The directory is one document,                                          *)
ReadDirectory(w) ==
  /\ lane \in Directed
  /\ worker[w].phase = "reading" /\ worker[w].total = None
  /\ worker' = [worker EXCEPT ![w].total = Len(listing),
                              ![w].read = Entries]
  /\ UNCHANGED <<provider, database, crashes>>

(* a list has pages, each of which states the total.                       *)
ReadPage(w) ==
  LET me == worker[w] IN
  /\ lane \in Listed \cup {"GRAPH"}
  /\ me.phase = "reading"
  /\ me.total \in {None, Len(listing)}
  /\ me.total # None => Len(me.read) < me.total
  /\ worker' = [worker EXCEPT ![w].total = Len(listing),
                  ![w].read = @ \o (IF listing = <<>> THEN <<>> ELSE <<Entry(Len(me.read) + 1)>>)]
  /\ UNCHANGED <<provider, database, crashes>>

UniverseRead(me) == lane = "MPM" \/ (me.total # None /\ Len(me.read) = me.total)

Afresh(me) == lane = "MPM" /\ me.prior = None

(* The universe is sound; a resumed run takes over what the checkpoint     *)
(* holds. MPM without a checkpoint starts afresh.                          *)
Begin(w) ==
  LET me == worker[w] IN
  /\ me.phase = "reading" /\ UniverseRead(me) /\ Sound(me.read)
  /\ \/ /\ me.resume /\ ~Afresh(me)
        /\ Resumes(me.prior, me.read)
        /\ worker' = [worker EXCEPT ![w].phase = IF lane = "MPM" THEN "verifying" ELSE "stepping",
                        ![w].cursor = me.prior.cursor, ![w].held = me.prior.held, ![w].prior = None]
     \/ /\ ~me.resume \/ Afresh(me)
        /\ worker' = [worker EXCEPT ![w].phase = IF lane \in Directed THEN "directory" ELSE "stepping",
                        ![w].held = Nothing]
  /\ UNCHANGED <<provider, database, crashes>>

(* A page is of the size asked for, but the gazette asks for any; the      *)
(* codes read back what is stored and want exactly what the pages had.     *)
BillsResume(k, size) == k.cursor < k.total /\ k.fingerprint[2] = size
GazetteResumes(k) == k.cursor < k.total
CodesResume(k, size) == k.cursor < k.total /\ k.fingerprint[2] = size /\ stored = UNION k.held

StreamResumes(k, size) ==
  CASE lane = "BILLS"   -> BillsResume(k, size)
    [] lane = "GAZETTE" -> GazetteResumes(k)
    [] lane = "CODES"   -> CodesResume(k, size)

BeginStream(w) ==
  LET me == worker[w] IN
  /\ lane \in Streamed /\ me.phase = "reading"
  /\ \/ /\ me.prior # None
        /\ StreamResumes(me.prior, me.size)
        /\ worker' = [worker EXCEPT ![w].phase = "stepping", ![w].prior = None,
                        ![w].cursor = me.prior.cursor, ![w].total = me.prior.fingerprint[1],
                        ![w].pages = me.prior.total, ![w].held = me.prior.held]
     \/ /\ me.prior = None
        /\ worker' = [worker EXCEPT ![w].phase = "stepping"]
  /\ UNCHANGED <<provider, database, crashes>>

CommitDirectory(w) ==
  /\ worker[w].phase = "directory"
  /\ Page(w, {}, 0, Nothing)
  /\ worker' = [worker EXCEPT ![w].phase = "stepping", ![w].committed = TRUE]
  /\ UNCHANGED <<provider, crashes>>

(* A resumed MPM run fetches the completed attachments again.              *)
Verify(w) ==
  LET me == worker[w]
      x == <<Groups[Len(me.read) + 1], content[Groups[Len(me.read) + 1]]>> IN
  /\ me.phase = "verifying"
  /\ x \in me.held
  /\ worker' = [worker EXCEPT ![w].read = Append(@, x),
                  ![w].phase = IF Len(me.read) + 1 = me.cursor THEN "stepping" ELSE @]
  /\ UNCHANGED <<provider, database, crashes>>

Left(me) == me.phase = "stepping" /\ (Steps(me) # None => me.cursor < Steps(me))
Spent(me) == me.budget # None /\ me.steps >= me.budget

(* What the provider has of the next unit.  The pages of a list are there, *)
(* and the expense directory said which report to fetch.                   *)
Answer(me, u) ==
  CASE lane \in Listed    -> Empty
    [] lane = "EXPENSE"   -> CHOOSE c \in Contents : <<u, c>> \in Range(me.read)
    [] OTHER              -> content[u]

Fetch(w) ==
  LET me == worker[w]
      u == Plan(me.read)[me.cursor + 1]
      x == <<u, Answer(me, u)>> IN
  /\ lane \notin Streamed
  /\ Left(me) /\ ~Spent(me)
  /\ Usable(me.held, x)
  /\ worker' = [worker EXCEPT ![w].phase = "fetched", ![w].unit = x,
                  ![w].read = IF lane = "MPM" THEN Append(@, x) ELSE @,
                  ![w].held = IF lane = "GRAPH" THEN Conflicts(@, x) ELSE @]
  /\ UNCHANGED <<provider, database, crashes>>

PagesOf(total, size) == IF total = 0 THEN 1 ELSE (total + size - 1) \div size
PageAt(p, size) ==
  SubSeq(Entries, (p - 1) * size + 1, Min({p * size, Len(listing)}))

(* A bill needs the codes of its proposers, an organization its name, its  *)
(* code once and to be current; a page of notices is no longer than all.   *)
BillsReadable(page) == \A i \in DOMAIN page : page[i][2] # Empty
NoticesReadable(page, total) == Len(page) <= total
CodesReadable(page) == Distinct(page) /\ \A i \in DOMAIN page : page[i][2] # Empty

(* What was seen stays as it was: the total, the number of pages, no key   *)
(* twice, no page twice.                                                   *)
SameScope(me, total) ==
  /\ me.total # None => total = me.total /\ PagesOf(total, me.size) = me.pages
  /\ me.cursor + 1 <= PagesOf(total, me.size)
Unseen(me, page) ==
  /\ Distinct(page) /\ Heads(page) \cap {x[1] : x \in UNION me.held} = {}
  /\ Range(page) \notin me.held

BillsContinue(me, page, total) == SameScope(me, total) /\ BillsReadable(page) /\ Unseen(me, page)
GazetteContinues(me, page, total) == SameScope(me, total) /\ NoticesReadable(page, total) /\ Unseen(me, page)
CodesContinue(me, page, total) == total > 0 /\ SameScope(me, total) /\ CodesReadable(page) /\ Unseen(me, page)

Continues(me, page, total) ==
  CASE lane = "BILLS"   -> BillsContinue(me, page, total)
    [] lane = "GAZETTE" -> GazetteContinues(me, page, total)
    [] lane = "CODES"   -> CodesContinue(me, page, total)

FetchPage(w) ==
  LET me == worker[w]
      total == Len(listing)
      page == PageAt(me.cursor + 1, me.size) IN
  /\ lane \in Streamed /\ Left(me)
  /\ Continues(me, page, total)
  /\ worker' = [worker EXCEPT ![w].phase = "fetched", ![w].unit = Range(page),
                  ![w].total = total, ![w].pages = PagesOf(total, me.size)]
  /\ UNCHANGED <<provider, database, crashes>>

(* The pages of a meeting but the last of its detail: nothing observed.    *)
CommitPart(w) ==
  LET me == worker[w] IN
  /\ lane = "GRAPH" /\ me.phase \in {"fetched", "parts"}
  /\ Page(w, {}, me.cursor, me.held)
  /\ worker' = [worker EXCEPT ![w].phase = "parts", ![w].committed = TRUE]
  /\ UNCHANGED <<provider, crashes>>

CommitStep(w) ==
  LET me == worker[w]
      rows == Rows(me.read, me.unit)
      held == Held(me.held, me.unit, rows) IN
  /\ me.phase = IF lane = "GRAPH" THEN "parts" ELSE "fetched"
  /\ Page(w, rows, me.cursor + 1, held)
  /\ worker' = [worker EXCEPT ![w].phase = "stepping", ![w].cursor = @ + 1, ![w].held = held,
                  ![w].unit = None, ![w].committed = TRUE,
                  ![w].steps = IF me.budget = None THEN 0 ELSE @ + 1]
  /\ UNCHANGED <<provider, crashes>>

(* The last test.                                                          *)
Test(w) ==
  LET me == worker[w] IN
  /\ me.phase = "stepping" /\ ~Left(me)
  /\ Whole(me)
  /\ worker' = [worker EXCEPT ![w].phase = "tested"]
  /\ UNCHANGED <<provider, database, crashes>>

OutcomeAlways(complete) == "SUCCESS"
Outcome(complete) == IF complete THEN "SUCCESS" ELSE "PARTIAL"

(* finish_source_run; a run within its budget ends before the universe.    *)
Finish(w) ==
  LET me == worker[w]
      complete == me.phase = "tested" IN
  /\ complete \/ (Left(me) /\ Spent(me))
  /\ runs' = [runs EXCEPT ![me.run].status = Outcome(complete)]
  /\ worker' = [worker EXCEPT ![w] = IF complete THEN [@ EXCEPT !.phase = "done"] ELSE Idle]
  /\ UNCHANGED <<provider, checkpoint, stored, crashes>>

Active(w) == worker[w].run # 0 /\ worker[w].phase \notin {"idle", "done"}

Closing(me) == IF me.committed THEN "PARTIAL" ELSE "FAILED"

RaiseGoesOn(w) ==
  /\ Active(w)
  /\ runs' = [runs EXCEPT ![worker[w].run].status = Closing(worker[w])]
  /\ UNCHANGED <<provider, checkpoint, stored, worker, crashes>>

(* A test failed, or the provider or the database did: the run is closed.  *)
Raise(w) ==
  /\ Active(w)
  /\ runs' = [runs EXCEPT ![worker[w].run].status = Closing(worker[w])]
  /\ worker' = [worker EXCEPT ![w] = Idle]
  /\ UNCHANGED <<provider, checkpoint, stored, crashes>>

(* The process is killed, and its run stays RUNNING.                       *)
Crash(w) ==
  /\ Active(w) /\ crashes < setting.bounds.crashes
  /\ crashes' = crashes + 1
  /\ worker' = [worker EXCEPT ![w] = Idle]
  /\ UNCHANGED <<provider, database>>

Exit(w) ==
  /\ worker[w].phase = "done"
  /\ worker' = [worker EXCEPT ![w] = Idle]
  /\ UNCHANGED <<provider, database, crashes>>

(* The provider changes a unit, or its list.                               *)
Amend(u, c) ==
  /\ drifts < setting.bounds.drifts /\ content[u] # c
  /\ content' = [content EXCEPT ![u] = c]
  /\ drifts' = drifts + 1
  /\ UNCHANGED <<setting, listing, database, worker, crashes>>

Relist(l) ==
  /\ drifts < setting.bounds.drifts /\ listing # l
  /\ listing' = l
  /\ drifts' = drifts + 1
  /\ UNCHANGED <<setting, content, database, worker, crashes>>

Next ==
  \/ \E w \in Workers :
       \/ ReadCheckpoint(w) \/ ReadRuns(w) \/ StartRun(w) \/ ReadDirectory(w) \/ ReadPage(w)
       \/ Begin(w) \/ BeginStream(w) \/ CommitDirectory(w) \/ Verify(w) \/ Fetch(w)
       \/ FetchPage(w) \/ CommitPart(w)
       \/ CommitStep(w) \/ Test(w) \/ Finish(w) \/ Raise(w) \/ Crash(w) \/ Exit(w)
  \/ \E u \in DOMAIN content, c \in Contents \cup {Empty} : Amend(u, c)
  \/ \E l \in setting.relists : Relist(l)

Spec == Init /\ [][Next]_vars

-----------------------------------------------------------------------------
(* Properties *)

(* Every variable has its type; a worker and the checkpoint are no further *)
(* than the plan, and only a worker with a run of its own goes on          *)
(* (repository.py:529, SourceRun and SourceCheckpoint).                    *)
TypeOK ==
  /\ content \in [DOMAIN content -> Contents \cup {Empty}] /\ Range(listing) \subseteq DOMAIN content
  /\ drifts \in 0 .. setting.bounds.drifts /\ crashes \in 0 .. setting.bounds.crashes
  /\ runs \in Seq([status : {"RUNNING", "SUCCESS", "PARTIAL", "FAILED"}, resume : BOOLEAN, seen : Nat])
  /\ checkpoint = None \/ (checkpoint.cursor \in 0 .. checkpoint.total /\ checkpoint.run \in DOMAIN runs)
  /\ \A w \in Workers : LET me == worker[w] IN
       /\ Active(w) => runs[me.run].status = "RUNNING"
       /\ me.phase \in {"fetched", "parts"} => me.unit # None
       /\ me.phase \in {"fetched", "parts", "tested", "done"} => me.cursor <= Steps(me)

Stored(u) == \E x \in stored : x[1] = u
Clean(u) == \E x \in stored : x[1] = u /\ x[2] \notin Clashing

(* The units before the cursor of checkpoint k.                            *)
Passed(k) ==
  IF lane = "GRAPH"
  THEN {m[1] : m \in {n \in k.fingerprint : Cardinality({o \in k.fingerprint : o[1] < n[1]}) < k.cursor}}
  ELSE {Plan(k.fingerprint)[i] : i \in 1 .. k.cursor}

(* What a checkpoint says of the steps before its cursor is so, whoever    *)
(* wrote it and whatever run it was resumed from: their rows are stored,   *)
(* its manifest names each unit once, its counters count them, and no      *)
(* conflict is forgotten. A resumed run fetches nothing before the cursor. *)
CheckpointBacked ==
  checkpoint # None =>
    LET k == checkpoint IN
    CASE lane \in {"EXECUTIVE", "EXPENSE", "MPM"} ->
           /\ {x[1] : x \in k.held} = Passed(k) /\ Cardinality(k.held) = k.cursor
           /\ \A x \in k.held : x[2] = Empty \/ x \in stored
      [] lane = "CORPORATE" ->
           /\ k.held.with + k.held.without = k.cursor
           /\ k.held.with <= Cardinality({u \in Passed(k) : Stored(u)})
      [] lane = "GRAPH" -> \A u \in Passed(k) : Stored(u) /\ (u \in k.held \/ Clean(u))
      [] lane = "REVIEW" ->
           LET packets == {x \in k.fingerprint : Max(x[3]) <= k.cursor} IN
           packets \subseteq stored /\ k.held = Cardinality(packets)
      [] lane = "MEETINGS" -> k.cursor = k.total => k.fingerprint \subseteq stored
      [] lane \in Streamed ->
           /\ UNION k.held \subseteq stored /\ Cardinality(k.held) = k.cursor
           /\ \A x, y \in UNION k.held : x[1] = y[1] => x = y
      [] OTHER -> k.held \subseteq stored /\ Cardinality(k.held) = k.cursor

(* A run that completed has stored all of the universe it read, though it  *)
(* was resumed from another run over another reading of it.                *)
RunCovers ==
  \A w \in Workers : worker[w].phase = "done" =>
    LET r == worker[w].read
        h == worker[w].held IN
    CASE lane = "EXECUTIVE" -> \A u \in Heads(r) : Stored(u) \/ <<u, Empty>> \in h
      [] lane = "CORPORATE" -> Cardinality({u \in Heads(r) : Stored(u)}) >= Len(r) - h.without
      [] lane = "EXPENSE" -> {x \in Range(r) : x[1] \in Range(Selected)} \subseteq stored
      [] lane = "GRAPH" -> \A u \in Heads(r) : Stored(u) /\ (u \in h \/ Clean(u))
      [] lane = "MPM" -> Range(r) \subseteq stored /\ Heads(r) = Range(Groups)
      [] lane \in {"REVIEW", "MEETINGS"} -> Fingerprint(r) \subseteq stored
      [] lane \in Streamed -> UNION h \subseteq stored /\ Cardinality({x[1] : x \in UNION h}) = worker[w].total
      [] OTHER -> Range(r) \subseteq stored

-----------------------------------------------------------------------------
(* Who uses a collection asks for a last run that succeeded and for its    *)
(* manifest to be complete.                                                *)

ImportAccepts(k) ==
  /\ k.cursor = Len(k.fingerprint) /\ k.fingerprint # <<>> /\ Distinct(k.fingerprint)
  /\ {x[1] : x \in k.held} = Heads(k.fingerprint)
  /\ \A x, y \in k.held : x[1] = y[1] => x = y

(* The batch wants the run to have seen all rows of the manifest itself,   *)
(* and some.                                                               *)
BatchAccepts(k) ==
  LET hashes == k.held \ (Units \X {Empty}) IN
  /\ k.cursor = Len(k.fingerprint) /\ k.fingerprint # <<>> /\ Distinct(k.fingerprint)
  /\ {x[1] : x \in k.held} = Heads(k.fingerprint)
  /\ \A x, y \in k.held : x[1] = y[1] /\ x[2] = Empty => y[2] = Empty
  /\ hashes # {} /\ runs[k.run].seen >= Cardinality(hashes)

RolesAccept(k) ==
  /\ k.cursor = k.total /\ Cardinality(k.held) = k.total
  /\ k.held \subseteq stored

ActivityAccepts(k) ==
  /\ k.cursor = k.total /\ Cardinality(UNION k.held) = k.fingerprint[1]
  /\ UNION k.held \subseteq stored

BiographiesAccept(k) == Cardinality(k.held) = k.total /\ k.held \subseteq stored

(* The checkpoint of a run that succeeded is at the end of the universe,   *)
(* and those who use the collection accept it: the organization import     *)
(* every one, the publishers of roles, biographies and bills too, the batch *)
(* one that was not resumed and in which somebody was disclosed.           *)
SuccessIsWhole ==
  checkpoint # None /\ runs[checkpoint.run].status = "SUCCESS" =>
    LET k == checkpoint IN
    /\ k.cursor = k.total
    /\ lane = "EXECUTIVE" => ImportAccepts(k)
    /\ lane = "EXECUTIVE" /\ ~runs[k.run].resume /\ (\E x \in k.held : x[2] # Empty) => BatchAccepts(k)
    /\ lane = "MEMBERS" => RolesAccept(k)
    /\ lane = "BIOGRAPHY" => BiographiesAccept(k)
    /\ lane = "BILLS" => ActivityAccepts(k)

-----------------------------------------------------------------------------
(* What is taken for granted of the constants                              *)

Kinds == Contents \cup {Empty}

ASSUME UnitsAssumption == Units \subseteq Nat /\ Empty \notin Contents

(* None is no number, no unit with its content, and no page.               *)
ASSUME NoneAssumption ==
  /\ None \notin Nat /\ None \notin Nat \X Kinds
  /\ \A page \in SUBSET (Units \X Kinds) : None # page

(* The institutions of the expense collection and the attachments of the   *)
(* MPM release are named once each.                                        *)
ASSUME NamedOnce ==
  /\ {Selected, Groups} \subseteq Seq(Units)
  /\ IsInjective(Selected) /\ IsInjective(Groups)

(* A provider lists what it publishes; an attachment of the release is     *)
(* there.                                                                  *)
ASSUME InstallationsAssumption ==
  \A i \in Installations :
    /\ i.lane \in Directed \cup Listed \cup Streamed \cup {"GRAPH", "MPM"}
    /\ DOMAIN i.content \subseteq Units /\ i.content \in [DOMAIN i.content -> Kinds]
    /\ {i.listing} \cup i.relists \subseteq Seq(DOMAIN i.content)
    /\ i.lane = "MPM" => Range(Groups) \subseteq DOMAIN i.content
    /\ i.lane \in Streamed => i.sizes \subseteq Nat \ {0}
    /\ i.bounds.drifts \in Nat /\ i.bounds.crashes \in Nat
=============================================================================
