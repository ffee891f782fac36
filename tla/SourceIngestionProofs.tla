----------------------- MODULE SourceIngestionProofs -----------------------
(***************************************************************************)
(* Machine-checked theorems about SourceIngestion, for every number of     *)
(* workers, every roster and every page size.                              *)
(***************************************************************************)
EXTENDS SourceIngestion, FiniteSetTheorems, SequenceTheorems, TLAPS

-----------------------------------------------------------------------------
(* Rosters *)

(* A function on 1 .. n is a sequence of length n. *)
LEMMA FunctionIsSeq ==
  ASSUME NEW S, NEW n \in Nat, NEW f \in [1 .. n -> S]
  PROVE  f \in Seq(S) /\ Len(f) = n
<1>1. f \in Seq(S)
  BY SeqDef
<1>2. Len(f) \in Nat /\ 1 .. Len(f) = 1 .. n
  BY <1>1, LenProperties
<1> QED
  BY <1>1, <1>2

(* A roster lists finitely many rows, one for each position. *)
LEMMA ListedRows ==
  ASSUME rows \in Seq(Row), DistinctKeys(rows)
  PROVE  /\ Listed \subseteq Row
         /\ IsFiniteSet(Listed)
         /\ Cardinality(Listed) = Len(rows)
         /\ \A r, q \in Listed : r.key = q.key => r = q
<1>1. Len(rows) \in Nat /\ rows \in [1 .. Len(rows) -> Row]
  BY LenProperties
<1>2. Listed \subseteq Row
  BY <1>1 DEF Listed
<1>3. \A r, q \in Listed : r.key = q.key => r = q
  BY <1>1 DEF Listed, DistinctKeys
<1>4. IsFiniteSet(1 .. Len(rows)) /\ Cardinality(1 .. Len(rows)) = Len(rows)
  BY <1>1, FS_Interval
<1>5. rows \in Bijection(1 .. Len(rows), Listed)
  BY <1>1 DEF Listed, DistinctKeys, Bijection, Injection, Surjection, IsInjective
<1>6. ExistsBijection(1 .. Len(rows), Listed)
  BY <1>5 DEF ExistsBijection
<1> QED
  BY <1>2, <1>3, <1>4, <1>6, FS_Bijection

(* A page is a part of the roster. *)
LEMMA PageListed ==
  ASSUME rows \in Seq(Row), NEW p \in Nat \ {0}, NEW size \in Nat
  PROVE  PageRows(p, size) \subseteq Listed
<1>1. Len(rows) \in Nat
  BY LenProperties
<1>2. p - 1 \in Nat
  OBVIOUS
<1>3. (p - 1) * size \in Nat /\ p * size \in Nat
  BY <1>2
<1>4. Least(p * size, Len(rows)) <= Len(rows) /\ Least(p * size, Len(rows)) \in Nat
  BY <1>1, <1>3 DEF Least
<1>5. ((p - 1) * size + 1) .. Least(p * size, Len(rows)) \subseteq 1 .. Len(rows)
  BY <1>1, <1>3, <1>4
<1> QED
  BY <1>5 DEF PageRows, Listed

-----------------------------------------------------------------------------
(* Type correctness *)

Active == {"fetch", "commit", "covered", "failed"}

(* Which worker writes which run: a worker that has opened a run owns it,  *)
(* alone, and the run is still RUNNING.  TypeOK is not inductive without   *)
(* it, since a page commit indexes the runs by the worker's run.           *)
OwnsRunning ==
  \A w \in Workers : worker[w].phase \in Active =>
    /\ worker[w].run \in 1 .. Len(runs)
    /\ runs[worker[w].run].status = "RUNNING"
    /\ worker[w].page >= 1

OwnsAlone ==
  \A v, w \in Workers :
    /\ worker[v].phase \in Active /\ worker[w].phase \in Active
    /\ worker[v].run = worker[w].run
    => v = w

LocalState ==
  \A w \in Workers :
    /\ worker[w].phase # "idle" => worker[w].size >= 1
    /\ worker[w].phase = "commit" => worker[w].expect # None
    /\ worker[w].phase \in {"idle", "start"} =>
         worker[w].run = 0 /\ worker[w].pages = {} /\ worker[w].expect = None
    /\ IsFiniteSet(worker[w].fetched)

LastRunExists == checkpoint # None => checkpoint.lastRun \in 1 .. Len(runs)

Ownership == OwnsRunning /\ OwnsAlone /\ LocalState /\ LastRunExists

IndType == TypeOK /\ Ownership

LEMMA TypeInit == Init => IndType
<1> SUFFICES ASSUME Init PROVE IndType
  OBVIOUS
<1>1. rows \in Seq(Row) /\ DistinctKeys(rows)
  <2>1. PICK n \in 0 .. MaxRows : rows \in [1 .. n -> Row]
    BY DEF Init, Rosters
  <2>2. n \in Nat
    BY BoundsAreNaturals
  <2> QED
    BY <2>1, <2>2, FunctionIsSeq DEF Init, Rosters
<1>3. runs = <<>> /\ runs \in Seq(Run) /\ Len(runs) = 0
  BY EmptySeq DEF Init
<1>4. Idle \in Worker
  BY DEF Idle, Worker, Phases, Manifest
<1>5. worker = [w \in Workers |-> Idle] /\ checkpoint = None /\ observations = {}
      /\ drifts = 0 /\ crashes = 0
  BY DEF Init
<1>6. TypeOK
  BY <1>1, <1>3, <1>4, <1>5 DEF TypeOK
<1>7. IsFiniteSet({})
  BY FS_EmptySet
<1>8. Ownership
  BY <1>3, <1>5, <1>7 DEF Ownership, OwnsRunning, OwnsAlone, LocalState, LastRunExists, Idle, Active
<1> QED
  BY <1>6, <1>8 DEF IndType

(* The three changes of the provider keep rows a roster. *)
LEMMA DriftType ==
  ASSUME IndType, Amend \/ Withdraw \/ Enlist
  PROVE  /\ rows' \in Seq(Row) /\ DistinctKeys(rows)'
         /\ drifts' \in Nat /\ drifts' > 0
         /\ UNCHANGED <<runs, checkpoint, observations, worker, crashes>>
<1> USE DEF Drift
<1>1. rows \in Seq(Row) /\ DistinctKeys(rows) /\ drifts \in Nat
  BY DEF IndType, TypeOK
<1>2. Len(rows) \in Nat /\ rows \in [1 .. Len(rows) -> Row]
  BY <1>1, LenProperties
<1>3. drifts' = drifts + 1
      /\ UNCHANGED <<runs, checkpoint, observations, worker, crashes>>
  BY DEF Amend, Withdraw, Enlist
<1>4. \E n \in Nat : rows' \in [1 .. n -> Row]
                     /\ \A i, j \in 1 .. n : rows'[i].key = rows'[j].key => i = j
  <2>1. CASE Amend
    <3>1. PICK i \in 1 .. Len(rows), h \in Hashes :
            rows' = [rows EXCEPT ![i] = [key |-> rows[i].key, hash |-> h]]
      BY <2>1 DEF Amend
    <3>2. [key |-> rows[i].key, hash |-> h] \in Row
      BY <1>2 DEF Row
    <3>3. rows' \in [1 .. Len(rows) -> Row]
      BY <1>2, <3>1, <3>2
    <3>4. \A j \in 1 .. Len(rows) : rows'[j].key = rows[j].key
      BY <1>2, <3>1
    <3> QED
      BY <1>1, <1>2, <3>3, <3>4 DEF DistinctKeys
  <2>2. CASE Withdraw
    <3>1. PICK i \in 1 .. Len(rows) :
            rows' = [j \in 1 .. Len(rows) - 1 |-> IF j < i THEN rows[j] ELSE rows[j + 1]]
      BY <2>2 DEF Withdraw
    <3>2. Len(rows) - 1 \in Nat
      BY <1>2
    <3>3. rows' \in [1 .. Len(rows) - 1 -> Row]
      BY <1>2, <3>1, <3>2
    <3>4. \A j, k \in 1 .. Len(rows) - 1 : rows'[j].key = rows'[k].key => j = k
      BY <1>1, <1>2, <3>1, <3>2 DEF DistinctKeys
    <3> QED
      BY <3>2, <3>3, <3>4
  <2>3. CASE Enlist
    <3>1. PICK i \in 1 .. Len(rows) + 1, r \in Row :
            /\ \A q \in Listed : q.key # r.key
            /\ rows' = [j \in 1 .. Len(rows) + 1 |->
                          IF j < i THEN rows[j] ELSE IF j = i THEN r ELSE rows[j - 1]]
      BY <2>3 DEF Enlist
    <3>2. rows' \in [1 .. Len(rows) + 1 -> Row]
      BY <1>2, <3>1
    <3>3. \A j \in 1 .. Len(rows) : rows[j] \in Listed /\ rows[j].key # r.key
      BY <3>1 DEF Listed
    <3>4. \A j, k \in 1 .. Len(rows) + 1 : rows'[j].key = rows'[k].key => j = k
      BY <1>1, <1>2, <3>1, <3>3 DEF DistinctKeys
    <3> QED
      BY <1>2, <3>2, <3>4
  <2> QED
    BY <2>1, <2>2, <2>3
<1>5. PICK n \in Nat : rows' \in [1 .. n -> Row]
                     /\ \A i, j \in 1 .. n : rows'[i].key = rows'[j].key => i = j
  BY <1>4
<1>6. rows' \in Seq(Row) /\ Len(rows') = n
  BY <1>5, FunctionIsSeq
<1> QED
  BY <1>1, <1>3, <1>5, <1>6 DEF DistinctKeys

(* The arithmetic of paging stays in the naturals. *)
LEMMA PagingNat ==
  ASSUME NEW total \in Nat, NEW size \in Nat \ {0}
  PROVE  PageCount(total, size) \in Nat
BY DEF PageCount

(* The updates of a run row and of a worker's local state, field by field. *)
LEMMA CountedRun ==
  ASSUME NEW r \in Run, NEW got \in SUBSET Row, NEW fresh, NEW page \in Nat,
         IsFiniteSet(got), fresh \subseteq got
  PROVE  Counted(r, got, fresh, page) \in Run
<1>1. Cardinality(got) \in Nat /\ Cardinality(fresh) \in Nat
      /\ Cardinality(got \ fresh) \in Nat
  BY FS_CardinalityType, FS_Subset, FS_Difference
<1> QED
  BY <1>1 DEF Counted, Run

LEMMA AdvancedWorker ==
  ASSUME NEW me \in Worker, NEW pages \in Manifest
  PROVE  Advanced(me, pages) \in Worker
BY DEF Advanced, Worker, Phases

LEMMA OpenedWorker ==
  ASSUME NEW me \in Worker, NEW run \in Nat
  PROVE  Opened(me, run) \in Worker
BY DEF Opened, Worker, Phases, Checkpoint, Expect, Manifest

(* What one page transaction writes has the right types. *)
LEMMA CommitType ==
  ASSUME IndType, NEW w \in Workers, CommitPage(w)
  PROVE  /\ runs' \in Seq(Run) /\ Len(runs') = Len(runs)
         /\ \A n \in 1 .. Len(runs) : runs'[n].status = runs[n].status
         /\ checkpoint' \in Checkpoint /\ checkpoint'.lastRun = worker[w].run
         /\ observations' \subseteq [row : Row, run : 1 .. Len(runs)]
         /\ worker' \in [Workers -> Worker]
<1> DEFINE me == worker[w]
           fresh == me.fetched \ Stored
<1>1. me \in Worker /\ runs \in Seq(Run) /\ me.run \in 1 .. Len(runs)
      /\ me.phase = "commit" /\ me.expect \in Expect /\ IsFiniteSet(me.fetched)
  BY DEF IndType, TypeOK, Ownership, OwnsRunning, LocalState, Worker, CommitPage, Fresh, Manifested, Saved, Active
<1>2. me.fetched \subseteq Row /\ me.pages \in Manifest /\ me.page \in Nat
      /\ me.size \in Nat /\ me.run \in Nat
  BY <1>1 DEF Worker
<1>4. runs[me.run] \in Run
  BY <1>1, ElementOfSeq
<1>5. PICK r \in Run : /\ runs' = [runs EXCEPT ![me.run] = r]
                       /\ r.status = runs[me.run].status
  <2> DEFINE r == Counted(runs[me.run], me.fetched, fresh, me.page)
  <2>1. runs' = [runs EXCEPT ![me.run] = r]
    BY DEF CommitPage, Fresh, Manifested, Saved
  <2>2. r \in Run
    BY <1>1, <1>2, <1>4, CountedRun
  <2>3. r.status = runs[me.run].status
    BY DEF Counted
  <2> QED
    BY <2>1, <2>2, <2>3
<1>6. /\ runs' \in Seq(Run) /\ Len(runs') = Len(runs)
      /\ \A n \in 1 .. Len(runs) : runs'[n].status = runs[n].status
  BY <1>1, <1>5, ExceptSeq
<1>7. me.pages \cup {me.fetched} \in Manifest
  BY <1>2 DEF Manifest
<1>8. checkpoint' \in Checkpoint /\ checkpoint'.lastRun = me.run
  BY <1>1, <1>2, <1>7 DEF CommitPage, Fresh, Manifested, Saved, Checkpoint, Expect
<1>9. observations' \subseteq [row : Row, run : 1 .. Len(runs)]
  BY <1>1, <1>2 DEF CommitPage, Fresh, Manifested, Saved, IndType, TypeOK
<1>10. worker' \in [Workers -> Worker]
  BY <1>1, <1>7, AdvancedWorker DEF CommitPage, Fresh, Manifested, Saved, Set, IndType, TypeOK
<1> QED
  BY <1>6, <1>8, <1>9, <1>10

(* A step that changes only one worker's local state. *)
LEMMA LocalType ==
  ASSUME IndType, NEW w \in Workers, NEW q \in Worker,
         worker' = [worker EXCEPT ![w] = q],
         UNCHANGED <<provider, database>>, crashes' \in Nat,
         q.phase \in Active => /\ worker[w].phase \in Active
                               /\ q.run = worker[w].run /\ q.page >= 1,
         q.phase # "idle" => q.size >= 1,
         q.phase = "commit" => q.expect # None,
         q.phase \in {"idle", "start"} => q.run = 0 /\ q.pages = {} /\ q.expect = None,
         IsFiniteSet(q.fetched)
  PROVE  IndType'
<1>1. worker \in [Workers -> Worker]
  BY DEF IndType, TypeOK
<1>2. worker'[w] = q /\ \A v \in Workers \ {w} : worker'[v] = worker[v]
  BY <1>1
<1>3. TypeOK'
  BY <1>1 DEF IndType, TypeOK, provider, database, DistinctKeys
<1>4. Ownership'
  BY <1>2 DEF IndType, Ownership, OwnsRunning, OwnsAlone, LocalState, LastRunExists, provider, database
<1> QED
  BY <1>3, <1>4 DEF IndType

(* What a worker stores as the fetched page is finite and listed. *)
LEMMA FetchedListed ==
  ASSUME IndType, NEW w \in Workers, worker[w].phase = "fetch",
         NEW got \in SUBSET PageRows(worker[w].page, worker[w].size)
  PROVE  got \subseteq Listed /\ got \subseteq Row /\ IsFiniteSet(got)
<1>1. worker[w].page \in Nat \ {0} /\ worker[w].size \in Nat
  BY DEF IndType, TypeOK, Worker, Ownership, OwnsRunning, Active
<1>2. rows \in Seq(Row) /\ DistinctKeys(rows)
  BY DEF IndType, TypeOK
<1>3. got \subseteq Listed
  BY <1>1, <1>2, PageListed
<1> QED
  BY <1>2, <1>3, ListedRows, FS_Subset

(* Sizes a worker may hold. *)
LEMMA IdleWorker == Idle \in Worker /\ IsFiniteSet(Idle.fetched)
BY FS_EmptySet DEF Idle, Worker, Phases, Manifest

LEMMA TypeStep == IndType /\ [Next]_vars => IndType'
<1> SUFFICES ASSUME IndType, [Next]_vars PROVE IndType'
  OBVIOUS
<1>0. /\ worker \in [Workers -> Worker] /\ runs \in Seq(Run) /\ Len(runs) \in Nat
      /\ checkpoint \in Checkpoint \cup {None} /\ crashes \in Nat
      /\ rows \in Seq(Row) /\ DistinctKeys(rows) /\ Len(rows) \in Nat
  BY LenProperties DEF IndType, TypeOK
<1>1. CASE Amend \/ Withdraw \/ Enlist
  <2>1. /\ rows' \in Seq(Row) /\ DistinctKeys(rows)' /\ drifts' \in Nat
        /\ UNCHANGED <<runs, checkpoint, observations, worker, crashes>>
    BY <1>1, DriftType
  <2> QED
    BY <2>1 DEF IndType, TypeOK, Ownership, OwnsRunning, OwnsAlone, LocalState, LastRunExists
<1>2. ASSUME NEW w \in Workers, ReadCheckpoint(w) PROVE IndType'
  <2>1. PICK resume \in BOOLEAN, size \in PageSizes :
          Set(w, Ready(resume, size, IF resume THEN checkpoint ELSE None))
    BY <1>2 DEF ReadCheckpoint
  <2> DEFINE pr == IF resume THEN checkpoint ELSE None
             q == Ready(resume, size, pr)
  <2>2. size \in Nat /\ pr \in Checkpoint \cup {None} /\ size >= 1
    BY <1>0, BoundsAreNaturals
  <2>3. worker' = [worker EXCEPT ![w] = q]
    BY <2>1 DEF Set
  <2> HIDE DEF pr
  <2>4. q \in Worker
    BY <2>2 DEF Ready, Worker, Phases, Manifest
  <2>5. /\ q.phase = "start" /\ q.run = 0 /\ q.pages = {} /\ q.expect = None
        /\ q.size >= 1 /\ q.fetched = {}
    BY <2>2 DEF Ready
  <2>6. UNCHANGED <<provider, database>> /\ crashes' \in Nat
    BY <1>0, <1>2 DEF ReadCheckpoint
  <2> HIDE DEF q
  <2> QED
    BY <2>3, <2>4, <2>5, <2>6, FS_EmptySet, LocalType DEF Active
<1>3. ASSUME NEW w \in Workers, FetchPage(w) PROVE IndType'
  <2> DEFINE me == worker[w]
             expect == [total |-> Len(rows), count |-> PageCount(Len(rows), me.size)]
  <2>1. PICK got \in SUBSET PageRows(me.page, me.size) :
          Set(w, IF Acceptable(me, Len(rows), got)
                 THEN [me EXCEPT !.phase = "commit", !.fetched = got, !.expect = expect]
                 ELSE [me EXCEPT !.phase = "failed"])
    BY <1>3 DEF FetchPage, ReportedTotal
  <2>2. me \in Worker /\ me.phase = "fetch" /\ me.page >= 1 /\ me.size >= 1
    BY <1>0, <1>3 DEF FetchPage, IndType, Ownership, OwnsRunning, LocalState, Active
  <2>3. got \subseteq Row /\ IsFiniteSet(got)
    BY <1>3, FetchedListed DEF FetchPage
  <2>4. IsFiniteSet(me.fetched)
    BY DEF IndType, Ownership, LocalState
  <2>5. UNCHANGED <<provider, database>> /\ crashes' \in Nat
    BY <1>0, <1>3 DEF FetchPage
  <2>6. CASE Acceptable(me, Len(rows), got)
    <3> DEFINE q == [me EXCEPT !.phase = "commit", !.fetched = got, !.expect = expect]
    <3>1. expect \in Expect
      <4>1. me.size \in Nat \ {0}
        BY <2>2 DEF Worker
      <4> QED
        BY <1>0, <4>1, PagingNat DEF Expect
    <3> HIDE DEF expect
    <3>2. q \in Worker /\ q.phase = "commit" /\ q.run = me.run /\ q.page = me.page
          /\ q.size = me.size /\ q.expect = expect /\ q.fetched = got
      BY <2>2, <2>3, <3>1 DEF Worker, Phases
    <3>3. worker' = [worker EXCEPT ![w] = q]
      BY <2>1, <2>6 DEF Set
    <3> QED
      BY <2>2, <2>3, <2>5, <3>1, <3>2, <3>3, LocalType, NoneIsNoRecord DEF Active
  <2>7. CASE ~Acceptable(me, Len(rows), got)
    <3> DEFINE q == [me EXCEPT !.phase = "failed"]
    <3>1. q \in Worker /\ q.phase = "failed" /\ q.run = me.run /\ q.page = me.page
          /\ q.size = me.size /\ q.fetched = me.fetched
      BY <2>2 DEF Worker, Phases
    <3>2. worker' = [worker EXCEPT ![w] = q]
      BY <2>1, <2>7 DEF Set
    <3> QED
      BY <2>2, <2>4, <2>5, <3>1, <3>2, LocalType DEF Active
  <2> QED
    BY <2>6, <2>7
<1>4. ASSUME NEW w \in Workers, StepRaises(w) PROVE IndType'
  <2> DEFINE me == worker[w]
             q == [me EXCEPT !.phase = "failed"]
  <2>1. me \in Worker /\ me.phase \in Active /\ me.page >= 1 /\ me.size >= 1
        /\ IsFiniteSet(me.fetched)
    BY <1>0, <1>4 DEF StepRaises, IndType, Ownership, OwnsRunning, LocalState, Active
  <2>2. q \in Worker /\ q.phase = "failed" /\ q.run = me.run /\ q.page = me.page
        /\ q.size = me.size /\ q.fetched = me.fetched
    BY <2>1 DEF Worker, Phases
  <2>3. worker' = [worker EXCEPT ![w] = q]
    BY <1>4 DEF StepRaises, Set
  <2> QED
    BY <1>0, <1>4, <2>1, <2>2, <2>3, LocalType DEF StepRaises, Active
<1>5. ASSUME NEW w \in Workers, Crash(w) PROVE IndType'
  <2>1. worker' = [worker EXCEPT ![w] = Idle]
    BY <1>5 DEF Crash, Set
  <2>2. /\ Idle.phase = "idle" /\ Idle.run = 0 /\ Idle.pages = {} /\ Idle.expect = None
    BY DEF Idle
  <2>3. UNCHANGED <<provider, database>> /\ crashes' \in Nat
    BY <1>0, <1>5 DEF Crash
  <2>4. Idle.phase \notin Active /\ Idle.phase # "commit"
    BY <2>2 DEF Active
  <2> QED
    BY <2>1, <2>2, <2>3, <2>4, IdleWorker, LocalType
<1>6. ASSUME NEW w \in Workers, StartRun(w) PROVE IndType'
  <2> DEFINE new == [status |-> "RUNNING", resume |-> worker[w].resume,
                     before |-> Cursor, after |-> None,
                     seen |-> 0, created |-> 0, unchanged |-> 0]
             q == Opened(worker[w], Len(runs) + 1)
  <2>1. worker[w] \in Worker /\ worker[w].phase = "start" /\ worker[w].size >= 1
    BY <1>0, <1>6 DEF StartRun, IndType, Ownership, LocalState
  <2>2. new \in Run
    BY <1>0, <2>1 DEF Run, Cursor, Checkpoint, Worker, Status
  <2>3. runs' = Append(runs, new) /\ worker' = [worker EXCEPT ![w] = q]
        /\ UNCHANGED <<provider, checkpoint, observations, crashes>>
    BY <1>6 DEF StartRun, Set
  <2>4. new.status = "RUNNING"
    OBVIOUS
  <2> HIDE DEF new
  <2>5. /\ runs' \in Seq(Run) /\ Len(runs') = Len(runs) + 1
        /\ \A n \in 1 .. Len(runs) : runs'[n] = runs[n]
        /\ runs'[Len(runs) + 1] = new
    BY <1>0, <2>2, <2>3, AppendProperties
  <2>6. /\ q.run = Len(runs) + 1 /\ q.page >= 1 /\ q.size >= 1
        /\ q.phase \in {"fetch", "failed"} /\ q.fetched = {}
    BY <2>1 DEF Opened, Worker, Checkpoint
  <2>7. q \in Worker
    BY <1>0, <2>1, OpenedWorker
  <2> HIDE DEF q
  <2>8. worker'[w] = q /\ \A v \in Workers \ {w} : worker'[v] = worker[v]
    BY <1>0, <2>3
  <2>9. TypeOK'
    BY <1>0, <2>3, <2>5, <2>7 DEF IndType, TypeOK, provider, DistinctKeys
  <2>10. OwnsRunning'
    BY <1>0, <2>4, <2>5, <2>6, <2>8 DEF IndType, Ownership, OwnsRunning, Active
  <2>11. OwnsAlone'
    <3>1. \A v \in Workers \ {w} : worker[v].phase \in Active => worker[v].run # Len(runs) + 1
      BY <1>0 DEF IndType, Ownership, OwnsRunning
    <3> QED
      BY <2>6, <2>8, <3>1 DEF IndType, Ownership, OwnsAlone
  <2>12. LocalState'
    BY <2>6, <2>8, FS_EmptySet DEF IndType, Ownership, LocalState
  <2>13. LastRunExists'
    BY <1>0, <2>3, <2>5 DEF IndType, Ownership, LastRunExists
  <2> QED
    BY <2>9, <2>10, <2>11, <2>12, <2>13 DEF IndType, Ownership
<1>7. ASSUME NEW w \in Workers, CommitPage(w) PROVE IndType'
  <2> DEFINE me == worker[w]
             q == Advanced(me, me.pages \cup {me.fetched})
  <2>1. /\ runs' \in Seq(Run) /\ Len(runs') = Len(runs)
        /\ \A n \in 1 .. Len(runs) : runs'[n].status = runs[n].status
        /\ checkpoint' \in Checkpoint /\ checkpoint'.lastRun = me.run
        /\ observations' \subseteq [row : Row, run : 1 .. Len(runs)]
        /\ worker' \in [Workers -> Worker]
    BY <1>7, CommitType
  <2>2. worker' = [worker EXCEPT ![w] = q] /\ UNCHANGED <<provider, crashes>>
    BY <1>7 DEF CommitPage, Fresh, Manifested, Saved, Set
  <2>3. me \in Worker /\ me.phase = "commit" /\ me.page >= 1 /\ me.size >= 1
        /\ me.run \in 1 .. Len(runs)
    BY <1>0, <1>7 DEF CommitPage, Fresh, Manifested, Saved, IndType, Ownership, OwnsRunning, LocalState, Active
  <2>4. /\ q.run = me.run /\ q.page >= 1 /\ q.size >= 1
        /\ q.phase \in {"fetch", "covered", "failed"} /\ q.fetched = {}
    BY <2>3 DEF Advanced, Worker
  <2> HIDE DEF q
  <2>5. worker'[w] = q /\ \A v \in Workers \ {w} : worker'[v] = worker[v]
    BY <1>0, <2>2
  <2>6. TypeOK'
    BY <2>1, <2>2 DEF IndType, TypeOK, provider, DistinctKeys
  <2>7. OwnsRunning'
    BY <2>1, <2>3, <2>4, <2>5 DEF IndType, Ownership, OwnsRunning, Active
  <2>8. OwnsAlone'
    BY <2>3, <2>4, <2>5 DEF IndType, Ownership, OwnsAlone, Active
  <2>9. LocalState'
    BY <2>4, <2>5, FS_EmptySet DEF IndType, Ownership, LocalState
  <2>10. LastRunExists'
    BY <2>1, <2>3 DEF LastRunExists
  <2> QED
    BY <2>6, <2>7, <2>8, <2>9, <2>10 DEF IndType, Ownership
<1>8. ASSUME NEW w \in Workers, FinishRun(w) \/ AbortRun(w) PROVE IndType'
  <2> DEFINE me == worker[w]
  <2>1. PICK st \in Status :
          /\ runs' = [runs EXCEPT ![me.run].status = st]
          /\ worker' = [worker EXCEPT ![w] = Idle]
          /\ UNCHANGED <<provider, checkpoint, observations, crashes>>
    BY <1>8 DEF FinishRun, AbortRun, Set, Status
  <2>2. me.run \in 1 .. Len(runs) /\ me.phase \in Active
    BY <1>8 DEF FinishRun, AbortRun, IndType, Ownership, OwnsRunning, Active
  <2>3. runs[me.run] \in Run
    BY <1>0, <2>2, ElementOfSeq
  <2>4. [runs[me.run] EXCEPT !.status = st] \in Run
    BY <2>3 DEF Run
  <2>5. /\ runs' \in Seq(Run) /\ Len(runs') = Len(runs)
        /\ \A n \in 1 .. Len(runs) : n # me.run => runs'[n] = runs[n]
    BY <1>0, <2>1, <2>2, <2>4, ExceptSeq
  <2>6. worker'[w] = Idle /\ \A v \in Workers \ {w} : worker'[v] = worker[v]
    BY <1>0, <2>1
  <2>7. TypeOK'
    BY <1>0, <2>1, <2>5, IdleWorker DEF IndType, TypeOK, provider, DistinctKeys
  <2>8. \A v \in Workers \ {w} : worker[v].phase \in Active => worker[v].run # me.run
    BY <2>2 DEF IndType, Ownership, OwnsAlone
  <2>9. /\ Idle.phase = "idle" /\ Idle.run = 0 /\ Idle.pages = {} /\ Idle.expect = None
        /\ IsFiniteSet(Idle.fetched)
    BY IdleWorker DEF Idle
  <2>10. Ownership'
    BY <2>1, <2>5, <2>6, <2>8, <2>9 DEF IndType, Ownership, OwnsRunning, OwnsAlone, LocalState, LastRunExists, Active
  <2> QED
    BY <2>7, <2>10 DEF IndType
<1>9. CASE UNCHANGED vars
  BY <1>9 DEF IndType, TypeOK, Ownership,
            OwnsRunning, OwnsAlone, LocalState, LastRunExists, vars, DistinctKeys
<1> QED
  BY <1>1, <1>2, <1>3, <1>4, <1>5, <1>6, <1>7, <1>8, <1>9 DEF Next, WorkerStep

(* TypeOK and Ownership hold in every reachable state. *)
THEOREM TypeInvariant == Spec => [](TypeOK /\ Ownership)
<1>1. Init => IndType
  BY TypeInit
<1>2. IndType /\ [Next]_vars => IndType'
  BY TypeStep
<1>3. IndType => TypeOK /\ Ownership
  BY DEF IndType
<1> QED
  BY <1>1, <1>2, <1>3, PTL DEF Spec

-----------------------------------------------------------------------------
(* Manifests *)

Clean(m) == \A r, q \in m : r.key = q.key => r = q

(* A manifest anybody holds is stored and unambiguous; while the provider  *)
(* has not changed it is also a part of the roster, and a total anybody    *)
(* remembers is the roster's length.                                       *)
Good(m) == m \subseteq Stored /\ Clean(m) /\ (drifts = 0 => m \subseteq Listed)
GoodTotal(t) == drifts = 0 => t = Len(rows)

GoodCheckpoint(c) == c # None => Good(Seen(c)) /\ GoodTotal(c.total)

GoodWorker(me) ==
  /\ Good(Seen(me))
  /\ Clean(Seen(me) \cup me.fetched)
  /\ drifts = 0 => me.fetched \subseteq Listed
  /\ me.expect # None => GoodTotal(me.expect.total)
  /\ GoodCheckpoint(me.prior)

Carried == GoodCheckpoint(checkpoint) /\ \A w \in Workers : GoodWorker(worker[w])

(* What is good stays good: observations only grow, and a changed provider *)
(* voids the claims about its roster.                                      *)
LEMMA GoodStays ==
  ASSUME observations \subseteq observations',
         drifts' = 0 => drifts = 0 /\ rows' = rows
  PROVE  /\ \A m : Good(m) => Good(m)'
         /\ \A t : GoodTotal(t) => GoodTotal(t)'
         /\ \A c : GoodCheckpoint(c) => GoodCheckpoint(c)'
         /\ \A me : GoodWorker(me) => GoodWorker(me)'
<1>1. Stored \subseteq Stored'
  BY DEF Stored
<1>2. drifts' = 0 => Listed' = Listed /\ Len(rows') = Len(rows)
  BY DEF Listed
<1>3. \A m : Good(m) => Good(m)'
  BY <1>1, <1>2 DEF Good
<1>4. \A t : GoodTotal(t) => GoodTotal(t)'
  BY <1>2 DEF GoodTotal
<1>5. \A c : GoodCheckpoint(c) => GoodCheckpoint(c)'
  BY <1>3, <1>4 DEF GoodCheckpoint
<1> QED
  BY <1>2, <1>3, <1>4, <1>5 DEF GoodWorker

LEMMA GoodIdle ==
  ASSUME NEW resume, NEW size
  PROVE  GoodWorker(Idle) /\ GoodWorker(Ready(resume, size, None))
BY DEF GoodWorker, GoodCheckpoint, Idle, Ready, Seen, Good, Clean

LEMMA CarriedInit == Init => Carried
BY GoodIdle DEF Init, Carried, GoodCheckpoint

(* Observations only grow, and only a drift changes the provider. *)
LEMMA ArchiveGrows ==
  ASSUME IndType, [Next]_vars
  PROVE  /\ observations \subseteq observations'
         /\ drifts' = 0 => drifts = 0 /\ rows' = rows
<1>1. CASE Amend \/ Withdraw \/ Enlist
  BY <1>1, DriftType
<1>2. CASE \E w \in Workers : CommitPage(w)
  BY <1>2 DEF CommitPage, Fresh, Manifested, Saved, provider
<1>3. CASE \E w \in Workers : ReadCheckpoint(w) \/ StartRun(w) \/ FetchPage(w) \/ FinishRun(w)
                             \/ AbortRun(w) \/ StepRaises(w) \/ Crash(w)
  BY <1>3 DEF ReadCheckpoint, StartRun, FetchPage, FinishRun, AbortRun, StepRaises, Crash,
              provider, database
<1>4. CASE UNCHANGED vars
  BY <1>4 DEF vars
<1> QED
  BY <1>1, <1>2, <1>3, <1>4 DEF Next, WorkerStep

(* A fetched page that passes the checks keeps its worker's manifest good. *)
LEMMA FetchGood ==
  ASSUME IndType, Carried, NEW w \in Workers, FetchPage(w)
  PROVE  GoodWorker(worker'[w])
<1> DEFINE me == worker[w]
           expect == [total |-> Len(rows), count |-> PageCount(Len(rows), me.size)]
<1>1. PICK got \in SUBSET PageRows(me.page, me.size) :
        worker' = [worker EXCEPT ![w] =
                     IF Acceptable(me, Len(rows), got)
                     THEN [me EXCEPT !.phase = "commit", !.fetched = got, !.expect = expect]
                     ELSE [me EXCEPT !.phase = "failed"]]
  BY DEF FetchPage, Set, ReportedTotal
<1>2. GoodWorker(me) /\ me \in Worker /\ me.phase = "fetch" /\ worker \in [Workers -> Worker]
  BY DEF Carried, FetchPage, IndType, TypeOK
<1>3. got \subseteq Listed /\ \A r, q \in Listed : r.key = q.key => r = q
  BY <1>2, FetchedListed, ListedRows DEF IndType, TypeOK
<1>4. CASE Acceptable(me, Len(rows), got)
  <2> DEFINE q == [me EXCEPT !.phase = "commit", !.fetched = got, !.expect = expect]
  <2>1. worker'[w] = q
    BY <1>1, <1>2, <1>4
  <2>2. /\ q.pages = me.pages /\ q.fetched = got /\ q.expect.total = Len(rows)
        /\ q.prior = me.prior
    BY <1>2 DEF Worker
  <2>3. Seen(q) = Seen(me)
    BY <2>2 DEF Seen
  <2>4. \A r \in got, s \in Seen(me) : r.key # s.key
    BY <1>4 DEF Acceptable
  <2> HIDE DEF q
  <2>5. Clean(Seen(q) \cup q.fetched)
    BY <1>2, <1>3, <2>2, <2>3, <2>4 DEF GoodWorker, Good, Clean
  <2> QED
    BY <1>2, <1>3, <2>1, <2>2, <2>3, <2>5 DEF GoodWorker, GoodTotal
<1>5. CASE ~Acceptable(me, Len(rows), got)
  <2> DEFINE q == [me EXCEPT !.phase = "failed"]
  <2>1. worker'[w] = q
    BY <1>1, <1>2, <1>5
  <2>2. /\ q.pages = me.pages /\ q.fetched = me.fetched /\ q.expect = me.expect
        /\ q.prior = me.prior
    BY <1>2 DEF Worker
  <2> HIDE DEF q
  <2> QED
    BY <1>2, <2>1, <2>2 DEF GoodWorker, Seen
<1> QED
  BY <1>4, <1>5

(* A page transaction passes its worker's manifest on to the checkpoint.   *)
LEMMA CommitGood ==
  ASSUME IndType, Carried, NEW w \in Workers, CommitPage(w)
  PROVE  GoodCheckpoint(checkpoint)' /\ GoodWorker(worker[w])'
<1> DEFINE me == worker[w]
           q == Advanced(me, me.pages \cup {me.fetched})
<1>1. /\ worker' = [worker EXCEPT ![w] = q] /\ worker \in [Workers -> Worker]
      /\ UNCHANGED provider
      /\ checkpoint'.pages = me.pages \cup {me.fetched}
      /\ checkpoint'.total = me.expect.total
      /\ observations' = observations \cup
           {[row |-> r, run |-> me.run] : r \in me.fetched \ Stored}
  BY DEF CommitPage, Fresh, Manifested, Saved, Set, IndType, TypeOK
<1>2. GoodWorker(me) /\ me.expect # None
  BY DEF Carried, CommitPage, Fresh, Manifested, Saved, IndType, Ownership, LocalState
<1>3. /\ q.pages = me.pages \cup {me.fetched} /\ q.fetched = {}
      /\ q.expect = me.expect /\ q.prior = None
  BY DEF Advanced
<1>4. worker'[w] = q
  BY <1>1
<1> HIDE DEF q
<1> DEFINE new == {[row |-> r, run |-> me.run] : r \in me.fetched \ Stored}
<1>5. Stored' = Stored \cup me.fetched
  <2>1. {o.row : o \in new} = me.fetched \ Stored
    <3>1. \A o \in new : o.row \in me.fetched \ Stored
      OBVIOUS
    <3>2. \A r \in me.fetched \ Stored : \E o \in new : r = o.row
      <4> TAKE r \in me.fetched \ Stored
      <4> WITNESS [row |-> r, run |-> me.run] \in new
      <4> QED
        OBVIOUS
    <3> HIDE DEF new
    <3> QED
      BY <3>1, <3>2
  <2> HIDE DEF new
  <2>2. Stored' = Stored \cup {o.row : o \in new}
    BY <1>1 DEF Stored, new
  <2> QED
    BY <2>1, <2>2
<1>6. /\ Seen(worker[w])' = Seen(me) \cup me.fetched
      /\ Seen(checkpoint)' = Seen(me) \cup me.fetched
  BY <1>1, <1>3, <1>4 DEF Seen
<1>7. Listed' = Listed /\ drifts' = drifts /\ rows' = rows
  BY <1>1 DEF provider, Listed
<1>8. \A m : m = Seen(me) \cup me.fetched => Good(m)'
  <2>1. (Seen(me) \cup me.fetched) \subseteq Stored'
    BY <1>2, <1>5 DEF GoodWorker, Good
  <2>2. Clean(Seen(me) \cup me.fetched)
    BY <1>2 DEF GoodWorker
  <2>3. drifts = 0 => (Seen(me) \cup me.fetched) \subseteq Listed
    BY <1>2 DEF GoodWorker, Good
  <2> QED
    BY <1>7, <2>1, <2>2, <2>3 DEF Good, Clean
<1>9. Good(Seen(worker[w]))' /\ Good(Seen(checkpoint))'
  BY <1>6, <1>8 DEF Good
<1>10. GoodTotal(me.expect.total) /\ GoodTotal(worker[w].expect.total)'
       /\ GoodTotal(checkpoint.total)'
  BY <1>1, <1>2, <1>3, <1>4, <1>7 DEF GoodWorker, GoodTotal
<1>11. /\ Clean(Seen(worker[w]) \cup worker[w].fetched)'
       /\ GoodCheckpoint(worker[w].prior)'
       /\ (drifts = 0 => worker[w].fetched \subseteq Listed)'
  BY <1>3, <1>4, <1>9 DEF Good, Clean, GoodCheckpoint
<1> QED
  BY <1>9, <1>10, <1>11 DEF GoodCheckpoint, GoodWorker

(* The other steps of a worker carry a good manifest on, or drop it. *)
LEMMA OtherStepGood ==
  ASSUME IndType, Carried, NEW w \in Workers,
         \/ ReadCheckpoint(w) \/ StartRun(w) \/ FinishRun(w) \/ AbortRun(w)
         \/ StepRaises(w) \/ Crash(w)
  PROVE  /\ GoodWorker(worker'[w])
         /\ \A v \in Workers \ {w} : worker'[v] = worker[v]
         /\ UNCHANGED <<provider, checkpoint, observations>>
<1>1. worker \in [Workers -> Worker] /\ worker[w] \in Worker /\ GoodWorker(worker[w])
      /\ GoodCheckpoint(checkpoint) /\ checkpoint \in Checkpoint \cup {None}
  BY DEF IndType, TypeOK, Carried
<1>2. CASE ReadCheckpoint(w)
  <2>1. PICK resume \in BOOLEAN, size \in PageSizes :
          worker' = [worker EXCEPT ![w] =
                       Ready(resume, size, IF resume THEN checkpoint ELSE None)]
    BY <1>2 DEF ReadCheckpoint, Set
  <2> DEFINE pr == IF resume THEN checkpoint ELSE None
             q == Ready(resume, size, pr)
  <2>2. worker'[w] = q /\ \A v \in Workers \ {w} : worker'[v] = worker[v]
    BY <1>1, <2>1
  <2>3. GoodCheckpoint(pr)
    BY <1>1 DEF GoodCheckpoint
  <2> HIDE DEF pr
  <2>4. q.pages = {} /\ q.fetched = {} /\ q.expect = None /\ q.prior = pr
    BY DEF Ready
  <2> HIDE DEF q
  <2>5. GoodWorker(q)
    BY <2>3, <2>4 DEF GoodWorker, Good, Clean, Seen
  <2> QED
    BY <1>2, <2>2, <2>5 DEF ReadCheckpoint, database
<1>3. CASE StartRun(w)
  <2> DEFINE q == Opened(worker[w], Len(runs) + 1)
             pr == worker[w].prior
  <2>1. worker' = [worker EXCEPT ![w] = q]
    BY <1>3 DEF StartRun, Set
  <2>2. worker'[w] = q /\ \A v \in Workers \ {w} : worker'[v] = worker[v]
    BY <1>1, <2>1
  <2>3. GoodCheckpoint(pr)
    BY <1>1 DEF GoodWorker
  <2>4. /\ q.fetched = {} /\ q.prior = None
        /\ pr = None => q.pages = {} /\ q.expect = None
        /\ pr # None => q.pages = pr.pages /\ q.expect.total = pr.total
    BY DEF Opened
  <2> HIDE DEF q, pr
  <2>5. GoodWorker(q)
    BY <2>3, <2>4 DEF GoodWorker, GoodCheckpoint, Good, Clean, Seen
  <2> QED
    BY <1>3, <2>2, <2>5 DEF StartRun
<1>4. CASE StepRaises(w)
  <2> DEFINE q == [worker[w] EXCEPT !.phase = "failed"]
  <2>1. worker'[w] = q /\ \A v \in Workers \ {w} : worker'[v] = worker[v]
    BY <1>1, <1>4 DEF StepRaises, Set
  <2>2. /\ q.pages = worker[w].pages /\ q.fetched = worker[w].fetched
        /\ q.expect = worker[w].expect /\ q.prior = worker[w].prior
    BY <1>1 DEF Worker
  <2> HIDE DEF q
  <2>3. GoodWorker(q)
    BY <1>1, <2>2 DEF GoodWorker, Seen
  <2> QED
    BY <1>4, <2>1, <2>3 DEF StepRaises, database
<1>5. CASE FinishRun(w) \/ AbortRun(w) \/ Crash(w)
  <2>1. worker' = [worker EXCEPT ![w] = Idle] /\ UNCHANGED <<provider, checkpoint, observations>>
    BY <1>5 DEF FinishRun, AbortRun, Crash, Set, database
  <2>2. worker'[w] = Idle /\ \A v \in Workers \ {w} : worker'[v] = worker[v]
    BY <1>1, <2>1
  <2> QED
    BY <2>1, <2>2, GoodIdle
<1> QED
  BY <1>2, <1>3, <1>4, <1>5

LEMMA CarriedStep == IndType /\ Carried /\ [Next]_vars => Carried'
<1> SUFFICES ASSUME IndType, Carried, [Next]_vars PROVE Carried'
  OBVIOUS
<1>1. /\ \A c : GoodCheckpoint(c) => GoodCheckpoint(c)'
      /\ \A me : GoodWorker(me) => GoodWorker(me)'
  BY ArchiveGrows, GoodStays
<1>2. GoodCheckpoint(checkpoint) /\ \A v \in Workers : GoodWorker(worker[v])
  BY DEF Carried
<1>3. ASSUME UNCHANGED checkpoint PROVE GoodCheckpoint(checkpoint)'
  BY <1>1, <1>2, <1>3 DEF GoodCheckpoint
<1>4. ASSUME NEW v \in Workers, GoodWorker(worker'[v]) PROVE GoodWorker(worker[v])'
  BY <1>1, <1>4 DEF GoodWorker
<1>5. CASE UNCHANGED <<worker, checkpoint>>
  BY <1>2, <1>3, <1>4, <1>5 DEF Carried
<1>6. ASSUME NEW w \in Workers, CommitPage(w) PROVE Carried'
  <2>1. \A v \in Workers \ {w} : worker'[v] = worker[v]
    BY <1>6 DEF CommitPage, Fresh, Manifested, Saved, Set, IndType, TypeOK
  <2>2. \A v \in Workers \ {w} : GoodWorker(worker[v])'
    BY <1>2, <1>4, <2>1
  <2> QED
    BY <1>6, <2>2, CommitGood DEF Carried
<1>7. ASSUME NEW w \in Workers, FetchPage(w) PROVE Carried'
  <2>1. /\ \A v \in Workers \ {w} : worker'[v] = worker[v]
        /\ UNCHANGED checkpoint
    BY <1>7 DEF FetchPage, Set, ReportedTotal, IndType, TypeOK, database
  <2>2. \A v \in Workers : GoodWorker(worker'[v])
    BY <1>2, <1>7, <2>1, FetchGood
  <2> QED
    BY <1>3, <1>4, <2>1, <2>2 DEF Carried
<1>8. ASSUME NEW w \in Workers,
             \/ ReadCheckpoint(w) \/ StartRun(w) \/ FinishRun(w) \/ AbortRun(w)
             \/ StepRaises(w) \/ Crash(w)
      PROVE Carried'
  <2>1. /\ \A v \in Workers : GoodWorker(worker'[v])
        /\ UNCHANGED checkpoint
    BY <1>2, <1>8, OtherStepGood
  <2> QED
    BY <1>3, <1>4, <2>1 DEF Carried
<1>9. CASE Amend \/ Withdraw \/ Enlist
  BY <1>5, <1>9, DriftType
<1>10. CASE UNCHANGED vars
  BY <1>5, <1>10 DEF vars
<1> QED
  BY <1>6, <1>7, <1>8, <1>9, <1>10 DEF Next, WorkerStep

-----------------------------------------------------------------------------
(* Coverage *)

(* SuccessCovers is inductive together with what the worker that is about  *)
(* to report SUCCESS has just written, if nobody wrote after it.           *)
Coverage ==
  /\ SuccessCovers
  /\ \A w \in Workers :
       /\ checkpoint # None
       /\ worker[w].phase = "covered"
       /\ worker[w].run = checkpoint.lastRun
       => Covers

LEMMA CoverageInit == Init => Coverage
BY DEF Init, Coverage, SuccessCovers, Idle

(* Coverage is stable under steps that leave the checkpoint and the status *)
(* of existing runs alone and make no worker covered.                      *)
LEMMA CoverageStays ==
  ASSUME IndType, Coverage, UNCHANGED checkpoint,
         \A n \in 1 .. Len(runs) : runs'[n].status = "SUCCESS" => runs[n].status = "SUCCESS",
         \A v \in Workers : worker'[v].phase = "covered" => worker'[v] = worker[v]
  PROVE  Coverage'
<1>1. checkpoint # None => checkpoint.lastRun \in 1 .. Len(runs)
  BY DEF IndType, Ownership, LastRunExists
<1>2. SuccessCovers'
  BY <1>1 DEF Coverage, SuccessCovers, Covers, LastRun, Seen
<1>3. \A w \in Workers :
        /\ checkpoint' # None
        /\ worker'[w].phase = "covered"
        /\ worker'[w].run = checkpoint'.lastRun
        => Covers'
  BY DEF Coverage, Covers, Seen
<1> QED
  BY <1>2, <1>3 DEF Coverage

LEMMA CoverageStep == IndType /\ Coverage /\ [Next]_vars => Coverage'
<1> SUFFICES ASSUME IndType, Coverage, [Next]_vars PROVE Coverage'
  OBVIOUS
<1>0. worker \in [Workers -> Worker] /\ runs \in Seq(Run) /\ Len(runs) \in Nat
  BY LenProperties DEF IndType, TypeOK
<1>1. ASSUME NEW w \in Workers, CommitPage(w) PROVE Coverage'
  <2> DEFINE me == worker[w]
             q == Advanced(me, me.pages \cup {me.fetched})
  <2>1. /\ checkpoint'.lastRun = me.run /\ checkpoint'.cursor = me.page
        /\ checkpoint'.count = me.expect.count /\ checkpoint'.total = me.expect.total
        /\ checkpoint'.pages = me.pages \cup {me.fetched}
        /\ worker'[w] = q /\ \A v \in Workers \ {w} : worker'[v] = worker[v]
        /\ me.phase = "commit" /\ runs[me.run].status = "RUNNING"
    BY <1>0, <1>1 DEF CommitPage, Fresh, Manifested, Saved, Set
  <2>2. me.run \in 1 .. Len(runs) /\ \A v \in Workers \ {w} :
          worker[v].phase = "covered" => worker[v].run # me.run
    BY <2>1 DEF IndType, Ownership, OwnsRunning, OwnsAlone, Active
  <2>3. runs'[me.run].status = "RUNNING"
    BY <1>1, <2>1, <2>2, CommitType
  <2>4. SuccessCovers'
    BY <2>1, <2>3 DEF SuccessCovers, LastRun
  <2>5. q.phase = "covered" => /\ me.page = me.expect.count
                              /\ Cardinality(UNION (me.pages \cup {me.fetched})) = me.expect.total
    BY DEF Advanced
  <2> HIDE DEF q
  <2>6. worker'[w].phase = "covered" => Covers'
    BY <2>1, <2>5 DEF Covers, Seen
  <2>7. \A v \in Workers \ {w} :
          worker'[v].phase = "covered" => worker'[v].run # checkpoint'.lastRun
    BY <2>1, <2>2
  <2> QED
    BY <2>4, <2>6, <2>7 DEF Coverage
<1>2. ASSUME NEW w \in Workers, FinishRun(w) PROVE Coverage'
  <2>1. /\ runs' = [runs EXCEPT ![worker[w].run].status = "SUCCESS"]
        /\ worker' = [worker EXCEPT ![w] = Idle]
        /\ worker[w].phase = "covered" /\ UNCHANGED checkpoint
    BY <1>2 DEF FinishRun, Set
  <2>2. worker[w].run \in 1 .. Len(runs) /\ runs \in [1 .. Len(runs) -> Run]
    BY <1>0, <2>1, LenProperties DEF IndType, Ownership, OwnsRunning, Active
  <2>3. \A n \in 1 .. Len(runs) : n # worker[w].run => runs'[n] = runs[n]
    BY <2>1, <2>2
  <2>4. checkpoint # None => checkpoint.lastRun \in 1 .. Len(runs)
    BY DEF IndType, Ownership, LastRunExists
  <2>5. SuccessCovers'
    <3>1. CASE checkpoint # None /\ checkpoint.lastRun = worker[w].run
      BY <2>1, <3>1 DEF Coverage, SuccessCovers, Covers, Seen
    <3>2. CASE checkpoint # None /\ checkpoint.lastRun # worker[w].run
      BY <2>1, <2>3, <2>4, <3>2 DEF Coverage, SuccessCovers, Covers, LastRun, Seen
    <3>3. CASE checkpoint = None
      BY <2>1, <3>3 DEF SuccessCovers
    <3> QED
      BY <3>1, <3>2, <3>3
  <2>6. \A v \in Workers : worker'[v].phase = "covered" => worker'[v] = worker[v]
    BY <1>0, <2>1 DEF Idle
  <2> QED
    BY <2>1, <2>5, <2>6 DEF Coverage, Covers, Seen
<1>3. ASSUME NEW w \in Workers, AbortRun(w) PROVE Coverage'
  <2>1. PICK st \in {"PARTIAL", "FAILED"} :
          /\ runs' = [runs EXCEPT ![worker[w].run].status = st]
          /\ worker' = [worker EXCEPT ![w] = Idle]
          /\ worker[w].phase = "failed" /\ UNCHANGED checkpoint
    BY <1>3 DEF AbortRun, Set
  <2>2. worker[w].run \in 1 .. Len(runs) /\ runs \in [1 .. Len(runs) -> Run]
    BY <1>0, <2>1, LenProperties DEF IndType, Ownership, OwnsRunning, Active
  <2>3. \A n \in 1 .. Len(runs) : runs'[n].status = "SUCCESS" => runs[n].status = "SUCCESS"
    <3>1. \A n \in 1 .. Len(runs) : n # worker[w].run => runs'[n] = runs[n]
      BY <2>1, <2>2
    <3>2. runs'[worker[w].run].status = st
      BY <2>1, <2>2 DEF Run
    <3> QED
      BY <3>1, <3>2
  <2>4. \A v \in Workers : worker'[v].phase = "covered" => worker'[v] = worker[v]
    BY <1>0, <2>1 DEF Idle
  <2> QED
    BY <2>1, <2>3, <2>4, CoverageStays
<1>4. ASSUME NEW w \in Workers, StartRun(w) PROVE Coverage'
  <2> DEFINE new == [status |-> "RUNNING", resume |-> worker[w].resume,
                     before |-> Cursor, after |-> None,
                     seen |-> 0, created |-> 0, unchanged |-> 0]
             q == Opened(worker[w], Len(runs) + 1)
  <2>1. runs' = Append(runs, new) /\ worker' = [worker EXCEPT ![w] = q] /\ UNCHANGED checkpoint
    BY <1>4 DEF StartRun, Set
  <2>2. \A n \in 1 .. Len(runs) : runs'[n] = runs[n]
    BY <1>0, <2>1
  <2>3. q.phase # "covered"
    BY DEF Opened
  <2> HIDE DEF q
  <2>4. \A v \in Workers : worker'[v].phase = "covered" => worker'[v] = worker[v]
    BY <1>0, <2>1, <2>3
  <2> QED
    BY <2>1, <2>2, <2>4, CoverageStays
<1>5. ASSUME NEW w \in Workers,
             ReadCheckpoint(w) \/ FetchPage(w) \/ StepRaises(w) \/ Crash(w)
      PROVE Coverage'
  <2>0. worker[w] \in Worker
    BY <1>0
  <2>1. PICK q : worker' = [worker EXCEPT ![w] = q] /\ q.phase # "covered"
    <3>1. CASE ReadCheckpoint(w)
      BY <3>1 DEF ReadCheckpoint, Set, Ready
    <3>2. CASE FetchPage(w)
      <4> DEFINE ex == [total |-> Len(rows),
                        count |-> PageCount(Len(rows), worker[w].size)]
                 ok(got) == [worker[w] EXCEPT !.phase = "commit", !.fetched = got,
                                              !.expect = ex]
                 no == [worker[w] EXCEPT !.phase = "failed"]
      <4>1. PICK got : worker' = [worker EXCEPT ![w] =
                         IF Acceptable(worker[w], Len(rows), got) THEN ok(got) ELSE no]
        BY <3>2 DEF FetchPage, Set, ReportedTotal
      <4>2. ok(got).phase = "commit" /\ no.phase = "failed"
        BY <2>0 DEF Worker
      <4> HIDE DEF ok, no
      <4>3. CASE Acceptable(worker[w], Len(rows), got)
        <5>1. worker' = [worker EXCEPT ![w] = ok(got)] /\ ok(got).phase # "covered"
          BY <4>1, <4>2, <4>3
        <5> QED
          BY <5>1
      <4>4. CASE ~Acceptable(worker[w], Len(rows), got)
        <5>1. worker' = [worker EXCEPT ![w] = no] /\ no.phase # "covered"
          BY <4>1, <4>2, <4>4
        <5> QED
          BY <5>1
      <4> QED
        BY <4>3, <4>4
    <3>3. CASE StepRaises(w)
      <4> DEFINE no == [worker[w] EXCEPT !.phase = "failed"]
      <4>1. no.phase = "failed"
        BY <2>0 DEF Worker
      <4>2. worker' = [worker EXCEPT ![w] = no]
        BY <3>3 DEF StepRaises, Set
      <4> HIDE DEF no
      <4> QED
        BY <4>1, <4>2
    <3>4. CASE Crash(w)
      <4>1. worker' = [worker EXCEPT ![w] = Idle]
        BY <3>4 DEF Crash, Set
      <4>2. Idle.phase = "idle"
        BY DEF Idle
      <4> QED
        BY <4>1, <4>2
    <3> QED
      BY <1>5, <3>1, <3>2, <3>3, <3>4
  <2>2. UNCHANGED <<runs, checkpoint>>
    BY <1>5 DEF ReadCheckpoint, FetchPage, StepRaises, Crash, database
  <2>3. \A v \in Workers : worker'[v].phase = "covered" => worker'[v] = worker[v]
    BY <1>0, <2>1
  <2> QED
    BY <2>2, <2>3, CoverageStays
<1>6. CASE UNCHANGED <<runs, checkpoint, worker>>
  BY <1>6, CoverageStays
<1>7. CASE Amend \/ Withdraw \/ Enlist
  BY <1>6, <1>7, DriftType
<1>8. CASE UNCHANGED vars
  BY <1>6, <1>8 DEF vars
<1> QED
  BY <1>1, <1>2, <1>3, <1>4, <1>5, <1>7, <1>8 DEF Next, WorkerStep

-----------------------------------------------------------------------------
(* The theorems *)

(* The invariant that carries the safety properties. *)
Safe == IndType /\ Carried /\ Coverage

LEMMA SafeAlways == Spec => []Safe
<1>1. Init => Safe
  BY TypeInit, CarriedInit, CoverageInit DEF Safe
<1>2. Safe /\ [Next]_vars => Safe'
  BY TypeStep, CarriedStep, CoverageStep DEF Safe
<1> QED
  BY <1>1, <1>2, PTL DEF Spec

(* Whatever a checkpoint or a worker lists is stored: resuming and         *)
(* publishing find the observations of every row they go by.               *)
THEOREM ManifestsAreStored == Spec => []ManifestStored
<1>1. Safe => ManifestStored
  BY DEF Safe, Carried, GoodCheckpoint, GoodWorker, Good, ManifestStored
<1> QED
  BY <1>1, SafeAlways, PTL

(* No sequence of resumes, races, page sizes and roster changes puts two   *)
(* versions of one provider record in a checkpoint.                        *)
THEOREM ManifestsAreUnambiguous == Spec => []ManifestUnambiguous
<1>1. Safe => ManifestUnambiguous
  BY DEF Safe, Carried, GoodCheckpoint, Good, Clean, ManifestUnambiguous
<1> QED
  BY <1>1, SafeAlways, PTL

(* Racing workers never leave a successful run behind a checkpoint that    *)
(* does not cover its scope.                                               *)
THEOREM SuccessIsCovered == Spec => []SuccessCovers
<1>1. Safe => SuccessCovers
  BY DEF Safe, Coverage
<1> QED
  BY <1>1, SafeAlways, PTL

(* A covered checkpoint of an unchanged provider is its whole roster: both *)
(* are finite, one is part of the other, and they have the same size.      *)
LEMMA CoveredIsListed ==
  ASSUME Safe, drifts = 0, checkpoint # None, Covers
  PROVE  Seen(checkpoint) = Listed
<1>1. Good(Seen(checkpoint)) /\ GoodTotal(checkpoint.total)
  BY DEF Safe, Carried, GoodCheckpoint
<1>2. Seen(checkpoint) \subseteq Listed /\ checkpoint.total = Len(rows)
  BY <1>1 DEF Good, GoodTotal
<1>3. IsFiniteSet(Listed) /\ Cardinality(Listed) = Len(rows)
  BY ListedRows DEF Safe, IndType, TypeOK
<1>4. Cardinality(Seen(checkpoint)) = Cardinality(Listed)
  BY <1>2, <1>3 DEF Covers
<1> QED
  BY <1>2, <1>3, <1>4, FS_Subset

(* As long as the provider does not change, what any consumer accepts is   *)
(* exactly the provider's roster.                                          *)
THEOREM AcceptedRostersAreExact == Spec => []AcceptedIsExact
<1>1. Safe => AcceptedIsExact
  <2> SUFFICES ASSUME Safe, drifts = 0
               PROVE  /\ PublisherAccepts => Seen(checkpoint) = Listed
                      /\ \A r \in Row : ReviewAccepts(r) \/ NecAccepts(r) =>
                                          Seen(checkpoint) = Listed
    BY DEF AcceptedIsExact
  <2>1. PublisherAccepts => checkpoint # None /\ Covers
    BY DEF PublisherAccepts
  <2>2. \A r \in Row : ReviewAccepts(r) \/ NecAccepts(r) => checkpoint # None /\ Covers
    BY DEF ReviewAccepts, NecAccepts
  <2> QED
    BY <2>1, <2>2, CoveredIsListed
<1> QED
  BY <1>1, SafeAlways, PTL

-----------------------------------------------------------------------------
(* Refinement *)

(* A step that keeps the checkpoint, the observations and the set of       *)
(* successful runs is not visible in the archive.                          *)
LEMMA ArchiveStutters ==
  ASSUME IndType, UNCHANGED <<checkpoint, observations>>,
         \A n \in 1 .. Len(runs) :
           runs'[n].status = "SUCCESS" <=> runs[n].status = "SUCCESS"
  PROVE  UNCHANGED Archive!vars
<1>1. checkpoint # None => checkpoint.lastRun \in 1 .. Len(runs)
  BY DEF IndType, Ownership, LastRunExists
<1>2. (checkpoint # None /\ LastRun.status = "SUCCESS")'
        <=> (checkpoint # None /\ LastRun.status = "SUCCESS")
  BY <1>1 DEF LastRun
<1>3. Seen(checkpoint)' = Seen(checkpoint)
  BY DEF Seen
<1>4. Trusted' = Trusted
  BY <1>2, <1>3 DEF Trusted
<1>5. Stored' = Stored
  BY DEF Stored
<1> QED
  BY <1>4, <1>5 DEF Archive!vars

(* A committed page is recorded, and revokes the trust. *)
LEMMA CommitRecords ==
  ASSUME Safe, NEW w \in Workers, CommitPage(w)
  PROVE  Archive!Record
<1> DEFINE me == worker[w]
           new == {[row |-> r, run |-> me.run] : r \in me.fetched \ Stored}
<1>1. /\ observations' = observations \cup new
      /\ checkpoint'.lastRun = me.run
      /\ me.fetched \subseteq Row
  BY DEF CommitPage, Fresh, Manifested, Saved, Safe, IndType, TypeOK, Worker
<1>2. {o.row : o \in new} = me.fetched \ Stored
  <2>1. \A o \in new : o.row \in me.fetched \ Stored
    OBVIOUS
  <2>2. \A r \in me.fetched \ Stored : \E o \in new : r = o.row
    <3> TAKE r \in me.fetched \ Stored
    <3> WITNESS [row |-> r, run |-> me.run] \in new
    <3> QED
      OBVIOUS
  <2> HIDE DEF new
  <2> QED
    BY <2>1, <2>2
<1> HIDE DEF new
<1>3. Stored' = Stored \cup {o.row : o \in new}
  BY <1>1 DEF Stored
<1>4. Stored' = Stored \cup me.fetched
  BY <1>2, <1>3
<1>5. runs'[me.run].status = "RUNNING"
  <2>1. runs[me.run].status = "RUNNING" /\ me.run \in 1 .. Len(runs)
    BY DEF CommitPage, Fresh, Manifested, Saved, Safe, IndType, Ownership, OwnsRunning, Active
  <2> QED
    BY <2>1, CommitType DEF Safe
<1>6. Trusted' = {}
  BY <1>1, <1>5 DEF Trusted, LastRun
<1>7. me.fetched \in SUBSET Archive!Row
  BY <1>1 DEF Row, Archive!Row
<1> QED
  BY <1>4, <1>6, <1>7 DEF Archive!Record

(* SUCCESS makes the checkpoint's manifest trusted, if it is the run's own. *)
LEMMA FinishTrusts ==
  ASSUME Safe, NEW w \in Workers, FinishRun(w)
  PROVE  Archive!Trust \/ UNCHANGED Archive!vars
<1> DEFINE mine == worker[w].run
<1>1. /\ runs' = [runs EXCEPT ![mine].status = "SUCCESS"]
      /\ worker[w].phase = "covered"
      /\ UNCHANGED <<checkpoint, observations>>
  BY DEF FinishRun
<1>2. mine \in 1 .. Len(runs)
  BY <1>1 DEF Safe, IndType, Ownership, OwnsRunning, Active
<1>3. runs \in [1 .. Len(runs) -> Run]
  BY LenProperties DEF Safe, IndType, TypeOK
<1>4. \A n \in 1 .. Len(runs) : n # mine => runs'[n] = runs[n]
  BY <1>1, <1>2, <1>3
<1>5. checkpoint # None => checkpoint.lastRun \in 1 .. Len(runs)
  BY DEF Safe, IndType, Ownership, LastRunExists
<1>6. Stored' = Stored /\ Seen(checkpoint)' = Seen(checkpoint)
  BY <1>1 DEF Stored, Seen
<1>7. CASE checkpoint # None /\ checkpoint.lastRun = mine
  <2>1. runs'[mine].status = "SUCCESS"
    BY <1>1, <1>2, <1>3 DEF Run
  <2>2. Trusted' = {Seen(checkpoint)}
    BY <1>1, <1>6, <1>7, <2>1 DEF Trusted, LastRun
  <2>3. Seen(checkpoint) \subseteq Stored /\ Archive!OneVersionPerKey(Seen(checkpoint))
    BY <1>7 DEF Safe, Carried, GoodCheckpoint, Good, Clean, Archive!OneVersionPerKey
  <2> QED
    BY <1>6, <2>2, <2>3 DEF Archive!Trust
<1>8. CASE ~(checkpoint # None /\ checkpoint.lastRun = mine)
  <2>1. (checkpoint # None /\ LastRun.status = "SUCCESS")'
          <=> (checkpoint # None /\ LastRun.status = "SUCCESS")
    BY <1>1, <1>4, <1>5, <1>8 DEF LastRun
  <2>2. Trusted' = Trusted
    BY <1>6, <2>1 DEF Trusted
  <2> QED
    BY <1>6, <2>2 DEF Archive!vars
<1> QED
  BY <1>7, <1>8

(* The other steps neither store a row nor make a run successful. *)
LEMMA OthersStutter ==
  ASSUME Safe, NEW w \in Workers,
         \/ ReadCheckpoint(w) \/ StartRun(w) \/ FetchPage(w) \/ AbortRun(w)
         \/ StepRaises(w) \/ Crash(w)
  PROVE  UNCHANGED Archive!vars
<1>0. runs \in Seq(Run) /\ Len(runs) \in Nat /\ runs \in [1 .. Len(runs) -> Run]
  BY LenProperties DEF Safe, IndType, TypeOK
<1>1. CASE StartRun(w)
  <2> DEFINE new == [status |-> "RUNNING", resume |-> worker[w].resume,
                     before |-> Cursor, after |-> None,
                     seen |-> 0, created |-> 0, unchanged |-> 0]
  <2>1. runs' = Append(runs, new) /\ UNCHANGED <<checkpoint, observations>>
    BY <1>1 DEF StartRun
  <2>2. \A n \in 1 .. Len(runs) : runs'[n] = runs[n]
    BY <1>0, <2>1
  <2> QED
    BY <2>1, <2>2, ArchiveStutters DEF Safe
<1>2. CASE AbortRun(w)
  <2>1. PICK st \in {"PARTIAL", "FAILED"} :
          /\ runs' = [runs EXCEPT ![worker[w].run].status = st]
          /\ runs[worker[w].run].status = "RUNNING" /\ worker[w].phase = "failed"
          /\ UNCHANGED <<checkpoint, observations>>
    BY <1>2 DEF AbortRun
  <2>2. worker[w].run \in 1 .. Len(runs)
    BY <2>1 DEF Safe, IndType, Ownership, OwnsRunning, Active
  <2>3. \A n \in 1 .. Len(runs) : n # worker[w].run => runs'[n] = runs[n]
    BY <1>0, <2>1, <2>2
  <2>4. runs'[worker[w].run].status = st
    BY <1>0, <2>1, <2>2 DEF Run
  <2>5. \A n \in 1 .. Len(runs) : runs'[n].status = "SUCCESS" <=> runs[n].status = "SUCCESS"
    BY <2>1, <2>3, <2>4
  <2> QED
    BY <2>1, <2>5, ArchiveStutters DEF Safe
<1>3. CASE ReadCheckpoint(w) \/ FetchPage(w) \/ StepRaises(w) \/ Crash(w)
  <2>1. UNCHANGED database
    BY <1>3 DEF ReadCheckpoint, FetchPage, StepRaises, Crash
  <2> QED
    BY <2>1, ArchiveStutters DEF Safe, database
<1> QED
  BY <1>1, <1>2, <1>3

LEMMA ArchiveStep == Safe /\ [Next]_vars => [Archive!Next]_(Archive!vars)
<1> SUFFICES ASSUME Safe, [Next]_vars PROVE Archive!Next \/ UNCHANGED Archive!vars
  OBVIOUS
<1>1. ASSUME NEW w \in Workers, CommitPage(w) PROVE Archive!Next
  BY <1>1, CommitRecords DEF Archive!Next
<1>2. ASSUME NEW w \in Workers, FinishRun(w) PROVE Archive!Next \/ UNCHANGED Archive!vars
  BY <1>2, FinishTrusts DEF Archive!Next
<1>3. ASSUME NEW w \in Workers,
             \/ ReadCheckpoint(w) \/ StartRun(w) \/ FetchPage(w) \/ AbortRun(w)
             \/ StepRaises(w) \/ Crash(w)
      PROVE UNCHANGED Archive!vars
  BY <1>3, OthersStutter
<1>4. CASE UNCHANGED <<runs, checkpoint, observations>>
  BY <1>4, ArchiveStutters DEF Safe
<1>5. CASE Amend \/ Withdraw \/ Enlist
  BY <1>4, <1>5, DriftType DEF Safe
<1>6. CASE UNCHANGED vars
  BY <1>4, <1>6 DEF vars
<1> QED
  BY <1>1, <1>2, <1>3, <1>5, <1>6 DEF Next, WorkerStep

(* The ingestion layer implements the roster archive: pages only add to    *)
(* what is stored, and only a finished enumeration makes a roster trusted. *)
THEOREM ImplementsArchive == Spec => ArchiveSpec
<1>1. Init => Archive!Init
  BY DEF Init, Archive!Init, Stored, Trusted
<1> QED
  BY <1>1, SafeAlways, ArchiveStep, PTL DEF Spec, ArchiveSpec, Archive!Spec


-----------------------------------------------------------------------------
(* What a run counts, with the pages it is credited with                   *)

\* The pages before the first one of run r.
Behind(r) == IF r.resume THEN PriorPages(r) ELSE 0

\* What r counted, with the rows of the pages behind it, is what the first pages of
\* that size hold of total rows.
Tallied(r, pages, size, total) ==
  r.seen + Least(Behind(r) * size, total) = Least(pages * size, total)

TalliedWorker(me) ==
  /\ me.phase = "start" => me.prior = IF me.resume THEN checkpoint ELSE None
  /\ me.phase \in {"fetch", "commit"} =>
       LET r == runs[me.run] IN
       /\ Behind(r) < me.page
       /\ me.expect = None => r.seen = 0 /\ Behind(r) = 0 /\ me.page = 1
       /\ me.expect # None => Tallied(r, me.page - 1, me.size, me.expect.total)
  /\ me.phase = "commit" =>
       /\ me.expect.count = PageCount(me.expect.total, me.size)
       /\ me.page <= me.expect.count
       /\ Cardinality(me.fetched) = Least(me.size, Less(me.expect.total, (me.page - 1) * me.size))

TalliedCheckpoint ==
  checkpoint # None =>
    /\ checkpoint.size \in Nat \ {0}
    /\ checkpoint.count = PageCount(checkpoint.total, checkpoint.size)
    /\ LastRun.after = checkpoint.cursor
    /\ Behind(LastRun) < checkpoint.cursor
    /\ Tallied(LastRun, checkpoint.cursor, checkpoint.size, checkpoint.total)

(* NEC's arithmetic credits a resumed run with the pages before the cursor *)
(* it recorded.  It is right when that cursor is the one of the checkpoint *)
(* the worker goes on from, which the worker read in another transaction.  *)
Tallies == TalliedCheckpoint /\ \A w \in Workers : TalliedWorker(worker[w])

(* One more page.                                                          *)
LEMMA OnePageMore ==
  ASSUME NEW page \in Nat \ {0}, NEW size \in Nat \ {0}, NEW total \in Nat
  PROVE  Least(size, Less(total, (page - 1) * size)) + Least((page - 1) * size, total)
           = Least(page * size, total)
<1> DEFINE x == (page - 1) * size
<1>1. x \in Nat /\ page * size = x + size
  OBVIOUS
<1> HIDE DEF x
<1>2. Least(size, Less(total, x)) + Least(x, total) = Least(x + size, total)
  BY <1>1 DEF Least, Less
<1> QED
  BY <1>1, <1>2 DEF x

(* All pages hold all rows.                                                *)
LEMMA AllPages ==
  ASSUME NEW size \in Nat \ {0}, NEW total \in Nat
  PROVE  Least(PageCount(total, size) * size, total) = total
<1>1. CASE total = 0
  BY <1>1 DEF PageCount, Least
<1>2. CASE total # 0
  <2> DEFINE x == total + size - 1
             n == x \div size
  <2>1. x \in Nat /\ n \in Nat
    OBVIOUS
  <2>2. x = n * size + (x % size) /\ x % size < size
    BY <2>1
  <2>3. n * size \in Nat /\ x % size \in Nat
    BY <2>1
  <2>4. n * size >= total
    <3> DEFINE y == n * size
               z == x % size
    <3>1. y \in Nat /\ z \in Nat /\ total + size - 1 = y + z /\ z < size
      BY <2>2, <2>3
    <3> HIDE DEF y, z
    <3>2. y >= total
      BY <3>1
    <3> QED
      BY <3>2 DEF y
  <2> QED
    BY <1>2, <2>3, <2>4 DEF PageCount, Least
<1> QED
  BY <1>1, <1>2


\* Run q is r but for its status.
Recounted(r, q) ==
  q.resume = r.resume /\ q.before = r.before /\ q.after = r.after /\ q.seen = r.seen

LEMMA TalliesInit == Init => Tallies
BY DEF Init, Tallies, TalliedCheckpoint, TalliedWorker, Idle

LEMMA TalliesStay ==
  ASSUME IndType, Tallies, UNCHANGED checkpoint,
         \A n \in 1 .. Len(runs) : Recounted(runs[n], runs'[n]),
         \A v \in Workers : \/ worker'[v] = worker[v]
                            \/ worker'[v].phase \notin {"start", "fetch", "commit"}
  PROVE  Tallies'
<1>1. checkpoint # None => checkpoint.lastRun \in 1 .. Len(runs)
  BY DEF IndType, Ownership, LastRunExists
<1>2. TalliedCheckpoint'
  BY <1>1 DEF Tallies, TalliedCheckpoint, LastRun, Behind, PriorPages, Tallied, Recounted
<1>3. ASSUME NEW v \in Workers PROVE TalliedWorker(worker[v])'
  <2>1. CASE worker'[v] = worker[v]
    <3>1. TalliedWorker(worker[v])
      BY DEF Tallies
    <3>2. worker[v].phase \in {"fetch", "commit"} => worker[v].run \in 1 .. Len(runs)
      BY DEF IndType, Ownership, OwnsRunning, Active
    <3> QED
      BY <2>1, <3>1, <3>2 DEF TalliedWorker, Behind, PriorPages, Tallied, Recounted
  <2>2. CASE worker'[v].phase \notin {"start", "fetch", "commit"}
    BY <2>2 DEF TalliedWorker
  <2> QED
    BY <1>3, <2>1, <2>2
<1> QED
  BY <1>2, <1>3 DEF Tallies

(* The other steps: a run is closed, or only a worker's own state changes. *)
LEMMA TalliesClose ==
  ASSUME IndType, Tallies, NEW w \in Workers, NEW st, worker[w].phase \in Active,
         runs' = [runs EXCEPT ![worker[w].run].status = st],
         worker' = [worker EXCEPT ![w] = Idle], UNCHANGED checkpoint
  PROVE  Tallies'
<1>1. worker \in [Workers -> Worker] /\ runs \in [1 .. Len(runs) -> Run]
      /\ worker[w].run \in 1 .. Len(runs)
  BY LenProperties DEF IndType, TypeOK, Ownership, OwnsRunning
<1>2. \A n \in 1 .. Len(runs) : Recounted(runs[n], runs'[n])
  BY <1>1 DEF Recounted, Run
<1>3. \A v \in Workers : worker'[v] = worker[v] \/ worker'[v].phase \notin {"start", "fetch", "commit"}
  BY <1>1 DEF Idle
<1> QED
  BY <1>2, <1>3, TalliesStay

LEMMA TalliesCommit ==
  ASSUME IndType, Tallies, NEW w \in Workers, CommitPage(w), \A v \in Workers : v = w
  PROVE  Tallies'
<1> DEFINE me == worker[w]
           q == Advanced(me, me.pages \cup {me.fetched})
           fresh == Fresh(me.fetched)
           r == runs[me.run]
           t == Counted(r, me.fetched, fresh, me.page)
<1>1. worker \in [Workers -> Worker] /\ runs \in [1 .. Len(runs) -> Run]
      /\ me.phase = "commit" /\ me.run \in 1 .. Len(runs) /\ IsFiniteSet(me.fetched)
      /\ me.expect # None /\ me.size >= 1 /\ me.page >= 1
  BY LenProperties DEF IndType, TypeOK, Ownership, OwnsRunning, LocalState, CommitPage, Active
<1>2. runs' = [runs EXCEPT ![me.run] = t] /\ worker' = [worker EXCEPT ![w] = q]
      /\ checkpoint' = Saved(me, me.pages \cup {me.fetched})
  BY DEF CommitPage, Set, Manifested
<1>3. runs'[me.run] = t /\ worker'[w] = q
  BY <1>1, <1>2
<1>4. me \in Worker /\ r \in Run /\ me.expect \in Expect
  BY <1>1 DEF Worker
<1>5. me.page \in Nat \ {0} /\ me.size \in Nat \ {0} /\ me.expect.total \in Nat
      /\ r.seen \in Nat /\ Cardinality(me.fetched) \in Nat
  BY <1>1, <1>4, FS_CardinalityType DEF Worker, Run, Expect
<1>6. /\ Behind(r) < me.page
      /\ Tallied(r, me.page - 1, me.size, me.expect.total)
      /\ me.expect.count = PageCount(me.expect.total, me.size)
      /\ Cardinality(me.fetched) = Least(me.size, Less(me.expect.total, (me.page - 1) * me.size))
  BY <1>1 DEF Tallies, TalliedWorker
<1>7. t.seen = r.seen + Cardinality(me.fetched) /\ t.after = me.page /\ Behind(t) = Behind(r)
  BY DEF Counted, Behind, PriorPages
<1>8. Tallied(t, me.page, me.size, me.expect.total)
  <2> DEFINE a == Least(Behind(r) * me.size, me.expect.total)
             b == Least((me.page - 1) * me.size, me.expect.total)
             c == Least(me.size, Less(me.expect.total, (me.page - 1) * me.size))
             e == Least(me.page * me.size, me.expect.total)
  <2>1. r.seen + a = b /\ Cardinality(me.fetched) = c
    BY <1>6 DEF Tallied
  <2>2. c + b = e
    BY <1>5, OnePageMore
  <2>3. Behind(r) \in Nat
    BY <1>4, NoneIsNoRecord DEF Behind, PriorPages, Run
  <2>4. a \in Nat /\ b \in Nat /\ e \in Nat
    <3> HIDE DEF me, r
    <3>1. /\ Behind(r) * me.size \in Nat /\ (me.page - 1) * me.size \in Nat
          /\ me.page * me.size \in Nat
      BY <1>5, <2>3
    <3> QED
      BY <1>5, <3>1 DEF Least
  <2>5. t.seen + a = e
    <3> HIDE DEF a, b, c, e, t, r, me
    <3> QED
      BY <1>5, <1>7, <2>1, <2>2, <2>4
  <2> QED
    BY <1>7, <2>5 DEF Tallied
<1>9. TalliedCheckpoint'
  <2>1. /\ checkpoint'.size = me.size /\ checkpoint'.count = me.expect.count
        /\ checkpoint'.total = me.expect.total /\ checkpoint'.cursor = me.page
        /\ LastRun' = t
    BY <1>2, <1>3 DEF Saved, LastRun
  <2> HIDE DEF t, r, me
  <2> QED
    BY <1>5, <1>6, <1>7, <1>8, <2>1 DEF TalliedCheckpoint, Behind, Tallied
<1>10. TalliedWorker(worker[w])'
  <2>1. q.phase \notin {"start", "commit"} /\ q.run = me.run /\ q.expect = me.expect /\ q.size = me.size
        /\ (q.phase = "fetch" => q.page = me.page + 1)
    BY <1>4 DEF Advanced, Expect
  <2> HIDE DEF q, t, r, me
  <2>2. q.phase = "fetch" => /\ Behind(t) < q.page
                             /\ Tallied(t, q.page - 1, q.size, q.expect.total)
    <3> SUFFICES ASSUME q.phase = "fetch"
                 PROVE  Behind(t) < q.page /\ Tallied(t, q.page - 1, q.size, q.expect.total)
      OBVIOUS
    <3>1. q.page = me.page + 1 /\ q.page - 1 = me.page
      BY <1>5, <2>1
    <3>2. Behind(r) \in Nat
      BY <1>4, NoneIsNoRecord DEF Behind, PriorPages, Run
    <3> QED
      BY <1>5, <1>6, <1>7, <1>8, <2>1, <3>1, <3>2
  <2> QED
    BY <1>1, <1>3, <2>1, <2>2 DEF TalliedWorker, Behind, Tallied
<1> QED
  BY <1>9, <1>10 DEF Tallies

LEMMA TalliesStart ==
  ASSUME IndType, Tallies, NEW w \in Workers, StartRun(w), \A v \in Workers : v = w
  PROVE  Tallies'
<1> DEFINE me == worker[w]
           new == [status |-> "RUNNING", resume |-> me.resume,
                   before |-> Cursor, after |-> None,
                   seen |-> 0, created |-> 0, unchanged |-> 0]
           n == Len(runs) + 1
           q == Opened(me, n)
<1>1. worker \in [Workers -> Worker] /\ runs \in Seq(Run) /\ Len(runs) \in Nat
      /\ checkpoint \in Checkpoint \cup {None}
  BY LenProperties DEF IndType, TypeOK
<1>2. runs' = Append(runs, new) /\ worker' = [worker EXCEPT ![w] = q]
      /\ checkpoint' = checkpoint /\ me.phase = "start"
  BY DEF StartRun, Set
<1>3. runs'[n] = new /\ \A k \in 1 .. Len(runs) : runs'[k] = runs[k]
  BY <1>1, <1>2
<1>4. TalliedCheckpoint'
  <2>1. checkpoint # None => LastRun' = LastRun
    BY <1>2, <1>3 DEF LastRun, IndType, Ownership, LastRunExists
  <2> QED
    BY <1>2, <2>1 DEF Tallies, TalliedCheckpoint, Behind, Tallied
<1>5. me.prior = (IF me.resume THEN checkpoint ELSE None) /\ me.size >= 1 /\ me.size \in Nat
      /\ me.resume \in BOOLEAN
  BY <1>1, <1>2 DEF Tallies, TalliedWorker, IndType, Ownership, LocalState, Worker
<1>6. q.run = n /\ q.phase \notin {"start", "commit"} /\ q.size = me.size /\ new.seen = 0
      /\ worker'[w] = q
  BY <1>1, <1>2 DEF Opened
<1>7. CASE me.prior = None
  <2>1. q.page = 1 /\ q.expect = None /\ Behind(new) = 0
    BY <1>5, <1>7 DEF Opened, Behind, PriorPages, Cursor
  <2> HIDE DEF q, new, n, me
  <2>2. TalliedWorker(worker[w])'
    BY <1>3, <1>6, <2>1 DEF TalliedWorker, Behind, Tallied
  <2> QED
    BY <1>4, <1>6, <2>2 DEF Tallies
<1>8. CASE me.prior # None
  <2>1. me.resume = TRUE /\ me.prior = checkpoint /\ checkpoint \in Checkpoint
    BY <1>1, <1>5, <1>8
  <2>2. q.page = checkpoint.cursor + 1 /\ Behind(new) = checkpoint.cursor
        /\ checkpoint.cursor \in Nat /\ q.expect # None /\ q.expect.total \in Nat
    BY <1>8, <2>1, NoneIsNoRecord DEF Opened, Behind, PriorPages, Cursor, Checkpoint, Expect
  <2> HIDE DEF q, new, n, me
  <2>3. Behind(new) < q.page /\ q.page - 1 = Behind(new)
    BY <2>2
  <2>4. Behind(new) * q.size \in Nat
    BY <1>5, <1>6, <2>2
  <2>5. Tallied(new, q.page - 1, q.size, q.expect.total)
    BY <1>6, <2>2, <2>3, <2>4 DEF Tallied, Least
  <2>6. TalliedWorker(worker[w])'
    BY <1>3, <1>6, <2>2, <2>3, <2>5 DEF TalliedWorker, Behind, Tallied
  <2> QED
    BY <1>4, <1>6, <2>6 DEF Tallies
<1> QED
  BY <1>7, <1>8


LEMMA TalliesFetch ==
  ASSUME IndType, Tallies, NEW w \in Workers, FetchPage(w), \A v \in Workers : v = w
  PROVE  Tallies'
<1> DEFINE me == worker[w]
           total == Len(rows)
           ex == [total |-> total, count |-> PageCount(total, me.size)]
           ok(got) == [me EXCEPT !.phase = "commit", !.fetched = got, !.expect = ex]
           no == [me EXCEPT !.phase = "failed"]
<1>1. worker \in [Workers -> Worker] /\ me \in Worker /\ me.phase = "fetch"
      /\ checkpoint' = checkpoint /\ runs' = runs /\ total \in Nat
  BY LenProperties DEF IndType, TypeOK, FetchPage, database
<1>2. PICK got : worker' = [worker EXCEPT ![w] = IF Acceptable(me, total, got) THEN ok(got) ELSE no]
  BY DEF FetchPage, Set, ReportedTotal
<1>3. no.phase = "failed"
  BY <1>1 DEF Worker
<1>4. /\ ok(got).phase = "commit" /\ ok(got).expect = ex /\ ok(got).fetched = got
      /\ ok(got).run = me.run /\ ok(got).page = me.page /\ ok(got).size = me.size
  BY <1>1 DEF Worker
<1>5. TalliedCheckpoint'
  BY <1>1 DEF Tallies, TalliedCheckpoint, LastRun, Behind, Tallied
<1>6. CASE ~ Acceptable(me, total, got)
  <2>1. worker'[w] = no
    BY <1>1, <1>2, <1>6
  <2> HIDE DEF no
  <2> QED
    BY <1>3, <1>5, <2>1 DEF Tallies, TalliedWorker
<1>7. CASE Acceptable(me, total, got)
  <2>1. worker'[w] = ok(got)
    BY <1>1, <1>2, <1>7
  <2>2. /\ me.expect = None \/ me.expect = ex
        /\ me.page <= PageCount(total, me.size)
        /\ Cardinality(got) = Least(me.size, Less(total, (me.page - 1) * me.size))
    BY <1>7 DEF Acceptable
  <2>3. TalliedWorker(me)
    BY DEF Tallies
  <2>4. Behind(runs[me.run]) < me.page
    BY <1>1, <2>3 DEF TalliedWorker
  <2>5. Tallied(runs[me.run], me.page - 1, me.size, total)
    <3>1. CASE me.expect = None
      <4>1. runs[me.run].seen = 0 /\ Behind(runs[me.run]) = 0 /\ me.page = 1
        BY <1>1, <2>3, <3>1 DEF TalliedWorker
      <4>2. me.size \in Nat
        BY <1>1 DEF Worker
      <4> HIDE DEF me
      <4> QED
        BY <1>1, <4>1, <4>2 DEF Tallied, Least
    <3>2. CASE me.expect = ex /\ me.expect # None
      <4>1. Tallied(runs[me.run], me.page - 1, me.size, me.expect.total)
        BY <1>1, <2>3, <3>2 DEF TalliedWorker
      <4> QED
        BY <3>2, <4>1
    <3> QED
      BY <2>2, <3>1, <3>2
  <2>6. ex # None /\ ex.total = total /\ ex.count = PageCount(total, me.size)
    <3>1. me.size \in Nat \ {0}
      BY <1>1 DEF Worker, IndType, Ownership, LocalState
    <3>2. ex \in Expect
      BY <1>1, <3>1, PagingNat DEF Expect
    <3> QED
      BY <3>2, NoneIsNoRecord
  <2> HIDE DEF ok, ex, me, total
  <2>7. TalliedWorker(worker[w])'
    BY <1>1, <1>4, <2>1, <2>2, <2>4, <2>5, <2>6 DEF TalliedWorker, Behind, Tallied
  <2> QED
    BY <1>5, <2>7 DEF Tallies
<1> QED
  BY <1>6, <1>7

LEMMA TalliesStep ==
  ASSUME IndType, Tallies, [Next]_vars, \A v, w \in Workers : v = w
  PROVE  Tallies'
<1>0. worker \in [Workers -> Worker]
  BY DEF IndType, TypeOK
<1>1. ASSUME NEW w \in Workers, FinishRun(w) \/ AbortRun(w) PROVE Tallies'
  <2>1. PICK st : /\ runs' = [runs EXCEPT ![worker[w].run].status = st]
                  /\ worker' = [worker EXCEPT ![w] = Idle] /\ UNCHANGED checkpoint
                  /\ worker[w].phase \in Active
    <3>1. CASE FinishRun(w)
      BY <3>1 DEF FinishRun, Set, Active
    <3>2. CASE AbortRun(w)
      BY <3>2 DEF AbortRun, Set, Active
    <3> QED
      BY <1>1, <3>1, <3>2
  <2> QED
    BY <2>1, TalliesClose
<1>2. ASSUME NEW w \in Workers, NEW q, worker' = [worker EXCEPT ![w] = q],
             q.phase \notin {"start", "fetch", "commit"}, UNCHANGED <<runs, checkpoint>>
      PROVE  Tallies'
  <2>1. \A v \in Workers : worker'[v] = worker[v] \/ worker'[v].phase \notin {"start", "fetch", "commit"}
    BY <1>0, <1>2
  <2>2. \A n \in 1 .. Len(runs) : Recounted(runs[n], runs'[n])
    BY <1>2 DEF Recounted
  <2> QED
    BY <1>2, <2>1, <2>2, TalliesStay
<1>3. ASSUME NEW w \in Workers, StepRaises(w) PROVE Tallies'
  <2> DEFINE q == [worker[w] EXCEPT !.phase = "failed"]
  <2>1. q.phase = "failed" /\ worker' = [worker EXCEPT ![w] = q] /\ UNCHANGED <<runs, checkpoint>>
    BY <1>0, <1>3 DEF StepRaises, Set, database, Worker
  <2> HIDE DEF q
  <2> QED
    BY <1>2, <2>1
<1>4. ASSUME NEW w \in Workers, Crash(w) PROVE Tallies'
  <2>1. Idle.phase = "idle" /\ worker' = [worker EXCEPT ![w] = Idle] /\ UNCHANGED <<runs, checkpoint>>
    BY <1>4 DEF Crash, Set, database, Idle
  <2> QED
    BY <1>2, <2>1
<1>5. ASSUME NEW w \in Workers, ReadCheckpoint(w) PROVE Tallies'
  <2>1. PICK resume \in BOOLEAN, size \in PageSizes :
          worker' = [worker EXCEPT ![w] = Ready(resume, size, IF resume THEN checkpoint ELSE None)]
    BY <1>5 DEF ReadCheckpoint, Set
  <2>2. UNCHANGED <<runs, checkpoint>>
    BY <1>5 DEF ReadCheckpoint, database
  <2>3. TalliedWorker(worker[w])'
    BY <1>0, <2>1, <2>2 DEF TalliedWorker, Ready
  <2>4. TalliedCheckpoint'
    BY <2>2 DEF Tallies, TalliedCheckpoint, LastRun, Behind, Tallied
  <2> QED
    BY <2>3, <2>4 DEF Tallies
<1>6. ASSUME UNCHANGED <<runs, checkpoint, worker>> PROVE Tallies'
  <2>1. \A n \in 1 .. Len(runs) : Recounted(runs[n], runs'[n])
    BY <1>6 DEF Recounted
  <2> QED
    BY <1>6, <2>1, TalliesStay
<1>7. CASE Amend \/ Withdraw \/ Enlist
  BY <1>6, <1>7 DEF Amend, Withdraw, Enlist, Drift
<1>8. CASE UNCHANGED vars
  BY <1>6, <1>8 DEF vars
<1> QED
  BY <1>1, <1>3, <1>4, <1>5, <1>7, <1>8, TalliesStart, TalliesFetch, TalliesCommit DEF Next, WorkerStep

(* With one worker at a time, what a SUCCESS leaves is accepted: by the    *)
(* publisher unless it is empty, and by the NEC context, also after resumed*)
(* runs, whatever page sizes they used and however the provider changed.   *)
THEOREM SuccessesAreUsable ==
  ASSUME \A v, w \in Workers : v = w
  PROVE  Spec => []SuccessUsable
<1>1. Init => Tallies
  BY TalliesInit
<1>2. IndType /\ Tallies /\ [Next]_vars => Tallies'
  BY TalliesStep
<1>3. Safe /\ Tallies => SuccessUsable
  <2> SUFFICES ASSUME Safe, Tallies, checkpoint # None, LastRun.status = "SUCCESS"
               PROVE  /\ Seen(checkpoint) # {} => PublisherAccepts
                      /\ \A r \in Seen(checkpoint) :
                           (\A q \in Stored : q.key = r.key => q = r) => NecAccepts(r)
    BY DEF SuccessUsable
  <2>1. Covers /\ Seen(checkpoint) \subseteq Stored
    BY DEF Safe, Coverage, SuccessCovers, Carried, GoodCheckpoint, Good
  <2>2. /\ checkpoint.size \in Nat \ {0} /\ checkpoint.count = PageCount(checkpoint.total, checkpoint.size)
        /\ LastRun.after = checkpoint.cursor /\ Behind(LastRun) < checkpoint.count
        /\ Tallied(LastRun, checkpoint.count, checkpoint.size, checkpoint.total)
    BY <2>1 DEF Tallies, TalliedCheckpoint, Covers
  <2>3. checkpoint \in Checkpoint /\ checkpoint.total \in Nat
    BY DEF Safe, IndType, TypeOK, Checkpoint
  <2>4. LastRun.seen + Least(Behind(LastRun) * checkpoint.size, checkpoint.total) = checkpoint.total
    BY <2>2, <2>3, AllPages DEF Tallied
  <2>5. LastRun \in Run
    BY ElementOfSeq DEF Safe, IndType, TypeOK, Ownership, LastRunExists, LastRun
  <2>6. NecRunCovers
    <3>1. CASE LastRun.resume
      <4>1. Behind(LastRun) = PriorPages(LastRun)
        BY <3>1 DEF Behind
      <4>2. LastRun.seen \in Nat /\ PriorPages(LastRun) * checkpoint.size \in Nat
        BY <2>2, <2>5, NoneIsNoRecord DEF Run, PriorPages
      <4>3. Least(PriorPages(LastRun) * checkpoint.size, checkpoint.total) \in Nat
        BY <2>3, <4>2 DEF Least
      <4> QED
        BY <2>2, <2>4, <3>1, <4>1, <4>2, <4>3 DEF NecRunCovers
    <3>2. CASE ~ LastRun.resume
      <4>1. Behind(LastRun) = 0 /\ LastRun.seen \in Nat
        BY <2>5, <3>2 DEF Behind, Run
      <4>2. Least(0 * checkpoint.size, checkpoint.total) = 0
        BY <2>2, <2>3 DEF Least
      <4> QED
        BY <2>4, <3>2, <4>1, <4>2 DEF NecRunCovers
    <3> QED
      BY <3>1, <3>2
  <2> QED
    BY <2>1, <2>2, <2>6 DEF PublisherAccepts, NecAccepts, Covers
<1>4. Safe => IndType
  BY DEF Safe
<1> QED
  BY <1>1, <1>2, <1>3, <1>4, SafeAlways, PTL DEF Spec
=============================================================================
