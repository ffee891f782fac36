------------------------- MODULE RollCallVotesProofs -------------------------
(***************************************************************************)
(* What holds of RollCallVotes for any number of bills, members and        *)
(* processes: every state is of its type (TypeOK), collectors follow the   *)
(* schedule (OneCollector), what the publisher accepts is covered          *)
(* (AcceptedCovers) and read by it to the end (PublicationComplete), and   *)
(* what it stores adds up and is one vote a member and bill                *)
(* (ClaimsReconciled, OneCurrentVote).                                     *)
(***************************************************************************)
EXTENDS RollCallVotes, FiniteSetTheorems, WellFoundedInduction, TLAPS

-----------------------------------------------------------------------------
(* The schedule alone.  LockInv ties the lock file to the phase of the     *)
(* scheduler that made it, and the collectors that are running to that     *)
(* phase; OneCollector alone does not survive the step in which a          *)
(* scheduler spawns its child.                                             *)

ScheduleInv == ScheduleTypeOK /\ LockInv

(* The lock file does not exist and nothing runs. *)
LEMMA LockInitially == ScheduleInit => ScheduleInv
<1> SUFFICES ASSUME ScheduleInit PROVE ScheduleInv
  OBVIOUS
<1>1. ScheduleTypeOK
  BY DEF ScheduleInit, ScheduleTypeOK, Phases
<1>2. LockInv
  BY NoneAssumption DEF ScheduleInit, LockInv, Guarded
<1> QED
  BY <1>1, <1>2 DEF ScheduleInv

(* A step of one scheduler keeps the invariant, whatever the others do. *)
LEMMA SchedulerKeepsLock ==
  ASSUME ScheduleInv, NEW s \in Schedulers,
         \/ Refuse(s) \/ Block(s) \/ Reap(s) \/ Timeout(s) \/ Leave(s) \/ Kill(s) \/ RemoveLock(s)
         \/ \E again \in BOOLEAN : Acquire(s, again)
         \/ \E w \in Workers : Spawn(s, w)
  PROVE  ScheduleInv'
<1> USE DEF ScheduleInv, ScheduleTypeOK, LockInv
<1>1. CASE \E again \in BOOLEAN : Acquire(s, again)
  <2>1. PICK again \in BOOLEAN : Acquire(s, again)
    BY <1>1
  <2>2. ScheduleTypeOK'
    BY <2>1 DEF Acquire, Phases
  <2>3. LockInv'
    BY <2>1, NoneAssumption DEF Acquire, Guarded, Phases
  <2> QED
    BY <2>2, <2>3
<1>2. CASE \E w \in Workers : Spawn(s, w)
  <2>1. PICK w \in Workers : Spawn(s, w)
    BY <1>2
  <2>2. ScheduleTypeOK'
    BY <2>1 DEF Spawn, Phases
  <2>3. lock = s /\ lock' = s
    BY <2>1 DEF Spawn
  <2>4. ~overridden' => live' = {w} /\ child'[s] = w
    BY <2>1, <2>3 DEF Spawn, Guarded
  <2>5. LockInv'
    BY <2>1, <2>3, <2>4, NoneAssumption DEF Spawn, Guarded, Phases
  <2> QED
    BY <2>2, <2>5
<1>3. CASE Refuse(s) \/ Block(s)
  <2>1. ScheduleTypeOK'
    BY <1>3 DEF Refuse, Block, Phases
  <2>2. LockInv'
    BY <1>3, NoneAssumption DEF Refuse, Block, Guarded, Phases
  <2> QED
    BY <2>1, <2>2
<1>4. CASE Reap(s) \/ Timeout(s)
  <2>1. ScheduleTypeOK'
    BY <1>4 DEF Reap, Timeout, Phases
  <2>2. lock = s /\ lock' = s
    BY <1>4 DEF Reap, Timeout
  <2>3. ~overridden' => live' = {}
    BY <1>4, <2>2 DEF Reap, Timeout, Guarded
  <2>4. LockInv'
    BY <1>4, <2>2, <2>3, NoneAssumption DEF Reap, Timeout, Guarded, Phases
  <2> QED
    BY <2>1, <2>4
<1>5. CASE Leave(s)
  <2>1. ScheduleTypeOK'
    BY <1>5 DEF Leave, Phases
  <2>2. LockInv'
    BY <1>5, NoneAssumption DEF Leave, Guarded, Phases
  <2> QED
    BY <2>1, <2>2
<1>6. CASE Kill(s)
  <2>1. ScheduleTypeOK'
    BY <1>6 DEF Kill, Phases
  <2>2. LockInv'
    BY <1>6, NoneAssumption DEF Kill, Guarded, Phases
  <2> QED
    BY <2>1, <2>2
<1>7. CASE RemoveLock(s)
  <2>1. ScheduleTypeOK'
    BY <1>7 DEF RemoveLock, Phases
  <2>2. LockInv'
    BY <1>7, NoneAssumption DEF RemoveLock, Guarded, Phases
  <2> QED
    BY <2>1, <2>2
<1> QED
  BY <1>1, <1>2, <1>3, <1>4, <1>5, <1>6, <1>7

(* A collector that is started by hand or ends keeps it too. *)
LEMMA CollectorKeepsLock ==
  ASSUME ScheduleInv, NEW w \in Workers, StartByHand(w) \/ Exit(w)
  PROVE  ScheduleInv'
<1> USE DEF ScheduleInv, ScheduleTypeOK, LockInv
<1>1. ScheduleTypeOK'
  BY DEF StartByHand, Exit
<1>2. LockInv'
  BY DEF StartByHand, Exit, Guarded
<1> QED
  BY <1>1, <1>2

(* A step of the schedule, or one that is none of its business. *)
LEMMA ScheduleStep ==
  ASSUME ScheduleInv, [ScheduleNext]_scheduleVars
  PROVE  ScheduleInv'
<1>1. CASE UNCHANGED scheduleVars
  BY <1>1 DEF ScheduleInv, ScheduleTypeOK, LockInv, Guarded, scheduleVars
<1>2. CASE ScheduleNext
  BY <1>2, SchedulerKeepsLock, CollectorKeepsLock DEF ScheduleNext
<1> QED
  BY <1>1, <1>2

(* One scheduler has the lock at most, and only what it waits for runs. *)
LEMMA LockExcludes == ScheduleInv => OneCollector
<1> SUFFICES ASSUME ScheduleInv, ~overridden, NEW v \in live, NEW w \in live PROVE v = w
  BY DEF OneCollector
<1>1. PICK s \in Schedulers : lock = s
  BY DEF ScheduleInv, ScheduleTypeOK, LockInv
<1>2. Guarded(s) /\ phase[s] \in Phases \ {"idle"}
  BY <1>1 DEF ScheduleInv, ScheduleTypeOK, LockInv
<1> QED
  BY <1>2 DEF Guarded, Phases

(* Types of the schedule, whatever the constants. *)
THEOREM ScheduleTypes == ScheduleSpec => []ScheduleTypeOK
<1>1. ScheduleInv /\ [ScheduleNext]_scheduleVars => ScheduleInv'
  BY ScheduleStep
<1>2. ScheduleInv => ScheduleTypeOK
  BY DEF ScheduleInv
<1> QED
  BY LockInitially, <1>1, <1>2, PTL DEF ScheduleSpec

(* RunLock: no two collectors as long as nobody goes round the lock. *)
THEOREM LockHolds == ScheduleSpec => []OneCollector
<1>1. ScheduleInv /\ [ScheduleNext]_scheduleVars => ScheduleInv'
  BY ScheduleStep
<1> QED
  BY LockInitially, <1>1, LockExcludes, PTL DEF ScheduleSpec

-----------------------------------------------------------------------------
(* The inductive invariants                                                 *)

\* A universe lists every bill once.
Listed(u) ==
  /\ u \in Seq(Listings)
  /\ \A i, j \in 1 .. Len(u) : u[i].bill = u[j].bill => i = j

\* The rows of the first n bills have been stored.
Backed(u, n) == /\ Listed(u) /\ n \in 0 .. Len(u)
                /\ \A i \in 1 .. n : captured[u[i].bill] # None

\* The exceptions are those among the first n bills that do not add up.
Exact(u, n, exceptions) ==
  /\ \A x \in exceptions : \E i \in 1 .. n : x = u[i].bill
  /\ \A i \in 1 .. n :
       u[i].bill \in exceptions <=> Clash(u[i].tally, captured[u[i].bill]) # {}

Fields == {"step", "prior", "left", "run", "universe", "position", "exceptions", "committed", "got", "at"}

\* What a collector that is running holds.
Collecting(w) ==
  /\ DOMAIN work[w] = Fields /\ work[w].step \in Steps
  /\ work[w].prior # None => Backed(work[w].prior.universe, work[w].prior.cursor)
  /\ work[w].step \in {"pages", "bills", "fetched"} => work[w].prior = None
  /\ Backed(work[w].universe, work[w].position)
  /\ \A i \in 1 .. Len(work[w].universe) : provider[work[w].universe[i].bill] # None
  /\ work[w].step \in {"read", "universe", "pages"} => work[w].position = 0 /\ work[w].exceptions = {}
  /\ work[w].step = "fetched" =>
       work[w].position < Len(work[w].universe) /\ work[w].got \in Responses

CoverInv ==
  /\ provider \in [Bills -> Responses \cup {None}]
  /\ captured \in [Bills -> Responses \cup {None}]
  /\ DOMAIN work = Workers
  /\ \A w \in live : Collecting(w)
  /\ checkpoint # None => Backed(checkpoint.universe, checkpoint.cursor)
  /\ setting.schedulers = {} => live \subseteq setting.hands

\* A collector that is alone carries on from the checkpoint as it stands.
SoloInv ==
  Solo =>
    /\ checkpoint # None => Exact(checkpoint.universe, checkpoint.cursor, checkpoint.exceptions)
    /\ \A w \in live :
         /\ work[w].prior # None => work[w].prior = checkpoint
         /\ Exact(work[w].universe, work[w].position, work[w].exceptions)

\* The times that order the versions of a row are numbers, and bounded.
TimesInv ==
  \E n \in Nat : /\ \A o \in observations : o.at \in 0 .. n
                 /\ \A w \in live : work[w].at \in 0 .. n

ClaimInv ==
  /\ ClaimsReconciled /\ OneCurrentVote
  /\ pub # None => /\ DOMAIN pub = {"point", "people", "left", "member", "claims"}
                   /\ \A c \in pub.claims : c.row.clash = {}
                   /\ \A c, d \in pub.claims : c.member = d.member /\ c.bill = d.bill => c = d

-----------------------------------------------------------------------------
(* Numbers and ranks                                                        *)

Below == {p \in Nat \X Nat : p[1] < p[2]}

(* A set of naturals that is not empty has a least element. *)
LEMMA LeastOf ==
  ASSUME NEW T, T \subseteq Nat, T # {}
  PROVE  \E x \in T : \A y \in T : x <= y
<1>1. IsWellFoundedOn(Below, Nat)
  BY NatLessThanWellFounded DEF OpToRel, Below
<1>2. \E x \in T : \A y \in T : <<y, x>> \notin Below
  BY <1>1, WFMin, Zenon
<1>3. \A x, y \in Nat : y < x => <<y, x>> \in Below
  BY DEF Below
<1>4. PICK x \in T : \A y \in T : <<y, x>> \notin Below
  BY <1>2
<1>5. ASSUME NEW y \in T PROVE x <= y
  <2>1. ~ (y < x)
    BY <1>3, <1>4
  <2> QED
    BY <2>1
<1> QED
  BY <1>5

(* A bounded one has a greatest. *)
LEMMA GreatestOf ==
  ASSUME NEW T, T \subseteq Nat, T # {}, NEW n \in Nat, \A x \in T : x <= n
  PROVE  \E x \in T : \A y \in T : y <= x
<1> DEFINE D == {k \in Nat : n - k \in T /\ k <= n}
<1>1. D \subseteq Nat /\ D # {}
  <2>1. PICK x \in T : x <= n
    OBVIOUS
  <2>2. n - (n - x) = x /\ n - x \in Nat /\ n - x <= n
    BY <2>1
  <2>3. n - x \in D
    BY <2>1, <2>2
  <2> QED
    BY <2>3
<1>2. PICK k \in D : \A j \in D : k <= j
  <2> HIDE DEF D
  <2> QED
    BY <1>1, LeastOf
<1>3. ASSUME NEW y \in T PROVE y <= n - k
  <2>1. y \in Nat /\ y <= n /\ n - (n - y) = y /\ n - y \in Nat /\ n - y <= n
    OBVIOUS
  <2>2. n - y \in D
    BY <2>1
  <2> QED
    BY <1>2, <2>1, <2>2
<1> QED
  BY <1>2, <1>3

(* A finite set of naturals is bounded: the first k of them are, for every k. *)
LEMMA FiniteBounded ==
  ASSUME NEW S, S \subseteq Nat, IsFiniteSet(S)
  PROVE  \E n \in Nat : \A x \in S : x <= n
<1> DEFINE c == Cardinality(S)
<1>1. c \in Nat /\ ExistsBijection(1 .. c, S)
  BY FS_CardinalityType
<1>2. PICK f \in Bijection(1 .. c, S) : TRUE
  BY <1>1 DEF ExistsBijection
<1>3. f \in [1 .. c -> S] /\ \A x \in S : \E i \in 1 .. c : f[i] = x
  BY <1>2 DEF Bijection, Surjection, Injection
<1> DEFINE U == {k \in 0 .. c : \A n \in Nat : \E i \in 1 .. k : ~ (f[i] <= n)}
<1> HIDE DEF c
<1>4. U = {}
  <2> SUFFICES ASSUME U # {} PROVE FALSE
    OBVIOUS
  <2>1. PICK k \in U : \A j \in U : k <= j
    <3>1. U \subseteq Nat
      BY <1>1
    <3> HIDE DEF U
    <3> QED
      BY <3>1, LeastOf
  <2>2. k \in 1 .. c
    <3>1. k # 0
      BY <2>1
    <3> QED
      BY <1>1, <2>1, <3>1
  <2>3. k - 1 \notin U /\ k - 1 \in 0 .. c
    <3>1. k \in Nat /\ ~ (k <= k - 1) /\ k - 1 \in 0 .. c
      BY <1>1, <2>2
    <3> HIDE DEF U
    <3> QED
      BY <3>1, <2>1
  <2>4. PICK n \in Nat : \A i \in 1 .. k - 1 : f[i] <= n
    BY <2>3
  <2>5. f[k] \in Nat
    BY <1>3, <2>2
  <2>6. PICK m \in Nat : n <= m /\ f[k] <= m
    <3> HIDE DEF U
    <3>1. \A y \in Nat : n <= n + y /\ y <= n + y /\ n + y \in Nat
      OBVIOUS
    <3> QED
      BY <2>5, <3>1
  <2>7. \A i \in 1 .. k : f[i] \in Nat /\ f[i] <= m
    <3> TAKE i \in 1 .. k
    <3>1. f[i] \in Nat
      <4>1. i \in 1 .. c
        BY <1>1, <2>2
      <4> QED
        BY <1>3, <4>1
    <3>2. CASE i = k
      BY <2>5, <2>6, <3>2
    <3>3. CASE i \in 1 .. k - 1
      <4>1. f[i] <= n
        BY <2>4, <3>3
      <4> QED
        <5> HIDE DEF U
        <5>1. \A y \in Nat : y <= n /\ n <= m => y <= m
          OBVIOUS
        <5> QED
          BY <4>1, <5>1, <2>6, <3>1
    <3> QED
      BY <2>2, <3>2, <3>3, <3>1
  <2> QED
    BY <2>1, <2>7
<1>5. PICK n \in Nat : \A i \in 1 .. c : f[i] <= n
  <2>1. c \in 0 .. c
    BY <1>1
  <2>2. ~ (\A n \in Nat : \E i \in 1 .. c : ~ (f[i] <= n))
    BY <1>4, <2>1
  <2> QED
    BY <2>2
<1> QED
  BY <1>3, <1>5

Rank(S, c) == Cardinality({d \in S : d <= c})

(* A finite set of numbers has a member of every rank. *)
LEMMA RankTaken ==
  ASSUME NEW S, S \subseteq Nat, IsFiniteSet(S), NEW i \in 1 .. Cardinality(S)
  PROVE  \E c \in S : Rank(S, c) = i
<1> DEFINE Upto(c) == {d \in S : d <= c}
<1>1. \A c : IsFiniteSet(Upto(c)) /\ Cardinality(Upto(c)) \in Nat
  BY FS_Subset, FS_CardinalityType
<1>2. Cardinality(S) \in Nat /\ S # {}
  BY FS_CardinalityType, FS_EmptySet
<1> DEFINE T == {c \in S : i <= Cardinality(Upto(c))}
<1>3. PICK n \in Nat : \A x \in S : x <= n
  BY FiniteBounded
<1>4. PICK g \in S : \A y \in S : y <= g
  BY <1>2, <1>3, GreatestOf
<1>5. Upto(g) = S
  BY <1>4
<1>6. T \subseteq Nat /\ T # {}
  <2>1. i <= Cardinality(Upto(g))
    <3> HIDE DEF Upto
    <3> QED
      BY <1>5, <1>2
  <2> QED
    BY <1>4, <2>1
<1>7. PICK c \in T : \A y \in T : c <= y
  <2> HIDE DEF T
  <2> QED
    BY <1>6, LeastOf
<1>8. c \in S /\ i <= Cardinality(Upto(c))
  BY <1>7
<1> DEFINE B == {d \in S : d < c}
<1>9. B \subseteq S /\ IsFiniteSet(B) /\ Cardinality(B) \in Nat
  BY FS_Subset, FS_CardinalityType
<1>10. Upto(c) = B \cup {c} /\ c \notin B
  <2>1. \A d \in S : d \in Nat /\ (d <= c <=> d < c \/ d = c) /\ ~ (c < c)
    BY <1>8
  <2> QED
    BY <2>1, <1>8
<1>11. Cardinality(Upto(c)) = Cardinality(B) + 1
  <2> HIDE DEF B, Upto
  <2> QED
    BY <1>9, <1>10, FS_AddElement
<1>12. Cardinality(B) < i
  <2>1. CASE B = {}
    BY <2>1, FS_EmptySet
  <2>2. CASE B # {}
    <3>1. B \subseteq Nat /\ \A x \in B : x <= n
      BY <1>3
    <3>2. PICK p \in B : \A y \in B : y <= p
      <4> HIDE DEF B
      <4> QED
        BY <2>2, <3>1, GreatestOf
    <3>3. B = Upto(p) /\ p \in S /\ p < c
      <4>1. p \in S /\ p < c
        OBVIOUS
      <4>2. \A d \in S : d \in Nat /\ (d < c => d \in B)
        OBVIOUS
      <4>3. \A d \in S : d <= p => d < c
        BY <4>1, <1>8
      <4> QED
        BY <4>1, <4>2, <4>3, <3>2
    <3>4. p \notin T
      BY <3>3, <1>7, <1>8
    <3>5. ~ (i <= Cardinality(Upto(p)))
      BY <3>3, <3>4
    <3> QED
      BY <3>3, <3>5, <1>1
  <2> QED
    BY <2>1, <2>2
<1>13. Cardinality(Upto(c)) = i
  BY <1>8, <1>9, <1>11, <1>12
<1> QED
  BY <1>8, <1>13 DEF Rank

(* The universe lists every bill that was voted on, once. *)
LEMMA UniverseListed ==
  ASSUME provider \in [Bills -> Responses \cup {None}]
  PROVE  /\ Listed(Universe)
         /\ \A i \in 1 .. Len(Universe) : provider[Universe[i].bill] # None
<1>1. Voted \subseteq Nat /\ Voted \subseteq Bills /\ IsFiniteSet(Voted)
  BY BillsAssumption, FS_Subset DEF Voted
<1> DEFINE n == Cardinality(Voted)
<1>2. n \in Nat
  BY <1>1, FS_CardinalityType
<1>3. ASSUME NEW i \in 1 .. n
      PROVE  /\ Summary(i) \in Listings
             /\ Summary(i).bill \in Voted /\ Rank(Voted, Summary(i).bill) = i
  <2> DEFINE P(c) == Cardinality({d \in Voted : d <= c}) = i
             c == CHOOSE x \in Voted : P(x)
  <2>1. \E x \in Voted : P(x)
    BY <1>1, RankTaken DEF Rank
  <2>2. c \in Voted /\ P(c)
    <3> HIDE DEF P
    <3> QED
      BY <2>1, Zenon
  <2>3. Rank(Voted, c) = i
    BY <2>2 DEF Rank
  <2>4. Summary(i) = [bill |-> c, tally |-> Tally(provider[c])]
    BY DEF Summary
  <2> HIDE DEF c
  <2>5. provider[c] \in Responses
    BY <2>2, NoneIsNothing DEF Voted
  <2> QED
    BY <2>2, <2>3, <2>4, <2>5, <1>1 DEF Listings, Tallies
<1> HIDE DEF n
<1>4. Universe = [i \in 1 .. n |-> Summary(i)]
  BY DEF Universe, n
<1>5. Universe \in Seq(Listings) /\ Len(Universe) = n
  BY <1>2, <1>3, <1>4
<1>6. \A i, j \in 1 .. n : Universe[i].bill = Universe[j].bill => i = j
  BY <1>3, <1>4
<1>7. \A i \in 1 .. n : provider[Universe[i].bill] # None
  BY <1>3, <1>4 DEF Voted
<1> QED
  BY <1>5, <1>6, <1>7 DEF Listed

-----------------------------------------------------------------------------
(* The schedule                                                             *)

(* Every step of the system is one of the schedule, or leaves it alone. *)
LEMMA ScheduleFollowed ==
  ASSUME ScheduleInv, [Next]_vars
  PROVE  [ScheduleNext]_scheduleVars
<1>1. CASE UNCHANGED vars
  BY <1>1 DEF vars
<1>2. ASSUME NEW s \in Schedulers, Schedule(s) \/ KillChild(s) \/ \E w \in Workers : Launch(s, w)
      PROVE  ScheduleNext
  BY <1>2 DEF Schedule, KillChild, Launch, ScheduleNext
<1>3. ASSUME NEW w \in Workers, NEW again \in BOOLEAN, NEW budget, Start(w, again, budget)
      PROVE  ScheduleNext
  BY <1>3 DEF Start, ScheduleNext
<1>4. ASSUME NEW w \in live, Collector(w)
      PROVE  [ScheduleNext]_scheduleVars
  <2>1. CASE OpenRun(w) \/ FetchUniverse(w) \/ CommitPages(w) \/ FetchBill(w) \/ CommitBill(w)
    BY <2>1 DEF OpenRun, FetchUniverse, CommitPages, FetchBill, CommitBill
  <2>2. CASE Finish(w) \/ Fail(w) \/ Die(w)
    <3>1. Exit(w)
      BY <2>2 DEF Finish, Fail, Die
    <3> QED
      BY <3>1 DEF ScheduleNext, ScheduleInv, ScheduleTypeOK
  <2> QED
    BY <1>4, <2>1, <2>2 DEF Collector
<1>5. ASSUME NEW b, NEW r, Amend(b, r) PROVE UNCHANGED scheduleVars
  BY <1>5 DEF Amend
<1>6. ASSUME NEW c, Withdraw(c) \/ Restore(c) \/ Replace(c) \/ Unlink(c) \/ ReadMember(c)
      PROVE  UNCHANGED scheduleVars
  BY <1>6 DEF Withdraw, Restore, Replace, Unlink, ReadMember, Edit
<1>7. CASE StartPublication \/ ImportMember \/ Report \/ StopPublication
  BY <1>7 DEF StartPublication, ImportMember, Report, StopPublication
<1> QED
  BY <1>1, <1>2, <1>3, <1>4, <1>5, <1>6, <1>7 DEF Next

-----------------------------------------------------------------------------
(* The collectors                                                           *)

CollectorInv == CoverInv /\ SoloInv /\ TimesInv

Calm ==
  /\ UNCHANGED <<setting, provider, captured, checkpoint, observations>>
  /\ live' \subseteq live /\ (overridden => overridden')
  /\ DOMAIN work' = Workers /\ \A w \in live' : work'[w] = work[w]

(* A step that neither starts nor moves a collector, nor stores anything. *)
LEMMA CalmStep ==
  ASSUME CollectorInv, Calm
  PROVE  CollectorInv'
<1> USE DEF CollectorInv, Calm
<1>1. CoverInv'
  <2>1. ASSUME NEW w \in live' PROVE Collecting(w)'
    BY <2>1 DEF CoverInv, Collecting, Backed
  <2> QED
    BY <2>1 DEF CoverInv, Backed
<1>2. SoloInv'
  <2>1. Solo' => Solo
    BY DEF Solo
  <2>2. SUFFICES ASSUME Solo, Solo'
                 PROVE  /\ (checkpoint # None =>
                             Exact(checkpoint.universe, checkpoint.cursor, checkpoint.exceptions))'
                        /\ \A w \in live' :
                             /\ (work[w].prior # None => work[w].prior = checkpoint)'
                             /\ Exact(work[w].universe, work[w].position, work[w].exceptions)'
    BY <2>1 DEF SoloInv
  <2> QED
    BY <2>2 DEF SoloInv, Exact
<1>3. TimesInv'
  BY DEF TimesInv
<1> QED
  BY <1>1, <1>2, <1>3

(* Schedulers, endings, operators and publishers are calm. *)
LEMMA CalmSteps ==
  ASSUME ScheduleInv, CoverInv
  PROVE  /\ UNCHANGED vars => Calm
         /\ \A s \in Schedulers : Schedule(s) \/ KillChild(s) => Calm
         /\ \A w \in live : Finish(w) \/ Fail(w) \/ Die(w) => Calm
         /\ \A c : Withdraw(c) \/ Restore(c) \/ Replace(c) \/ Unlink(c) \/ ReadMember(c) => Calm
         /\ StartPublication \/ ImportMember \/ Report \/ StopPublication => Calm
<1> USE DEF Calm, CoverInv
<1>1. UNCHANGED vars => Calm
  BY DEF vars, scheduleVars, collectionVars
<1>2. ASSUME NEW s \in Schedulers, Schedule(s) PROVE Calm
  <2>1. UNCHANGED <<setting, provider, captured, checkpoint, observations, work>>
    BY <1>2 DEF Schedule, collectionVars
  <2>2. live' = live /\ (overridden => overridden')
    <3>1. ASSUME RemoveLock(s) PROVE live' = live /\ (overridden => overridden')
      BY <3>1, Zenon DEF RemoveLock
    <3>2. ASSUME Refuse(s) \/ Block(s) \/ Reap(s) \/ Leave(s) \/ Kill(s) \/ \E again \in BOOLEAN : Acquire(s, again)
          PROVE  live' = live /\ (overridden => overridden')
      BY <3>2 DEF Refuse, Block, Reap, Leave, Acquire, Kill
    <3>3. \/ RemoveLock(s)
          \/ Refuse(s) \/ Block(s) \/ Reap(s) \/ Leave(s) \/ Kill(s) \/ \E again \in BOOLEAN : Acquire(s, again)
      BY <1>2 DEF Schedule
    <3> HIDE DEF Calm, CoverInv
    <3> QED
      BY <3>1, <3>2, <3>3
  <2> QED
    BY <2>1, <2>2
<1>3. ASSUME NEW s \in Schedulers, KillChild(s) PROVE Calm
  <2>1. UNCHANGED <<setting, provider, captured, checkpoint, observations, overridden>>
    BY <1>3 DEF KillChild, Timeout, collectionVars
  <2>2. live' \subseteq live /\ live' \subseteq Workers
    BY <1>3 DEF KillChild, Timeout, ScheduleInv, ScheduleTypeOK
  <2>3. work' = [w \in Workers |-> IF w \in live' THEN work[w] ELSE None]
    BY <1>3 DEF KillChild
  <2> QED
    BY <2>1, <2>2, <2>3
<1>4. ASSUME NEW w \in live, Finish(w) \/ Fail(w) \/ Die(w) PROVE Calm
  <2>1. Exit(w) /\ work' = [work EXCEPT ![w] = None]
    BY <1>4 DEF Finish, Fail, Die, Ended
  <2>2. UNCHANGED <<setting, provider, captured, checkpoint, observations>>
    BY <1>4 DEF Finish, Fail, Die, collectionVars
  <2> QED
    BY <2>1, <2>2 DEF Exit
<1>5. ASSUME NEW c, Withdraw(c) \/ Restore(c) \/ Replace(c) \/ Unlink(c) \/ ReadMember(c) PROVE Calm
  BY <1>5 DEF Withdraw, Restore, Replace, Unlink, Edit, ReadMember, scheduleVars, collectionVars
<1>6. ASSUME StartPublication \/ ImportMember \/ Report \/ StopPublication PROVE Calm
  BY <1>6 DEF StartPublication, ImportMember, Report, StopPublication, scheduleVars, collectionVars
<1> QED
  BY <1>1, <1>2, <1>3, <1>4, <1>5, <1>6

(* A collector that has just begun holds nothing but the checkpoint it read. *)
LEMMA BeginsClean ==
  ASSUME CollectorInv, NEW w \in Workers, NEW again \in BOOLEAN, NEW budget,
         w \notin live, live' = live \cup {w}, work' = Begun(w, again, budget),
         setting.schedulers = {} => w \in setting.hands, overridden => overridden',
         UNCHANGED <<setting, provider, captured, checkpoint, observations>>
  PROVE  CollectorInv'
<1> USE DEF CollectorInv
<1>0. DOMAIN work = Workers
  BY DEF CoverInv
<1>1. /\ DOMAIN work' = Workers /\ \A v \in live : work'[v] = work[v]
      /\ work'[w] = [step |-> "read", prior |-> IF again THEN checkpoint ELSE None, left |-> budget,
                     run |-> 0, universe |-> <<>>, position |-> 0, exceptions |-> {},
                     committed |-> FALSE, got |-> None, at |-> 0]
  BY <1>0 DEF Begun
<1>2. CoverInv'
  <2>1. ASSUME NEW v \in live PROVE Collecting(v)'
    BY <1>1, <2>1 DEF CoverInv, Collecting, Backed
  <2>2. Collecting(w)'
    <3>1. Listed(<<>>)
      BY DEF Listed
    <3>2. DOMAIN work'[w] = Fields /\ work'[w].step \in Steps
      BY <1>1 DEF Fields, Steps
    <3>3. checkpoint # None => Backed(checkpoint.universe, checkpoint.cursor)'
      BY DEF CoverInv, Backed
    <3>4. Backed(<<>>, 0)'
      BY <3>1 DEF Backed
    <3> QED
      <4>1. (work[w].prior # None => Backed(work[w].prior.universe, work[w].prior.cursor))'
        BY <1>1, <3>3
      <4>2. work'[w].universe = <<>> /\ work'[w].position = 0 /\ work'[w].step = "read"
        BY <1>1
      <4> QED
        BY <1>1, <3>2, <3>4, <4>1, <4>2 DEF Collecting
  <2> QED
    BY <1>1, <2>1, <2>2 DEF CoverInv, Backed
<1>3. SoloInv'
  <2>1. Solo' => Solo
    BY DEF Solo
  <2>2. SUFFICES ASSUME Solo, Solo'
                 PROVE  /\ (checkpoint # None =>
                             Exact(checkpoint.universe, checkpoint.cursor, checkpoint.exceptions))'
                        /\ \A v \in live' :
                             /\ (work[v].prior # None => work[v].prior = checkpoint)'
                             /\ Exact(work[v].universe, work[v].position, work[v].exceptions)'
    BY <2>1 DEF SoloInv
  <2>3. ASSUME NEW u, NEW n, NEW x, Exact(u, n, x) PROVE Exact(u, n, x)'
    BY <2>3 DEF Exact
  <2>4. (checkpoint # None =>
           Exact(checkpoint.universe, checkpoint.cursor, checkpoint.exceptions))'
    BY <2>2, <2>3 DEF SoloInv
  <2>5. ASSUME NEW v \in live
        PROVE  /\ (work[v].prior # None => work[v].prior = checkpoint)'
               /\ Exact(work[v].universe, work[v].position, work[v].exceptions)'
    BY <1>1, <2>2, <2>3 DEF SoloInv
  <2>6. /\ (work[w].prior # None => work[w].prior = checkpoint)'
        /\ Exact(work[w].universe, work[w].position, work[w].exceptions)'
    BY <1>1 DEF Exact
  <2> QED
    BY <2>4, <2>5, <2>6
<1>4. TimesInv'
  BY <1>1 DEF TimesInv
<1> QED
  BY <1>2, <1>3, <1>4

(* Two collectors are one, where none goes round the lock. *)
LEMMA Alone ==
  ASSUME ScheduleInv, CoverInv, Solo, NEW v \in live, NEW w \in live
  PROVE  v = w
<1>1. CASE ~overridden
  BY <1>1, LockExcludes DEF OneCollector
<1>2. CASE setting.schedulers = {} /\ \A x, y \in setting.hands : x = y
  BY <1>2 DEF CoverInv
<1> QED
  BY <1>1, <1>2 DEF Solo

\* One collector moves; what is stored of a bill may be replaced.
Moves(w) ==
  /\ UNCHANGED <<setting, provider, live, overridden>>
  /\ DOMAIN work' = Workers /\ \A v \in live \ {w} : work'[v] = work[v]
  /\ captured' \in [Bills -> Responses \cup {None}]
  /\ \A b \in Bills : captured[b] # None => captured'[b] # None

LEMMA ListedBills ==
  ASSUME NEW u, Listed(u)
  PROVE  \A i \in 1 .. Len(u) : u[i].bill \in Bills /\ u[i].tally \in Tallies
<1>1. \A i \in 1 .. Len(u) : u[i] \in Listings
  BY DEF Listed
<1> QED
  BY <1>1 DEF Listings

LEMMA BackedStays ==
  ASSUME NEW w, Moves(w), NEW u, NEW n, Backed(u, n)
  PROVE  Backed(u, n)'
<1>1. Listed(u) /\ n \in 0 .. Len(u) /\ Len(u) \in Nat
  BY DEF Backed, Listed
<1>2. \A i \in 1 .. n : u[i].bill \in Bills
  BY <1>1, ListedBills
<1> QED
  BY <1>2 DEF Moves, Backed

LEMMA MovedCover ==
  ASSUME CoverInv, NEW w \in live, Moves(w), Collecting(w)',
         (checkpoint # None => Backed(checkpoint.universe, checkpoint.cursor))'
  PROVE  CoverInv'
<1>1. ASSUME NEW v \in live, v # w PROVE Collecting(v)'
  <2>1. work'[v] = work[v] /\ Collecting(v) /\ provider' = provider
    BY <1>1 DEF CoverInv, Moves
  <2> QED
    BY <2>1, BackedStays DEF Collecting
<1> QED
  BY <1>1 DEF CoverInv, Moves

LEMMA MovedSolo ==
  ASSUME SoloInv, NEW w \in live, Moves(w), UNCHANGED <<captured, checkpoint>>,
         Solo => /\ work'[w].prior # None => work'[w].prior = checkpoint
                 /\ Exact(work'[w].universe, work'[w].position, work'[w].exceptions)
  PROVE  SoloInv'
<1>1. Solo' => Solo
  BY DEF Solo, Moves
<1>2. ASSUME NEW u, NEW n, NEW x, Exact(u, n, x) PROVE Exact(u, n, x)'
  BY <1>2 DEF Exact
<1>3. SUFFICES ASSUME Solo
               PROVE  /\ (checkpoint # None =>
                           Exact(checkpoint.universe, checkpoint.cursor, checkpoint.exceptions))'
                      /\ \A v \in live' :
                           /\ (work[v].prior # None => work[v].prior = checkpoint)'
                           /\ Exact(work[v].universe, work[v].position, work[v].exceptions)'
  BY <1>1 DEF SoloInv
<1>4. (checkpoint # None => Exact(checkpoint.universe, checkpoint.cursor, checkpoint.exceptions))'
  BY <1>2, <1>3 DEF SoloInv
<1>5. ASSUME NEW v \in live
      PROVE  /\ (work[v].prior # None => work[v].prior = checkpoint)'
             /\ Exact(work[v].universe, work[v].position, work[v].exceptions)'
  <2>1. CASE v = w
    BY <1>2, <1>3, <2>1
  <2>2. CASE v # w
    BY <1>2, <1>3, <2>2 DEF SoloInv, Moves
  <2> QED
    BY <2>1, <2>2
<1> QED
  BY <1>4, <1>5 DEF Moves

LEMMA CommittedSolo ==
  ASSUME ScheduleInv, CoverInv, NEW w \in live, Moves(w), work'[w].prior = None,
         Solo => /\ Exact(checkpoint.universe, checkpoint.cursor, checkpoint.exceptions)'
                 /\ Exact(work[w].universe, work[w].position, work[w].exceptions)'
  PROVE  SoloInv'
<1>1. Solo' => Solo
  BY DEF Solo, Moves
<1>2. ASSUME Solo, NEW v \in live'
      PROVE  /\ (work[v].prior # None => work[v].prior = checkpoint)'
             /\ Exact(work[v].universe, work[v].position, work[v].exceptions)'
  <2>1. v = w
    BY <1>2, Alone DEF Moves
  <2> QED
    BY <1>2, <2>1
<1> QED
  BY <1>1, <1>2 DEF SoloInv

LEMMA BeginStep ==
  ASSUME ScheduleInv, CollectorInv, NEW w \in Workers,
         \/ \E s \in Schedulers : Launch(s, w)
         \/ \E again \in BOOLEAN, budget \in {1, Cardinality(Bills)} : Start(w, again, budget)
  PROVE  CollectorInv'
<1>1. ASSUME NEW s \in Schedulers, Launch(s, w), ScheduleInv PROVE CollectorInv'
  <2>1. w \notin live /\ live' = live \cup {w} /\ overridden' = overridden /\ resume[s] \in BOOLEAN
    BY <1>1 DEF Launch, Spawn, Free, ScheduleInv, ScheduleTypeOK
  <2>2. setting.schedulers # {} /\ work' = Begun(w, resume[s], Cardinality(Bills))
    BY <1>1 DEF Launch
  <2>3. UNCHANGED <<setting, provider, captured, checkpoint, observations>>
    BY <1>1 DEF Launch, collectionVars
  <2> QED
    BY <2>1, <2>2, <2>3, BeginsClean
<1>2. ASSUME NEW again \in BOOLEAN, NEW budget, Start(w, again, budget) PROVE CollectorInv'
  <2>1. w \notin live /\ live' = live \cup {w} /\ overridden' = TRUE
    BY <1>2 DEF Start, StartByHand, Free
  <2>2. w \in setting.hands /\ work' = Begun(w, again, budget)
    BY <1>2 DEF Start
  <2>3. UNCHANGED <<setting, provider, captured, checkpoint, observations>>
    BY <1>2 DEF Start, collectionVars
  <2> QED
    BY <2>1, <2>2, <2>3, BeginsClean
<1> QED
  BY <1>1, <1>2

LEMMA OpenRunStep ==
  ASSUME CollectorInv, NEW w \in live, live \subseteq Workers, OpenRun(w)
  PROVE  CollectorInv'
<1> USE DEF CollectorInv
<1>1. DOMAIN work = Workers /\ Collecting(w) /\ work[w].step = "read"
  BY DEF CoverInv, OpenRun
<1>2. work' = [work EXCEPT ![w].step = "universe", ![w].run = NewRun]
  BY DEF OpenRun
<1>3. /\ DOMAIN work' = Workers /\ \A v \in live \ {w} : work'[v] = work[v]
      /\ DOMAIN work'[w] = Fields /\ work'[w].step = "universe"
      /\ \A f \in Fields \ {"step", "run"} : work'[w][f] = work[w][f]
  BY <1>1, <1>2 DEF Collecting, Fields
<1>4. UNCHANGED <<setting, provider, live, overridden, captured, checkpoint, observations>>
  BY DEF OpenRun, scheduleVars
<1>5. Moves(w)
  BY <1>3, <1>4 DEF Moves, CoverInv
<1>6. /\ work'[w].prior = work[w].prior /\ work'[w].universe = work[w].universe
      /\ work'[w].position = work[w].position /\ work'[w].exceptions = work[w].exceptions
      /\ work'[w].at = work[w].at
  BY <1>3 DEF Fields
<1>7. Collecting(w)'
  <2>1. Backed(work[w].universe, work[w].position)'
    BY <1>1, <1>5, <1>6, BackedStays DEF Collecting
  <2>2. (work[w].prior # None => Backed(work[w].prior.universe, work[w].prior.cursor))'
    BY <1>1, <1>5, <1>6, BackedStays DEF Collecting
  <2> QED
    BY <1>1, <1>3, <1>4, <1>6, <2>1, <2>2 DEF Collecting, Steps
<1>8. CoverInv'
  BY <1>4, <1>5, <1>7, BackedStays, MovedCover DEF CoverInv
<1>9. SoloInv'
  BY <1>4, <1>5, <1>6, MovedSolo DEF SoloInv
<1>10. TimesInv'
  BY <1>3, <1>4, <1>6 DEF TimesInv
<1> QED
  BY <1>8, <1>9, <1>10

LEMMA FetchUniverseStep ==
  ASSUME CollectorInv, NEW w \in live, live \subseteq Workers, FetchUniverse(w)
  PROVE  CollectorInv'
<1> USE DEF CollectorInv
<1>1. DOMAIN work = Workers /\ Collecting(w) /\ work[w].step = "universe"
  BY DEF CoverInv, FetchUniverse
<1>2. UNCHANGED <<setting, provider, live, overridden, captured, checkpoint, observations>>
  BY DEF FetchUniverse, scheduleVars, collectionVars
<1>3. Listed(Universe) /\ \A i \in 1 .. Len(Universe) : provider[Universe[i].bill] # None
  BY UniverseListed DEF CoverInv
<1>4. ASSUME work[w].prior = None
      PROVE  /\ Moves(w) /\ Collecting(w)' /\ work'[w].at = work[w].at
             /\ Solo => /\ work'[w].prior # None => work'[w].prior = checkpoint
                        /\ Exact(work'[w].universe, work'[w].position, work'[w].exceptions)
  <2>1. work' = [work EXCEPT ![w].step = "pages", ![w].universe = Universe]
    BY <1>4 DEF FetchUniverse
  <2>2. /\ DOMAIN work' = Workers /\ \A v \in live \ {w} : work'[v] = work[v]
        /\ DOMAIN work'[w] = Fields /\ work'[w].step = "pages" /\ work'[w].universe = Universe
        /\ work'[w].prior = None /\ work'[w].at = work[w].at
        /\ work'[w].position = 0 /\ work'[w].exceptions = {}
    BY <1>1, <1>4, <2>1 DEF Collecting, Fields
  <2>3. Moves(w)
    BY <1>2, <2>2 DEF Moves, CoverInv
  <2>4. Backed(Universe, 0)
    BY <1>3 DEF Backed, Listed
  <2>5. Backed(work[w].universe, work[w].position)'
    BY <2>2, <2>3, <2>4, BackedStays
  <2>6. Collecting(w)'
    BY <1>2, <1>3, <2>2, <2>5 DEF Collecting, Steps
  <2>7. Exact(Universe, 0, {})
    BY DEF Exact
  <2> QED
    BY <2>2, <2>3, <2>6, <2>7
<1>5. ASSUME work[w].prior # None
      PROVE  /\ Moves(w) /\ Collecting(w)' /\ work'[w].at = work[w].at
             /\ Solo => /\ work'[w].prior # None => work'[w].prior = checkpoint
                        /\ Exact(work'[w].universe, work'[w].position, work'[w].exceptions)
  <2> DEFINE prior == work[w].prior
  <2>1. work' = [work EXCEPT ![w].step = "bills", ![w].universe = Universe, ![w].prior = None,
                            ![w].position = prior.cursor, ![w].exceptions = prior.exceptions]
        /\ prior.universe = Universe
    BY <1>5 DEF FetchUniverse, Resumable
  <2> HIDE DEF prior
  <2>2. /\ DOMAIN work' = Workers /\ \A v \in live \ {w} : work'[v] = work[v]
        /\ DOMAIN work'[w] = Fields /\ work'[w].step = "bills" /\ work'[w].universe = prior.universe
        /\ work'[w].prior = None /\ work'[w].at = work[w].at
        /\ work'[w].position = prior.cursor /\ work'[w].exceptions = prior.exceptions
    BY <1>1, <1>5, <2>1 DEF Collecting, Fields
  <2>3. Moves(w)
    BY <1>2, <2>2 DEF Moves, CoverInv
  <2>4. Backed(prior.universe, prior.cursor)
    BY <1>1, <1>5 DEF Collecting, prior
  <2>5. Backed(work[w].universe, work[w].position)'
    BY <2>2, <2>3, <2>4, BackedStays
  <2>6. Collecting(w)'
    BY <1>2, <1>3, <2>1, <2>2, <2>5 DEF Collecting, Steps
  <2>7. Solo => Exact(prior.universe, prior.cursor, prior.exceptions)
    <3>1. Solo => prior = checkpoint /\ checkpoint # None
      BY <1>5 DEF SoloInv, prior
    <3> QED
      BY <3>1 DEF SoloInv
  <2> QED
    BY <2>2, <2>3, <2>6, <2>7
<1>6. CoverInv'
  BY <1>2, <1>4, <1>5, BackedStays, MovedCover DEF CoverInv
<1>7. SoloInv'
  BY <1>2, <1>4, <1>5, MovedSolo
<1>8. TimesInv'
  BY <1>2, <1>4, <1>5 DEF TimesInv, Moves
<1> QED
  BY <1>6, <1>7, <1>8

LEMMA CommitPagesStep ==
  ASSUME ScheduleInv, CollectorInv, NEW w \in live, CommitPages(w)
  PROVE  CollectorInv'
<1> USE DEF CollectorInv
<1>1. DOMAIN work = Workers /\ Collecting(w) /\ work[w].step = "pages" /\ live \subseteq Workers
  BY DEF CoverInv, CommitPages, ScheduleInv, ScheduleTypeOK
<1>2. UNCHANGED <<setting, provider, live, overridden, captured, observations>>
  BY DEF CommitPages, scheduleVars
<1>3. /\ work' = [work EXCEPT ![w].step = "bills", ![w].committed = TRUE]
      /\ checkpoint' = [run |-> work[w].run, universe |-> work[w].universe, cursor |-> 0,
                        exceptions |-> {}]
  BY DEF CommitPages
<1>4. /\ DOMAIN work' = Workers /\ \A v \in live \ {w} : work'[v] = work[v]
      /\ DOMAIN work'[w] = Fields /\ work'[w].step = "bills" /\ work'[w].universe = work[w].universe
      /\ work'[w].prior = work[w].prior /\ work'[w].at = work[w].at
      /\ work'[w].position = 0 /\ work'[w].exceptions = {} /\ work[w].position = 0
  BY <1>1, <1>3 DEF Collecting, Fields
<1>5. Moves(w)
  BY <1>2, <1>4 DEF Moves, CoverInv
<1>6. Collecting(w)'
  BY <1>1, <1>2, <1>4, <1>5, BackedStays DEF Collecting, Steps
<1>7. Backed(checkpoint.universe, checkpoint.cursor)'
  BY <1>1, <1>3, <1>4, <1>5, BackedStays DEF Collecting
<1>8. CoverInv'
  BY <1>5, <1>6, <1>7, MovedCover
<1>9. Exact(work[w].universe, 0, {})'
  BY DEF Exact
<1>10. SoloInv'
  BY <1>1, <1>3, <1>4, <1>5, <1>9, CommittedSolo DEF Collecting
<1>11. TimesInv'
  BY <1>2, <1>4 DEF TimesInv
<1> QED
  BY <1>8, <1>10, <1>11

(* A time is a number, later than what is stored of its bill. *)
LEMMA NowIsNumber ==
  ASSUME NEW n \in Nat, \A o \in observations : o.at \in 0 .. n,
         \A w \in live : work[w].at \in 0 .. n, NEW b
  PROVE  Now(b) \in 0 .. n + 1
<1> DEFINE held == {work[w].at : w \in {v \in live : work[v].got # None /\ Bill(v).bill = b}}
           used == {0} \cup held \cup {o.at : o \in {p \in observations : p.bill = b}}
           top == CHOOSE x \in used : \A y \in used : y <= x
<1>1. used \subseteq 0 .. n /\ used # {}
  OBVIOUS
<1>2. top \in used
  <2>1. used \subseteq Nat /\ \A x \in used : x <= n
    BY <1>1
  <2> HIDE DEF used
  <2>2. \E x \in used : \A y \in used : y <= x
    BY <1>1, <2>1, GreatestOf
  <2> QED
    BY <2>2
<1>3. Now(b) = 1 + top
  BY DEF Now
<1> HIDE DEF used, top
<1> QED
  BY <1>1, <1>2, <1>3

LEMMA FetchBillStep ==
  ASSUME CollectorInv, NEW w \in live, live \subseteq Workers, FetchBill(w)
  PROVE  CollectorInv'
<1> USE DEF CollectorInv
<1>1. /\ DOMAIN work = Workers /\ Collecting(w) /\ work[w].step = "bills"
      /\ work[w].position < Len(work[w].universe)
  BY DEF CoverInv, FetchBill
<1>2. UNCHANGED <<setting, provider, live, overridden, captured, checkpoint, observations>>
  BY DEF FetchBill, scheduleVars, collectionVars
<1>3. work' = [work EXCEPT ![w].step = "fetched", ![w].got = provider[Bill(w).bill],
                          ![w].at = Now(Bill(w).bill)]
  BY DEF FetchBill
<1>4. /\ DOMAIN work' = Workers /\ \A v \in live \ {w} : work'[v] = work[v]
      /\ DOMAIN work'[w] = Fields /\ work'[w].step = "fetched" /\ work'[w].universe = work[w].universe
      /\ work'[w].prior = work[w].prior /\ work'[w].position = work[w].position
      /\ work'[w].exceptions = work[w].exceptions
      /\ work'[w].got = provider[Bill(w).bill] /\ work'[w].at = Now(Bill(w).bill)
  BY <1>1, <1>3 DEF Collecting, Fields
<1>5. Moves(w)
  BY <1>2, <1>4 DEF Moves, CoverInv
<1>6. provider[Bill(w).bill] \in Responses
  <2>1. Listed(work[w].universe) /\ work[w].position + 1 \in 1 .. Len(work[w].universe)
    BY <1>1 DEF Collecting, Backed, Listed
  <2>2. Bill(w).bill \in Bills /\ provider[Bill(w).bill] # None
    BY <1>1, <2>1, ListedBills DEF Bill, Collecting
  <2> QED
    BY <2>2 DEF CoverInv
<1>7. Collecting(w)'
  <2>1. Backed(work[w].universe, work[w].position)'
    BY <1>1, <1>4, <1>5, BackedStays DEF Collecting
  <2> QED
    BY <1>1, <1>2, <1>4, <1>6, <2>1 DEF Collecting, Steps
<1>8. CoverInv'
  BY <1>2, <1>5, <1>7, BackedStays, MovedCover DEF CoverInv
<1>9. SoloInv'
  BY <1>2, <1>4, <1>5, MovedSolo DEF SoloInv
<1>10. TimesInv'
  <2>1. PICK n \in Nat : /\ \A o \in observations : o.at \in 0 .. n
                         /\ \A v \in live : work[v].at \in 0 .. n
    BY DEF TimesInv
  <2>2. Now(Bill(w).bill) \in 0 .. n + 1
    BY <2>1, NowIsNumber
  <2>3. 0 .. n \subseteq 0 .. n + 1 /\ n + 1 \in Nat
    OBVIOUS
  <2> QED
    BY <1>2, <1>4, <2>1, <2>2, <2>3 DEF TimesInv
<1> QED
  BY <1>8, <1>9, <1>10

(* The exceptions stay exact when the next bill is stored. *)
LEMMA ExactNext ==
  ASSUME NEW u, Listed(u), NEW k \in 0 .. Len(u), k < Len(u), NEW x, Exact(u, k, x), NEW got,
         captured \in [Bills -> Responses \cup {None}],
         captured' = [captured EXCEPT ![u[k + 1].bill] = got]
  PROVE  Exact(u, k + 1, x \cup (IF Clash(u[k + 1].tally, got) = {} THEN {} ELSE {u[k + 1].bill}))'
<1> DEFINE new == IF Clash(u[k + 1].tally, got) = {} THEN {} ELSE {u[k + 1].bill}
<1>1. Len(u) \in Nat
  BY DEF Listed
<1>2. k + 1 \in 1 .. Len(u) /\ u[k + 1].bill \in Bills /\ \A i \in 1 .. k : i \in 1 .. Len(u) /\ i # k + 1
  BY <1>1, ListedBills
<1>3. \A i \in 1 .. k : u[i].bill # u[k + 1].bill /\ u[i].bill \in Bills
  BY <1>2, ListedBills DEF Listed
<1>4. u[k + 1].bill \notin x
  BY <1>3 DEF Exact
<1>5. captured'[u[k + 1].bill] = got /\ \A i \in 1 .. k : captured'[u[i].bill] = captured[u[i].bill]
  BY <1>2, <1>3
<1>6. \A y \in x \cup new : \E i \in 1 .. k + 1 : y = u[i].bill
  <2>1. \A y \in x : \E i \in 1 .. k + 1 : y = u[i].bill
    BY <1>1 DEF Exact
  <2>2. \A y \in new : y = u[k + 1].bill /\ k + 1 \in 1 .. k + 1
    BY <1>1
  <2> QED
    BY <2>1, <2>2
<1>7. ASSUME NEW i \in 1 .. k + 1
      PROVE  u[i].bill \in x \cup new <=> Clash(u[i].tally, captured'[u[i].bill]) # {}
  <2>1. CASE i = k + 1
    BY <1>4, <1>5, <2>1
  <2>2. CASE i \in 1 .. k
    <3>1. u[i].bill \notin new
      BY <1>3, <2>2
    <3>2. u[i].bill \in x <=> Clash(u[i].tally, captured[u[i].bill]) # {}
      BY <2>2 DEF Exact
    <3> QED
      BY <1>5, <2>2, <3>1, <3>2
  <2> QED
    BY <1>1, <2>1, <2>2
<1> QED
  BY <1>6, <1>7 DEF Exact

LEMMA CommitBillStep ==
  ASSUME ScheduleInv, CollectorInv, NEW w \in live, CommitBill(w)
  PROVE  CollectorInv'
<1>0. PICK u, k, got, x : /\ u = work[w].universe /\ k = work[w].position
                         /\ got = work[w].got /\ x = ExceptionsWith(w)
  OBVIOUS
<1> USE <1>0 DEF CollectorInv
<1>1. /\ DOMAIN work = Workers /\ Collecting(w) /\ work[w].step = "fetched"
      /\ live \subseteq Workers /\ Bill(w) = u[k + 1]
  BY DEF CoverInv, CommitBill, ScheduleInv, ScheduleTypeOK, Bill
<1>2. UNCHANGED <<setting, provider, live, overridden>>
  BY DEF CommitBill, scheduleVars
<1>3. /\ Listed(u) /\ k \in 0 .. Len(u) /\ k < Len(u) /\ Len(u) \in Nat /\ got \in Responses
      /\ k + 1 \in 1 .. Len(u) /\ u[k + 1].bill \in Bills
  <2>1. Listed(u) /\ k \in 0 .. Len(u) /\ k < Len(u) /\ Len(u) \in Nat /\ got \in Responses
    BY <1>1 DEF Collecting, Backed, Listed
  <2>2. k + 1 \in 1 .. Len(u)
    BY <2>1
  <2> QED
    BY <2>1, <2>2, ListedBills
<1>4. /\ work' = [work EXCEPT ![w].step = "bills", ![w].position = @ + 1, ![w].left = @ - 1,
                              ![w].exceptions = x, ![w].committed = TRUE,
                              ![w].got = None, ![w].at = 0]
      /\ checkpoint' = [run |-> work[w].run, universe |-> u, cursor |-> k + 1, exceptions |-> x]
      /\ captured' = [captured EXCEPT ![u[k + 1].bill] = got]
      /\ observations' = observations \cup
            Fresh(Rows(u[k + 1].bill, u[k + 1].tally, got, work[w].at))
  BY <1>1 DEF CommitBill
<1>5. /\ DOMAIN work' = Workers /\ \A v \in live \ {w} : work'[v] = work[v]
      /\ DOMAIN work'[w] = Fields /\ work'[w].step = "bills" /\ work'[w].universe = u
      /\ work'[w].prior = None /\ work'[w].at = 0
      /\ work'[w].position = k + 1 /\ work'[w].exceptions = x
  <2> QED
    BY <1>1, <1>4 DEF Collecting, Fields
<1>6. captured' \in [Bills -> Responses \cup {None}] /\ \A b \in Bills : captured[b] # None => captured'[b] # None
  BY <1>3, <1>4, NoneIsNothing DEF CoverInv
<1>7. Moves(w)
  BY <1>2, <1>5, <1>6 DEF Moves
<1>8. Backed(u, k + 1)'
  <2>1. \A i \in 1 .. k : captured'[u[i].bill] # None
    BY <1>1, <1>7, BackedStays DEF Collecting, Backed
  <2>2. captured'[u[k + 1].bill] # None
    BY <1>3, <1>4, NoneIsNothing DEF CoverInv
  <2>3. \A i \in 1 .. k + 1 : i \in 1 .. k \/ i = k + 1
    BY <1>3
  <2>4. \A i \in 1 .. k + 1 : captured'[u[i].bill] # None
    BY <2>1, <2>2, <2>3
  <2>5. k + 1 \in 0 .. Len(u)
    BY <1>3
  <2> QED
    BY <1>3, <2>4, <2>5 DEF Backed
<1>9. Collecting(w)'
  <2>1. Backed(work[w].universe, work[w].position)'
    BY <1>5, <1>8
  <2> QED
    BY <1>1, <1>2, <1>5, <2>1 DEF Collecting, Steps
<1>10. Backed(checkpoint.universe, checkpoint.cursor)'
  BY <1>4, <1>8
<1>11. CoverInv'
  BY <1>7, <1>9, <1>10, MovedCover
<1>12. Solo => Exact(u, k + 1, x)'
  <2>0. PICK old : old = work[w].exceptions
    OBVIOUS
  <2>1. Solo => Exact(u, k, old)
    BY <2>0 DEF SoloInv
  <2>2. x = old \cup (IF Clash(u[k + 1].tally, got) = {} THEN {} ELSE {u[k + 1].bill})
    BY <1>1, <2>0 DEF ExceptionsWith
  <2>3. captured \in [Bills -> Responses \cup {None}]
    BY DEF CoverInv
  <2>4. ASSUME Exact(u, k, old)
        PROVE  Exact(u, k + 1, old \cup (IF Clash(u[k + 1].tally, got) = {} THEN {} ELSE {u[k + 1].bill}))'
    BY <1>3, <1>4, <2>3, <2>4, ExactNext
  <2> QED
    BY <2>1, <2>2, <2>4
<1>13. SoloInv'
  BY <1>4, <1>5, <1>7, <1>12, CommittedSolo
<1>14. TimesInv'
  <2>1. PICK n \in Nat : /\ \A o \in observations : o.at \in 0 .. n
                         /\ \A v \in live : work[v].at \in 0 .. n
    BY DEF TimesInv
  <2>2. \A o \in observations' : o.at \in 0 .. n
    BY <1>4, <2>1 DEF Fresh, Rows
  <2>3. \A v \in live' : work'[v].at \in 0 .. n
    BY <1>2, <1>5, <2>1
  <2> QED
    BY <2>2, <2>3 DEF TimesInv
<1> QED
  BY <1>11, <1>13, <1>14

(* What has been put to the vote stays so, whatever the provider amends. *)
LEMMA AmendStep ==
  ASSUME CollectorInv, NEW b \in Bills, NEW r \in Responses, Amend(b, r)
  PROVE  CollectorInv'
<1> USE DEF CollectorInv
<1>1. UNCHANGED <<setting, live, overridden, captured, checkpoint, observations, work>>
  BY DEF Amend, scheduleVars, collectionVars
<1>2. provider' \in [Bills -> Responses \cup {None}] /\ \A c \in Bills : provider[c] # None => provider'[c] # None
  BY NoneIsNothing DEF Amend, CoverInv
<1>3. ASSUME NEW w \in live PROVE Collecting(w)'
  <2>1. Collecting(w)
    BY DEF CoverInv
  <2>2. Listed(work[w].universe)
    BY <2>1 DEF Collecting, Backed
  <2>3. \A i \in 1 .. Len(work[w].universe) : provider'[work[w].universe[i].bill] # None
    BY <1>2, <2>1, <2>2, ListedBills DEF Collecting
  <2> QED
    BY <1>1, <2>1, <2>3 DEF Collecting, Backed
<1>4. CoverInv'
  BY <1>1, <1>2, <1>3 DEF CoverInv, Backed
<1>5. SoloInv'
  <2>1. Solo' => Solo
    BY <1>1 DEF Solo
  <2>2. ASSUME NEW u, NEW n, NEW x, Exact(u, n, x) PROVE Exact(u, n, x)'
    BY <1>1, <2>2 DEF Exact
  <2>3. Solo => (checkpoint # None =>
                   Exact(checkpoint.universe, checkpoint.cursor, checkpoint.exceptions))'
    BY <1>1, <2>2 DEF SoloInv
  <2>4. ASSUME Solo, NEW w \in live
        PROVE  /\ (work[w].prior # None => work[w].prior = checkpoint)'
               /\ Exact(work[w].universe, work[w].position, work[w].exceptions)'
    BY <1>1, <2>2, <2>4 DEF SoloInv
  <2> QED
    BY <1>1, <2>1, <2>3, <2>4 DEF SoloInv
<1>6. TimesInv'
  BY <1>1 DEF TimesInv
<1> QED
  BY <1>4, <1>5, <1>6

(* Every step of the system keeps what collectors and checkpoints stand for. *)
LEMMA CollectorStep ==
  ASSUME ScheduleInv, CollectorInv, [Next]_vars
  PROVE  CollectorInv'
<1>1. live \subseteq Workers
  BY DEF ScheduleInv, ScheduleTypeOK
<1>2. CASE UNCHANGED vars
  BY <1>2, CalmSteps, CalmStep DEF CollectorInv
<1>3. ASSUME NEW s \in Schedulers, Schedule(s) \/ KillChild(s) PROVE CollectorInv'
  BY <1>3, CalmSteps, CalmStep DEF CollectorInv
<1>4. ASSUME NEW w \in live, Collector(w) PROVE CollectorInv'
  <2>1. CASE Finish(w) \/ Fail(w) \/ Die(w)
    BY <2>1, CalmSteps, CalmStep DEF CollectorInv
  <2> QED
    BY <1>1, <1>4, <2>1, OpenRunStep, FetchUniverseStep, CommitPagesStep, FetchBillStep, CommitBillStep
    DEF Collector
<1>5. ASSUME NEW c, Withdraw(c) \/ Restore(c) \/ Replace(c) \/ Unlink(c) \/ ReadMember(c)
      PROVE  CollectorInv'
  BY <1>5, CalmSteps, CalmStep DEF CollectorInv
<1>6. CASE StartPublication \/ ImportMember \/ Report \/ StopPublication
  BY <1>6, CalmSteps, CalmStep DEF CollectorInv
<1> QED
  BY <1>2, <1>3, <1>4, <1>5, <1>6, BeginStep, AmendStep DEF Next

LEMMA CollectorInitially == Init => ScheduleInv /\ CollectorInv
<1> SUFFICES ASSUME Init PROVE ScheduleInv /\ CollectorInv
  OBVIOUS
<1>1. ScheduleInv
  BY LockInitially DEF Init
<1>2. live = {}
  BY DEF Init, ScheduleInit
<1>3. CoverInv
  BY <1>2, ScenariosAssumption DEF Init, CoverInv
<1>4. SoloInv
  BY <1>2 DEF Init, SoloInv
<1>5. TimesInv
  BY <1>2 DEF Init, TimesInv
<1> QED
  BY <1>1, <1>3, <1>4, <1>5 DEF CollectorInv

(* Collectors of the votes run one at a time, unless somebody goes round the lock. *)
THEOREM CollectorsExclude == Spec => []OneCollector
<1>1. Init => ScheduleInit
  BY DEF Init
<1>2. ScheduleInv /\ [Next]_vars => [ScheduleNext]_scheduleVars
  BY ScheduleFollowed
<1>3. ScheduleInv /\ [ScheduleNext]_scheduleVars => ScheduleInv'
  BY ScheduleStep
<1> QED
  BY <1>1, <1>2, <1>3, LockInitially, LockExcludes, PTL DEF Spec

(* `_complete_run`: a checkpoint at its end covers its universe, and lists exactly the
   bills that do not add up unless collectors overlapped. *)
THEOREM AcceptedIsCovered == Spec => []AcceptedCovers
<1>1. ScheduleInv /\ CollectorInv /\ [Next]_vars => (ScheduleInv /\ CollectorInv)'
  BY ScheduleFollowed, ScheduleStep, CollectorStep
<1>2. ASSUME CollectorInv PROVE AcceptedCovers
  <2> SUFFICES ASSUME checkpoint # None, checkpoint.cursor = Len(checkpoint.universe),
                      NEW i \in 1 .. Len(checkpoint.universe)
               PROVE  LET u == checkpoint.universe[i]
                      IN  /\ captured[u.bill] # None
                          /\ Solo => (u.bill \in checkpoint.exceptions <=> Clash(u.tally, captured[u.bill]) # {})
    BY DEF AcceptedCovers, Accepts
  <2>1. captured[checkpoint.universe[i].bill] # None
    BY <1>2 DEF CollectorInv, CoverInv, Backed
  <2>2. Solo => Exact(checkpoint.universe, checkpoint.cursor, checkpoint.exceptions)
    BY <1>2 DEF CollectorInv, SoloInv
  <2> QED
    BY <2>1, <2>2 DEF Exact
<1> QED
  BY <1>1, <1>2, CollectorInitially, PTL DEF Spec

-----------------------------------------------------------------------------
(* The claims                                                               *)

(* The newest version of a stored row is one of its versions. *)
LEMMA LatestIsStored ==
  ASSUME TimesInv, NEW b, NEW m, About(b, m) # {}
  PROVE  Latest(b, m) \in About(b, m)
<1>1. PICK n \in Nat : \A o \in observations : o.at \in 0 .. n
  BY DEF TimesInv
<1> DEFINE T == {o.at : o \in About(b, m)}
<1>2. T \subseteq Nat /\ T # {} /\ \A t \in T : t <= n
  BY <1>1 DEF About
<1>3. PICK t \in T : \A s \in T : s <= t
  <2> HIDE DEF T
  <2> QED
    BY <1>2, GreatestOf
<1>4. PICK o \in About(b, m) : o.at = t
  OBVIOUS
<1>5. \A p \in About(b, m) : p.at <= o.at
  BY <1>3, <1>4
<1> QED
  BY <1>5 DEF Latest

(* The claims of a member are reconciled and one for each bill. *)
LEMMA ReadMemberStep ==
  ASSUME TimesInv, ClaimInv, NEW m, ReadMember(m)
  PROVE  ClaimInv'
<1>1. PICK rows : rows = NewestOf(m, pub.point.exceptions)
  OBVIOUS
<1>2. /\ Publishable(rows)
      /\ DOMAIN pub' = {"point", "people", "left", "member", "claims"} /\ pub'.claims = {VoteClaim(o) : o \in rows}
      /\ UNCHANGED <<stored, replaced>>
  <2>1. /\ pub' = [pub EXCEPT !.left = @ \ {m}, !.member = IF rows = {} THEN None ELSE m,
                              !.claims = {VoteClaim(o) : o \in rows}]
        /\ pub # None /\ Publishable(rows) /\ UNCHANGED <<stored, replaced>>
    BY <1>1 DEF ReadMember
  <2>2. DOMAIN pub = {"point", "people", "left", "member", "claims"}
    BY <2>1 DEF ClaimInv
  <2>3. pub'.claims = {VoteClaim(o) : o \in rows} /\ DOMAIN pub' = DOMAIN pub
    BY <2>1, <2>2
  <2> QED
    BY <2>1, <2>2, <2>3
<1>3. \A c \in pub'.claims : c.row.clash = {}
  BY <1>2 DEF Publishable, VoteClaim
<1>4. ASSUME NEW o \in rows, NEW p \in rows, o.bill = p.bill PROVE o = p
  <2>1. PICK b, c : /\ o = Latest(b, m) /\ About(b, m) # {}
                    /\ p = Latest(c, m) /\ About(c, m) # {}
    BY <1>1 DEF NewestOf
  <2>2. o \in About(b, m) /\ p \in About(c, m)
    BY <2>1, LatestIsStored
  <2>3. o.bill = b /\ p.bill = c
    BY <2>2 DEF About
  <2> QED
    BY <1>4, <2>1, <2>3
<1>5. \A c, d \in pub'.claims : c.bill = d.bill => c = d
  BY <1>2, <1>4 DEF VoteClaim
<1>6. ClaimsReconciled' /\ OneCurrentVote'
  BY <1>2 DEF ClaimInv, ClaimsReconciled, OneCurrentVote, Current
<1> QED
  BY <1>2, <1>3, <1>5, <1>6 DEF ClaimInv

(* A member's claims are stored beside those of other rows only. *)
LEMMA ImportMemberStep ==
  ASSUME ClaimInv, ImportMember
  PROVE  ClaimInv'
<1>1. /\ pub # None /\ stored' = stored \cup pub.claims /\ UNCHANGED replaced
      /\ \A c \in pub.claims : Importable(c)
      /\ pub' = [pub EXCEPT !.member = None, !.claims = {}]
  BY DEF ImportMember
<1>2. /\ DOMAIN pub = {"point", "people", "left", "member", "claims"}
      /\ \A c \in pub.claims : c.row.clash = {}
      /\ \A c, d \in pub.claims : c.member = d.member /\ c.bill = d.bill => c = d
  BY <1>1 DEF ClaimInv
<1>3. DOMAIN pub' = {"point", "people", "left", "member", "claims"} /\ pub'.claims = {}
  BY <1>1, <1>2
<1>4. ClaimsReconciled'
  BY <1>1, <1>2 DEF ClaimInv, ClaimsReconciled
<1>5. ASSUME NEW c \in pub.claims, NEW d \in Current, c.member = d.member, c.bill = d.bill
      PROVE  c = d
  <2>1. d \in Matching(c)
    BY <1>5 DEF Matching
  <2> QED
    BY <1>1, <2>1 DEF Importable
<1>6. OneCurrentVote'
  <2>1. Current' \subseteq Current \cup pub.claims
    BY <1>1 DEF Current
  <2> SUFFICES ASSUME NEW c \in Current', NEW d \in Current', c.member = d.member, c.bill = d.bill
               PROVE  c = d
    BY DEF OneCurrentVote
  <2>2. CASE c \in Current /\ d \in Current
    BY <2>2 DEF ClaimInv, OneCurrentVote
  <2>3. CASE c \in pub.claims /\ d \in pub.claims
    BY <1>2, <2>3
  <2> QED
    BY <1>5, <2>1, <2>2, <2>3
<1> QED
  BY <1>3, <1>4, <1>6 DEF ClaimInv

(* The other steps add no claim, and a correction only takes the current mark away. *)
LEMMA ClaimStep ==
  ASSUME TimesInv, ClaimInv, [Next]_vars
  PROVE  ClaimInv'
<1> DEFINE Keeps == stored' = stored /\ replaced \subseteq replaced' /\ pub' = pub
<1>1. ASSUME Keeps PROVE ClaimInv'
  <2>1. Current' \subseteq Current
    BY <1>1 DEF Current
  <2> QED
    BY <1>1, <2>1 DEF ClaimInv, ClaimsReconciled, OneCurrentVote
<1>2. CASE UNCHANGED vars
  BY <1>1, <1>2 DEF vars, claimVars
<1>3. ASSUME NEW s \in Schedulers, Schedule(s) \/ KillChild(s) \/ \E w \in Workers : Launch(s, w)
      PROVE  Keeps
  BY <1>3 DEF Schedule, KillChild, Launch, claimVars
<1>4. ASSUME NEW w, NEW again, NEW budget, Start(w, again, budget) PROVE Keeps
  BY <1>4 DEF Start, claimVars
<1>5. ASSUME NEW w, Collector(w) PROVE Keeps
  BY <1>5 DEF Collector, OpenRun, FetchUniverse, CommitPages, FetchBill, CommitBill, Finish, Fail, Die,
              claimVars
<1>6. ASSUME NEW b, NEW r, Amend(b, r) PROVE Keeps
  BY <1>6 DEF Amend, claimVars
<1>7. ASSUME NEW c, Withdraw(c) \/ Restore(c) \/ Replace(c) \/ Unlink(c) PROVE Keeps
  BY <1>7 DEF Withdraw, Restore, Replace, Unlink, Edit
<1>8. CASE StartPublication
  <2>1. UNCHANGED <<stored, replaced>> /\ pub' = [point |-> checkpoint, people |-> linked, left |-> linked,
                                                  member |-> None, claims |-> {}]
    BY <1>8 DEF StartPublication
  <2>2. DOMAIN pub' = {"point", "people", "left", "member", "claims"} /\ pub'.claims = {}
    BY <2>1
  <2>3. Current' = Current
    BY <2>1 DEF Current
  <2> QED
    BY <2>1, <2>2, <2>3 DEF ClaimInv, ClaimsReconciled, OneCurrentVote
<1>9. CASE Report \/ StopPublication
  <2>1. UNCHANGED <<stored, replaced>> /\ pub' = None
    BY <1>9 DEF Report, StopPublication
  <2> QED
    BY <2>1 DEF ClaimInv, ClaimsReconciled, OneCurrentVote, Current
<1> QED
  BY <1>1, <1>2, <1>3, <1>4, <1>5, <1>6, <1>7, <1>8, <1>9, ReadMemberStep, ImportMemberStep DEF Next

LEMMA ClaimInitially == Init => ClaimInv
  BY DEF Init, ClaimInv, ClaimsReconciled, OneCurrentVote, Current

(* No vote of a bill that does not add up is published, and no member has two current
   votes on a bill. *)
THEOREM ClaimsHold == Spec => []ClaimsSound
<1>1. ScheduleInv /\ CollectorInv /\ [Next]_vars => (ScheduleInv /\ CollectorInv)'
  BY ScheduleFollowed, ScheduleStep, CollectorStep
<1>2. CollectorInv /\ ClaimInv /\ [Next]_vars => ClaimInv'
  BY ClaimStep DEF CollectorInv
<1>3. ClaimInv => ClaimsSound
  BY DEF ClaimInv, ClaimsSound
<1> QED
  BY <1>1, <1>2, <1>3, CollectorInitially, ClaimInitially, PTL DEF Spec


-----------------------------------------------------------------------------
(* The types                                                                *)

\* What a collector holds is of its type; it has opened the run it writes to, and the
\* checkpoint it read names one that exists.
Carries(w) ==
  /\ work[w] \in Collectors
  /\ work[w].step # "read" => work[w].run \in 1 .. Len(run)
  /\ work[w].prior # None => work[w].prior \in Points(1 .. Len(run))
  /\ work[w].step = "fetched" => work[w].left > 0

WorkTypes ==
  /\ run \in Seq(Statuses)
  /\ checkpoint \in Points(1 .. Len(run)) \cup {None}
  /\ \A w \in Workers : IF w \in live THEN Carries(w) ELSE work[w] = None

ClaimTypes ==
  /\ \A o \in observations : VoteClaim(o) \in ClaimIds
  /\ linked \subseteq Members
  /\ stored \subseteq ClaimIds /\ withheld \subseteq stored /\ replaced \subseteq withheld
  /\ pub # None => pub.claims \subseteq ClaimIds

(* Runs are only added. *)
LEMMA PointsGrow ==
  ASSUME NEW a \in Nat, NEW b \in Nat, a <= b
  PROVE  Points(1 .. a) \subseteq Points(1 .. b) /\ Points(1 .. a) \subseteq Points(Nat)
<1>1. 1 .. a \subseteq 1 .. b /\ 1 .. a \subseteq Nat
  OBVIOUS
<1> QED
  BY <1>1 DEF Points

LEMMA WorkStays ==
  ASSUME WorkTypes, run' \in Seq(Statuses), Len(run) <= Len(run'),
         checkpoint' = checkpoint \/ checkpoint' \in Points(1 .. Len(run')),
         \A v \in Workers : \/ v \in live' /\ v \in live /\ work'[v] = work[v]
                            \/ v \in live' /\ Carries(v)'
                            \/ v \notin live' /\ work'[v] = None
  PROVE  WorkTypes'
<1>1. Len(run) \in Nat /\ Len(run') \in Nat
  BY DEF WorkTypes
<1>2. Points(1 .. Len(run)) \subseteq Points(1 .. Len(run'))
  BY <1>1, PointsGrow
<1>3. checkpoint' \in Points(1 .. Len(run')) \cup {None}
  BY <1>2 DEF WorkTypes
<1>4. ASSUME NEW v \in Workers, v \in live, work'[v] = work[v] PROVE Carries(v)'
  <2>1. Carries(v)
    BY <1>4 DEF WorkTypes
  <2>2. 1 .. Len(run) \subseteq 1 .. Len(run')
    BY <1>1
  <2> QED
    BY <1>2, <1>4, <2>1, <2>2 DEF Carries
<1> QED
  BY <1>3, <1>4 DEF WorkTypes


LEMMA BeginTypes ==
  ASSUME WorkTypes, NEW w \in Workers, w \notin live, live' = live \cup {w}, NEW again \in BOOLEAN,
         NEW budget \in Nat, work' = Begun(w, again, budget), DOMAIN work = Workers,
         UNCHANGED <<run, checkpoint>>
  PROVE  WorkTypes'
<1>1. /\ \A v \in Workers \ {w} : work'[v] = work[v]
      /\ work'[w] = [step |-> "read", prior |-> IF again THEN checkpoint ELSE None, left |-> budget,
                     run |-> 0, universe |-> <<>>, position |-> 0, exceptions |-> {},
                     committed |-> FALSE, got |-> None, at |-> 0]
  BY DEF Begun
<1>2. Len(run) \in Nat
  BY DEF WorkTypes
<1>3. Points(1 .. Len(run)) \subseteq Points(Nat)
  BY <1>2, PointsGrow
<1>4. work'[w].prior \in Points(1 .. Len(run)) \cup {None}
  BY <1>1 DEF WorkTypes
<1>5. work'[w] \in Collectors
  <2>1. <<>> \in Seq(Listings) /\ work'[w].prior \in Points(Nat) \cup {None}
    BY <1>3, <1>4
  <2> QED
    BY <1>1, <2>1 DEF Collectors, Steps
<1>6. Carries(w)'
  BY <1>1, <1>4, <1>5 DEF Carries
<1>7. \A v \in Workers \ {w} : (v \in live' <=> v \in live) /\ (v \notin live => work[v] = None)
  BY DEF WorkTypes
<1> QED
  BY <1>1, <1>2, <1>6, <1>7, WorkStays DEF WorkTypes

\* A collector moves, and everything it holds stays of its type.
LEMMA MoveTypes ==
  ASSUME WorkTypes, NEW w \in live, live \subseteq Workers, UNCHANGED live,
         \A v \in Workers \ {w} : work'[v] = work[v],
         run' \in Seq(Statuses), Len(run) <= Len(run'),
         checkpoint' = checkpoint \/ checkpoint' \in Points(1 .. Len(run')), Carries(w)'
  PROVE  WorkTypes'
<1>1. \A v \in Workers \ {w} : v \notin live => work[v] = None
  BY DEF WorkTypes
<1> QED
  BY <1>1, WorkStays

\* What a collector holds, field by field.
LEMMA Holds ==
  ASSUME WorkTypes, NEW w \in live, live \subseteq Workers
  PROVE  /\ work[w] \in Collectors /\ Carries(w) /\ Len(run) \in Nat
         /\ work[w].universe \in Seq(Listings) /\ work[w].position \in Nat /\ work[w].left \in Nat
         /\ work[w].exceptions \subseteq Bills /\ work[w].run \in Nat
         /\ work[w].prior # None => /\ work[w].prior.universe \in Seq(Listings)
                                    /\ work[w].prior.cursor \in Nat
                                    /\ work[w].prior.exceptions \subseteq Bills
<1>1. Carries(w) /\ work[w] \in Collectors /\ Len(run) \in Nat
  BY DEF WorkTypes, Carries
<1>2. work[w].prior # None => work[w].prior \in Points(Nat)
  BY <1>1 DEF Collectors
<1> QED
  BY <1>1, <1>2 DEF Collectors, Points

LEMMA OpenRunTypes ==
  ASSUME WorkTypes, DOMAIN work = Workers, NEW w \in live, live \subseteq Workers, OpenRun(w)
  PROVE  WorkTypes'
<1>1. /\ work' = [work EXCEPT ![w].step = "universe", ![w].run = NewRun]
      /\ run' = Append(run, "RUNNING") /\ UNCHANGED <<live, checkpoint>>
  BY DEF OpenRun, scheduleVars
<1>2. run' \in Seq(Statuses) /\ Len(run') = Len(run) + 1 /\ Len(run) \in Nat
  BY <1>1 DEF WorkTypes, Statuses
<1>3. work'[w] = [work[w] EXCEPT !.step = "universe", !.run = NewRun]
  BY <1>1
<1>4. NewRun \in Nat /\ NewRun \in 1 .. Len(run')
  BY <1>2 DEF NewRun
<1>5. /\ work'[w] \in Collectors /\ work'[w].step = "universe" /\ work'[w].run = NewRun
      /\ work'[w].prior = work[w].prior
  BY <1>3, <1>4, Holds DEF Collectors, Steps
<1>6. Points(1 .. Len(run)) \subseteq Points(1 .. Len(run'))
  BY <1>2, PointsGrow
<1>7. Carries(w)'
  BY <1>4, <1>5, <1>6, Holds DEF Carries
<1> QED
  BY <1>1, <1>2, <1>7, MoveTypes


LEMMA FetchUniverseTypes ==
  ASSUME WorkTypes, CoverInv, NEW w \in live, live \subseteq Workers, FetchUniverse(w)
  PROVE  WorkTypes'
<1>1. UNCHANGED <<live, run, checkpoint>> /\ DOMAIN work = Workers /\ work[w].step = "universe"
  BY DEF FetchUniverse, scheduleVars, collectionVars, CoverInv
<1>2. Universe \in Seq(Listings)
  BY UniverseListed DEF CoverInv, Listed
<1>3. \/ work' = [work EXCEPT ![w].step = "pages", ![w].universe = Universe]
      \/ /\ work[w].prior # None
         /\ work' = [work EXCEPT ![w].step = "bills", ![w].universe = Universe, ![w].prior = None,
                                 ![w].position = work[w].prior.cursor,
                                 ![w].exceptions = work[w].prior.exceptions]
  BY Zenon DEF FetchUniverse
<1>6. run' \in Seq(Statuses) /\ Len(run) <= Len(run')
  BY <1>1, Holds DEF WorkTypes
<1>4. CASE work' = [work EXCEPT ![w].step = "pages", ![w].universe = Universe]
  <2>1. work'[w] = [work[w] EXCEPT !.step = "pages", !.universe = Universe]
    BY <1>1, <1>4
  <2>2. /\ work'[w] \in Collectors /\ work'[w].step = "pages" /\ work'[w].run = work[w].run
        /\ work'[w].prior = work[w].prior
    BY <1>2, <2>1, Holds DEF Collectors, Steps
  <2>3. Carries(w)'
    BY <1>1, <2>2, Holds DEF Carries
  <2>4. \A v \in Workers \ {w} : work'[v] = work[v]
    BY <1>1, <1>4
  <2> QED
    BY <1>1, <1>6, <2>3, <2>4, MoveTypes
<1>5. CASE /\ work[w].prior # None
           /\ work' = [work EXCEPT ![w].step = "bills", ![w].universe = Universe, ![w].prior = None,
                                   ![w].position = work[w].prior.cursor,
                                   ![w].exceptions = work[w].prior.exceptions]
  <2>1. work'[w] = [work[w] EXCEPT !.step = "bills", !.universe = Universe, !.prior = None,
                                   !.position = work[w].prior.cursor,
                                   !.exceptions = work[w].prior.exceptions]
    BY <1>1, <1>5
  <2>2. work[w].prior.cursor \in Nat /\ work[w].prior.exceptions \subseteq Bills
    BY <1>5, Holds
  <2>3. /\ work'[w] \in Collectors /\ work'[w].step = "bills" /\ work'[w].run = work[w].run
        /\ work'[w].prior = None
    BY <1>2, <2>1, <2>2, Holds DEF Collectors, Steps
  <2>4. Carries(w)'
    BY <1>1, <2>3, Holds DEF Carries
  <2>5. \A v \in Workers \ {w} : work'[v] = work[v]
    BY <1>1, <1>5
  <2> QED
    BY <1>1, <1>6, <2>4, <2>5, MoveTypes
<1> QED
  BY <1>3, <1>4, <1>5

LEMMA CommitPagesTypes ==
  ASSUME WorkTypes, DOMAIN work = Workers, NEW w \in live, live \subseteq Workers, CommitPages(w)
  PROVE  WorkTypes'
<1>1. /\ UNCHANGED <<live, run>> /\ work[w].step = "pages"
      /\ work' = [work EXCEPT ![w].step = "bills", ![w].committed = TRUE]
      /\ checkpoint' = [run |-> work[w].run, universe |-> work[w].universe, cursor |-> 0,
                        exceptions |-> {}]
  BY DEF CommitPages, scheduleVars
<1>2. work'[w] = [work[w] EXCEPT !.step = "bills", !.committed = TRUE]
  BY <1>1
<1>3. /\ work'[w] \in Collectors /\ work'[w].step = "bills" /\ work'[w].run = work[w].run
      /\ work'[w].prior = work[w].prior
  BY <1>2, Holds DEF Collectors, Steps
<1>4. Carries(w)'
  BY <1>1, <1>3, Holds DEF Carries
<1>5. checkpoint' \in Points(1 .. Len(run'))
  BY <1>1, Holds DEF Points, Carries
<1>6. run' \in Seq(Statuses) /\ Len(run) <= Len(run')
  BY <1>1, Holds DEF WorkTypes
<1>7. \A v \in Workers \ {w} : work'[v] = work[v]
  BY <1>1
<1> QED
  BY <1>1, <1>4, <1>5, <1>6, <1>7, MoveTypes

LEMMA FetchBillTypes ==
  ASSUME WorkTypes, CollectorInv, CollectorInv', NEW w \in live, live \subseteq Workers, FetchBill(w)
  PROVE  WorkTypes'
<1>1. /\ UNCHANGED <<live, run, checkpoint>> /\ work[w].step = "bills" /\ work[w].left > 0
      /\ DOMAIN work = Workers
  BY DEF FetchBill, scheduleVars, collectionVars, CollectorInv, CoverInv
<1>2. work' = [work EXCEPT ![w].step = "fetched", ![w].got = provider[Bill(w).bill],
                          ![w].at = Now(Bill(w).bill)]
  BY DEF FetchBill
<1>3. work'[w] = [work[w] EXCEPT !.step = "fetched", !.got = provider[Bill(w).bill],
                                 !.at = Now(Bill(w).bill)]
  BY <1>1, <1>2
<1>4. /\ work'[w].step = "fetched" /\ work'[w].got = provider[Bill(w).bill]
      /\ work'[w].at = Now(Bill(w).bill) /\ work'[w].run = work[w].run
      /\ work'[w].prior = work[w].prior /\ work'[w].left = work[w].left
  BY <1>3, Holds DEF Collectors
<1>5. work'[w].got \in Responses
  BY <1>1, <1>4 DEF CollectorInv, CoverInv, Collecting
<1>6. work'[w].at \in Nat
  <2>1. PICK n \in Nat : \A v \in live' : work'[v].at \in 0 .. n
    BY DEF CollectorInv, TimesInv
  <2> QED
    BY <1>1, <2>1
<1>7. work'[w] \in Collectors
  <2>1. work[w] \in Collectors
    BY Holds
  <2>2. PICK got, at : got = provider[Bill(w).bill] /\ at = Now(Bill(w).bill)
    OBVIOUS
  <2>3. got \in Responses /\ at \in Nat /\ work'[w] = [work[w] EXCEPT !.step = "fetched", !.got = got, !.at = at]
    BY <1>3, <1>4, <1>5, <1>6, <2>2
  <2> QED
    BY <2>1, <2>3 DEF Collectors, Steps
<1>8. Carries(w)'
  BY <1>1, <1>4, <1>7, Holds DEF Carries
<1>9. run' \in Seq(Statuses) /\ Len(run) <= Len(run')
  BY <1>1, Holds DEF WorkTypes
<1>10. \A v \in Workers \ {w} : work'[v] = work[v]
  BY <1>1, <1>2
<1> QED
  BY <1>1, <1>2, <1>8, <1>9, <1>10, MoveTypes

LEMMA CommitBillTypes ==
  ASSUME WorkTypes, CoverInv, NEW w \in live, live \subseteq Workers, CommitBill(w)
  PROVE  WorkTypes'
<1>1. PICK x, p, l : x = ExceptionsWith(w) /\ p = work[w].position + 1 /\ l = work[w].left - 1
  OBVIOUS
<1>2. /\ UNCHANGED <<live, run>> /\ work[w].step = "fetched" /\ DOMAIN work = Workers
      /\ work' = [work EXCEPT ![w].step = "bills", ![w].position = p, ![w].left = l,
                              ![w].exceptions = x, ![w].committed = TRUE,
                              ![w].got = None, ![w].at = 0]
      /\ checkpoint' = [run |-> work[w].run, universe |-> work[w].universe,
                        cursor |-> p, exceptions |-> x]
  BY <1>1 DEF CommitBill, scheduleVars, CoverInv
<1>3. x \subseteq Bills
  <2>1. Listed(work[w].universe) /\ work[w].position + 1 \in 1 .. Len(work[w].universe)
    BY <1>2 DEF CoverInv, Collecting, Backed, Listed
  <2>2. Bill(w).bill \in Bills
    BY <2>1, ListedBills DEF Bill
  <2> QED
    BY <1>1, <2>2, Holds DEF ExceptionsWith
<1>4. p \in Nat /\ l \in Nat
  <2>1. work[w].position \in Nat /\ work[w].left \in Nat /\ work[w].left > 0
    BY <1>2, Holds DEF Carries
  <2> QED
    BY <1>1, <2>1
<1>5. work'[w] = [work[w] EXCEPT !.step = "bills", !.position = p, !.left = l,
                                 !.exceptions = x, !.committed = TRUE, !.got = None, !.at = 0]
  BY <1>2
<1>6. /\ work'[w] \in Collectors /\ work'[w].step = "bills" /\ work'[w].run = work[w].run
      /\ work'[w].prior = work[w].prior
  <2>1. work[w] \in Collectors
    BY Holds
  <2>2. PICK c : c = [work[w] EXCEPT !.step = "bills", !.position = p, !.left = l, !.exceptions = x]
    OBVIOUS
  <2>3. c \in Collectors /\ c.step = "bills" /\ c.run = work[w].run /\ c.prior = work[w].prior
    BY <1>3, <1>4, <2>1, <2>2 DEF Collectors, Steps
  <2>4. work'[w] = [c EXCEPT !.committed = TRUE, !.got = None, !.at = 0]
    BY <1>5, <2>2
  <2>5. work'[w] \in Collectors
    <3>1. PICK d : d = [c EXCEPT !.committed = TRUE]
      OBVIOUS
    <3>2. d \in Collectors
      BY <2>3, <3>1 DEF Collectors
    <3>3. PICK e : e = [d EXCEPT !.got = None]
      OBVIOUS
    <3>4. e \in Collectors
      BY <3>2, <3>3 DEF Collectors
    <3>5. work'[w] = [e EXCEPT !.at = 0]
      BY <2>4, <3>1, <3>3
    <3> QED
      BY <3>4, <3>5 DEF Collectors
  <2>6. DOMAIN c = Fields
    BY <2>3 DEF Collectors, Fields
  <2>7. work'[w].step = c.step /\ work'[w].run = c.run /\ work'[w].prior = c.prior
    BY <2>4, <2>6 DEF Fields
  <2> QED
    BY <2>3, <2>5, <2>7
<1>7. Carries(w)'
  BY <1>2, <1>6, Holds DEF Carries
<1>8. checkpoint' \in Points(1 .. Len(run'))
  BY <1>2, <1>3, <1>4, Holds DEF Points, Carries
<1>9. run' \in Seq(Statuses) /\ Len(run) <= Len(run')
  BY <1>2, Holds DEF WorkTypes
<1>10. \A v \in Workers \ {w} : work'[v] = work[v]
  BY <1>2
<1> QED
  BY <1>2, <1>7, <1>8, <1>9, <1>10, MoveTypes

(* A collector that ends has nothing any more; its run may get its last status. *)
LEMMA EndTypes ==
  ASSUME WorkTypes, DOMAIN work = Workers, NEW w \in live, live \subseteq Workers,
         Finish(w) \/ Fail(w) \/ Die(w)
  PROVE  WorkTypes'
<1>1. live' = live \ {w} /\ work' = [work EXCEPT ![w] = None] /\ checkpoint' = checkpoint
  BY DEF Finish, Fail, Die, Exit, Ended, collectionVars
<1>2. \/ run' = run
      \/ \E status \in Statuses : run' = [run EXCEPT ![work[w].run] = status]
  <2>1. CASE Finish(w)
    BY <2>1 DEF Finish, Statuses
  <2>2. CASE Fail(w)
    BY <2>2 DEF Fail, Statuses
  <2>3. CASE Die(w)
    BY <2>3 DEF Die, collectionVars
  <2> QED
    BY <2>1, <2>2, <2>3
<1>3. run' \in Seq(Statuses) /\ Len(run') = Len(run) /\ Len(run) \in Nat
  <2>1. run \in Seq(Statuses)
    BY DEF WorkTypes
  <2>2. ASSUME NEW n, NEW status \in Statuses, run' = [run EXCEPT ![n] = status]
        PROVE  run' \in Seq(Statuses) /\ Len(run') = Len(run)
    <3>1. PICK k \in Nat : k = Len(run)
      BY <2>1
    <3>2. run \in [1 .. k -> Statuses]
      BY <2>1, <3>1
    <3>3. run' \in [1 .. k -> Statuses]
      BY <2>2, <3>2
    <3> QED
      BY <3>1, <3>3
  <2>3. Len(run) \in Nat
    BY <2>1
  <2>4. CASE run' = run
    BY <2>1, <2>3, <2>4
  <2>5. CASE \E status \in Statuses : run' = [run EXCEPT ![work[w].run] = status]
    <3>1. PICK status \in Statuses : run' = [run EXCEPT ![work[w].run] = status]
      BY <2>5
    <3> QED
      BY <2>2, <2>3, <3>1
  <2> QED
    BY <1>2, <2>4, <2>5
<1>4. \A v \in Workers \ {w} : (v \in live' <=> v \in live) /\ work'[v] = work[v]
                               /\ (v \notin live => work[v] = None)
  BY <1>1 DEF WorkTypes
<1>5. w \notin live' /\ work'[w] = None
  BY <1>1
<1> QED
  BY <1>1, <1>3, <1>4, <1>5, WorkStays


LEMMA WorkTypesStep ==
  ASSUME ScheduleInv, CollectorInv, CollectorInv', WorkTypes, [Next]_vars
  PROVE  WorkTypes'
<1>1. live \subseteq Workers /\ DOMAIN work = Workers /\ resume \in [Schedulers -> BOOLEAN] /\ CoverInv
  BY DEF ScheduleInv, ScheduleTypeOK, CollectorInv, CoverInv
<1>2. ASSUME UNCHANGED <<live, run, checkpoint, work>> PROVE WorkTypes'
  <2>1. \A v \in Workers : v \notin live => work[v] = None
    BY DEF WorkTypes
  <2>2. run \in Seq(Statuses) /\ Len(run) <= Len(run)
    BY DEF WorkTypes
  <2> QED
    BY <1>2, <2>1, <2>2, WorkStays
<1>3. ASSUME NEW s \in Schedulers, Schedule(s) PROVE UNCHANGED <<live, run, checkpoint, work>>
  <2>1. UNCHANGED <<run, checkpoint, work>>
    BY <1>3 DEF Schedule, collectionVars
  <2>2. ASSUME RemoveLock(s) PROVE UNCHANGED live
    BY <2>2, Zenon DEF RemoveLock
  <2>3. ASSUME \/ Refuse(s) \/ Block(s) \/ Reap(s) \/ Leave(s) \/ Kill(s)
               \/ \E again \in BOOLEAN : Acquire(s, again)
        PROVE  UNCHANGED live
    BY <2>3 DEF Refuse, Block, Reap, Leave, Acquire, Kill
  <2>4. \/ RemoveLock(s)
        \/ Refuse(s) \/ Block(s) \/ Reap(s) \/ Leave(s) \/ Kill(s)
        \/ \E again \in BOOLEAN : Acquire(s, again)
    BY <1>3 DEF Schedule
  <2> QED
    BY <2>1, <2>2, <2>3, <2>4
<1>4. ASSUME NEW s \in Schedulers, KillChild(s) PROVE WorkTypes'
  <2>1. /\ UNCHANGED <<run, checkpoint>> /\ live' \subseteq live
        /\ work' = [w \in Workers |-> IF w \in live' THEN work[w] ELSE None]
    BY <1>4 DEF KillChild, Timeout, collectionVars
  <2>2. \A v \in Workers : \/ v \in live' /\ v \in live /\ work'[v] = work[v]
                           \/ v \notin live' /\ work'[v] = None
    BY <2>1
  <2>3. run \in Seq(Statuses) /\ Len(run) <= Len(run)
    BY DEF WorkTypes
  <2> QED
    BY <2>1, <2>2, <2>3, WorkStays
<1>5. ASSUME NEW s \in Schedulers, NEW w \in Workers, Launch(s, w) PROVE WorkTypes'
  <2>1. w \notin live /\ live' = live \cup {w} /\ resume[s] \in BOOLEAN
    BY <1>1, <1>5 DEF Launch, Spawn, Free
  <2>2. UNCHANGED <<run, checkpoint>> /\ work' = Begun(w, resume[s], Cardinality(Bills))
    BY <1>5 DEF Launch, collectionVars
  <2>3. Cardinality(Bills) \in Nat
    BY BillsAssumption, FS_CardinalityType
  <2> QED
    BY <1>1, <2>1, <2>2, <2>3, BeginTypes
<1>6. ASSUME NEW w \in Workers, NEW again \in BOOLEAN, NEW budget \in {1, Cardinality(Bills)},
             Start(w, again, budget)
      PROVE  WorkTypes'
  <2>1. w \notin live /\ live' = live \cup {w}
    BY <1>6 DEF Start, StartByHand, Free
  <2>2. UNCHANGED <<run, checkpoint>> /\ work' = Begun(w, again, budget)
    BY <1>6 DEF Start, collectionVars
  <2>3. budget \in Nat
    BY BillsAssumption, FS_CardinalityType
  <2> QED
    BY <1>1, <2>1, <2>2, <2>3, BeginTypes
<1>7. ASSUME NEW w \in live, Collector(w) PROVE WorkTypes'
  <2>1. CASE Finish(w) \/ Fail(w) \/ Die(w)
    BY <1>1, <2>1, EndTypes
  <2> QED
    BY <1>1, <1>7, <2>1, OpenRunTypes, FetchUniverseTypes, CommitPagesTypes, FetchBillTypes,
       CommitBillTypes
    DEF Collector
<1>8. ASSUME NEW b, NEW r, Amend(b, r) PROVE UNCHANGED <<live, run, checkpoint, work>>
  BY <1>8 DEF Amend, scheduleVars, collectionVars
<1>9. ASSUME NEW c, Withdraw(c) \/ Restore(c) \/ Replace(c) \/ Unlink(c) \/ ReadMember(c)
      PROVE  UNCHANGED <<live, run, checkpoint, work>>
  BY <1>9 DEF Withdraw, Restore, Replace, Unlink, ReadMember, Edit, scheduleVars, collectionVars
<1>10. ASSUME StartPublication \/ ImportMember \/ Report \/ StopPublication \/ UNCHANGED vars
       PROVE  UNCHANGED <<live, run, checkpoint, work>>
  BY <1>10 DEF StartPublication, ImportMember, Report, StopPublication, vars, scheduleVars, collectionVars
<1> QED
  BY <1>2, <1>3, <1>4, <1>5, <1>6, <1>7, <1>8, <1>9, <1>10 DEF Next

(* A row that is stored is one the provider published, held against a tally it published. *)
LEMMA RowsTyped ==
  ASSUME NEW b \in Bills, NEW tally \in Tallies, NEW r \in Responses, NEW at,
         NEW o \in Rows(b, tally, r, at)
  PROVE  VoteClaim(o) \in ClaimIds
<1>1. PICK m \in Voters(r) : o = [bill |-> b, member |-> m, row |-> Row(tally, r, m), at |-> at]
  BY DEF Rows
<1>2. m \in Members
  BY DEF Voters
<1>3. r.rows[m] \in UNION {{q.rows[n] : n \in Voters(q)} : q \in Responses}
  OBVIOUS
<1>4. Clash(tally, r) \in SUBSET [published : Tallies, rows : {Counted(q) : q \in Responses}]
  <2>1. Counted(r) \in {Counted(q) : q \in Responses}
    OBVIOUS
  <2> QED
    BY <2>1 DEF Clash
<1>5. VoteClaim(o) = [member |-> m, bill |-> b, row |-> [vote |-> r.rows[m], clash |-> Clash(tally, r)]]
  BY <1>1 DEF VoteClaim, Row
<1> QED
  BY <1>2, <1>3, <1>4, <1>5 DEF ClaimIds

LEMMA ClaimTypesStep ==
  ASSUME ScheduleInv, CollectorInv, ClaimInv, ClaimTypes, [Next]_vars
  PROVE  ClaimTypes'
<1> DEFINE Same == UNCHANGED <<observations, linked, stored, withheld, replaced, pub>>
<1>1. ASSUME Same PROVE ClaimTypes'
  BY <1>1 DEF ClaimTypes
<1>2. CASE UNCHANGED vars
  BY <1>1, <1>2 DEF vars, collectionVars, claimVars
<1>3. ASSUME NEW s \in Schedulers, Schedule(s) \/ KillChild(s) \/ \E w \in Workers : Launch(s, w)
      PROVE  Same
  BY <1>3 DEF Schedule, KillChild, Launch, collectionVars, claimVars
<1>4. ASSUME NEW w, NEW again, NEW budget, Start(w, again, budget) PROVE Same
  BY <1>4 DEF Start, collectionVars, claimVars
<1>5. ASSUME NEW w, \/ OpenRun(w) \/ FetchUniverse(w) \/ CommitPages(w) \/ FetchBill(w)
                    \/ Finish(w) \/ Fail(w) \/ Die(w)
      PROVE  Same
  BY <1>5 DEF OpenRun, FetchUniverse, CommitPages, FetchBill, Finish, Fail, Die, collectionVars, claimVars
<1>6. ASSUME NEW w \in live, CommitBill(w) PROVE ClaimTypes'
  <2>1. /\ observations' = observations \cup Fresh(Rows(Bill(w).bill, Bill(w).tally, work[w].got, work[w].at))
        /\ UNCHANGED <<linked, stored, withheld, replaced, pub>> /\ work[w].step = "fetched"
    BY <1>6 DEF CommitBill, claimVars
  <2>2. /\ Listed(work[w].universe) /\ work[w].position + 1 \in 1 .. Len(work[w].universe)
        /\ work[w].got \in Responses
    BY <2>1 DEF CollectorInv, CoverInv, Collecting, Backed, Listed
  <2>3. Bill(w).bill \in Bills /\ Bill(w).tally \in Tallies
    BY <2>2, ListedBills DEF Bill
  <2>4. \A o \in Rows(Bill(w).bill, Bill(w).tally, work[w].got, work[w].at) : VoteClaim(o) \in ClaimIds
    BY <2>2, <2>3, RowsTyped
  <2>5. \A o \in observations' : VoteClaim(o) \in ClaimIds
    BY <2>1, <2>4 DEF Fresh, ClaimTypes
  <2> QED
    BY <2>1, <2>5 DEF ClaimTypes, VoteClaim
<1>7. ASSUME NEW b, NEW r, Amend(b, r) PROVE Same
  BY <1>7 DEF Amend, collectionVars, claimVars
<1>8. ASSUME NEW c \in stored, Withdraw(c) \/ Restore(c) \/ Replace(c) PROVE ClaimTypes'
  BY <1>8 DEF Withdraw, Restore, Replace, Edit, Current, Published, collectionVars, ClaimTypes
<1>9. ASSUME NEW m, Unlink(m) PROVE ClaimTypes'
  BY <1>9 DEF Unlink, Edit, collectionVars, ClaimTypes
<1>10. ASSUME NEW m, ReadMember(m) PROVE ClaimTypes'
  <2>1. PICK rows : rows = NewestOf(m, pub.point.exceptions)
    OBVIOUS
  <2>2. /\ pub # None /\ UNCHANGED <<observations, linked, stored, withheld, replaced>>
        /\ pub' = [pub EXCEPT !.left = @ \ {m}, !.member = IF rows = {} THEN None ELSE m,
                              !.claims = {VoteClaim(o) : o \in rows}]
    BY <1>10, <2>1 DEF ReadMember, collectionVars
  <2>3. DOMAIN pub = {"point", "people", "left", "member", "claims"}
    BY <2>2 DEF ClaimInv
  <2>4. pub'.claims = {VoteClaim(o) : o \in rows}
    BY <2>2, <2>3
  <2>5. ASSUME NEW o \in rows PROVE VoteClaim(o) \in ClaimIds
    <3>1. PICK b : o = Latest(b, m) /\ About(b, m) # {}
      BY <2>1 DEF NewestOf
    <3>2. o \in observations
      BY <3>1, LatestIsStored DEF CollectorInv, About
    <3> QED
      BY <3>2 DEF ClaimTypes
  <2> QED
    BY <2>2, <2>4, <2>5 DEF ClaimTypes
<1>11. CASE StartPublication
  <2>1. /\ UNCHANGED <<observations, linked, stored, withheld, replaced>>
        /\ pub' = [point |-> checkpoint, people |-> linked, left |-> linked, member |-> None, claims |-> {}]
    BY <1>11 DEF StartPublication, collectionVars
  <2> QED
    BY <2>1 DEF ClaimTypes
<1>12. CASE ImportMember
  <2>1. /\ pub # None /\ UNCHANGED <<observations, linked, withheld, replaced>>
        /\ stored' = stored \cup pub.claims /\ pub' = [pub EXCEPT !.member = None, !.claims = {}]
    BY <1>12 DEF ImportMember, collectionVars
  <2>2. pub'.claims = {}
    BY <2>1 DEF ClaimInv
  <2> QED
    BY <2>1, <2>2 DEF ClaimTypes
<1>13. CASE Report \/ StopPublication
  BY <1>13 DEF Report, StopPublication, collectionVars, ClaimTypes
<1> QED
  BY <1>1, <1>2, <1>3, <1>4, <1>5, <1>6, <1>7, <1>8, <1>9, <1>10, <1>11, <1>12, <1>13 DEF Next, Collector

LEMMA TypesInitially == Init => WorkTypes /\ ClaimTypes
<1> SUFFICES ASSUME Init PROVE WorkTypes /\ ClaimTypes
  OBVIOUS
<1>1. WorkTypes
  BY DEF Init, ScheduleInit, WorkTypes
<1>2. ClaimTypes
  BY DEF Init, ClaimTypes
<1> QED
  BY <1>1, <1>2

(* Every variable has its type, and a collector that runs holds what its step needs: a run that
   is stored, a universe of voted bills, and an answer of the provider when there is one. *)
THEOREM VotesTypes == Spec => []TypeOK
<1> DEFINE All == ScheduleInv /\ CollectorInv /\ ClaimInv /\ WorkTypes /\ ClaimTypes
<1>1. Init => All
  BY CollectorInitially, ClaimInitially, TypesInitially
<1>2. All /\ [Next]_vars => All'
  <2> SUFFICES ASSUME All, [Next]_vars PROVE All'
    OBVIOUS
  <2>1. ScheduleInv' /\ CollectorInv'
    BY ScheduleFollowed, ScheduleStep, CollectorStep
  <2>2. ClaimInv'
    BY ClaimStep DEF CollectorInv
  <2> QED
    BY <2>1, <2>2, WorkTypesStep, ClaimTypesStep
<1>3. All => TypeOK
  <2> SUFFICES ASSUME All PROVE TypeOK
    OBVIOUS
  <2>1. ScheduleTypeOK
    BY DEF ScheduleInv
  <2>2. provider \in [Bills -> Responses \cup {None}] /\ captured \in [Bills -> Responses \cup {None}]
    BY DEF CollectorInv, CoverInv
  <2>3. \A o \in observations : VoteClaim(o) \in ClaimIds /\ o.at \in Nat
    BY DEF ClaimTypes, CollectorInv, TimesInv
  <2>4. \A w \in Workers : IF w \in live THEN work[w] \in Collectors ELSE work[w] = None
    BY DEF WorkTypes, Carries
  <2> QED
    BY <2>1, <2>2, <2>3, <2>4 DEF TypeOK, WorkTypes, ClaimTypes
<1> QED
  BY <1>1, <1>2, <1>3, PTL DEF Spec


-----------------------------------------------------------------------------
(* The publication                                                          *)

\* An open run has one collector, and it is still running.
OwnInv ==
  \A w \in live : work[w].step # "read" =>
    /\ run[work[w].run] = "RUNNING"
    /\ \A v \in live : work[v].step # "read" /\ work[v].run = work[w].run => v = w

\* The claims of a member's newest rows are in a set.
ClaimedIn(m, claims) ==
  \A b \in Bills \ pub.point.exceptions :
    About(b, m) # {} => VoteClaim(Latest(b, m)) \in claims

\* Who has been read has been imported; who has been read last is about to be.
Imported ==
  /\ \A m \in pub.people \ pub.left : m # pub.member => ClaimedIn(m, stored)
  /\ pub.member # None => ClaimedIn(pub.member, pub.claims)

PubInv ==
  /\ edits = 0 => withheld = {} /\ replaced = {}
  /\ edits \in Nat
  /\ pub # None =>
       /\ pub.point.run \in 1 .. Len(run) /\ run[pub.point.run] = "SUCCESS"
       /\ pub.people \subseteq Members
       /\ checkpoint = pub.point /\ edits = 0 => Imported

\* The run a collector writes to stays its own.
LEMMA OwnMoves ==
  ASSUME OwnInv, NEW w \in live, UNCHANGED <<live, run>>,
         \A v \in live \ {w} : work'[v] = work[v],
         work[w].step # "read", work'[w].run = work[w].run
  PROVE  OwnInv'
BY DEF OwnInv

LEMMA OwnStep ==
  ASSUME ScheduleInv, CollectorInv, WorkTypes, OwnInv, [Next]_vars
  PROVE  OwnInv'
<1>1. live \subseteq Workers /\ DOMAIN work = Workers
  BY DEF ScheduleInv, ScheduleTypeOK, CollectorInv, CoverInv
<1>2. ASSUME Calm, run' = run PROVE OwnInv'
  BY <1>2 DEF Calm, OwnInv
<1>3. ASSUME NEW w \in Workers, NEW again, NEW budget, w \notin live, live' = live \cup {w}, run' = run,
             work' = Begun(w, again, budget)
      PROVE  OwnInv'
  <2>1. work'[w].step = "read" /\ \A v \in live : work'[v] = work[v]
    BY <1>1, <1>3 DEF Begun
  <2> QED
    BY <1>3, <2>1 DEF OwnInv
<1>4. ASSUME NEW s \in Schedulers, NEW w \in Workers, Launch(s, w) PROVE OwnInv'
  BY <1>3, <1>4 DEF Launch, Spawn, Free, collectionVars
<1>5. ASSUME NEW w \in Workers, NEW again, NEW budget, Start(w, again, budget) PROVE OwnInv'
  BY <1>3, <1>5 DEF Start, StartByHand, Free, collectionVars
<1>6. ASSUME NEW w \in live, OpenRun(w) PROVE OwnInv'
  <2>1. /\ work' = [work EXCEPT ![w].step = "universe", ![w].run = NewRun]
        /\ run' = Append(run, "RUNNING") /\ live' = live
    BY <1>6 DEF OpenRun, scheduleVars
  <2>2. Len(run) \in Nat /\ run \in Seq(Statuses)
    BY DEF WorkTypes
  <2>3. NewRun = Len(run) + 1 /\ run'[NewRun] = "RUNNING" /\ \A n \in 1 .. Len(run) : run'[n] = run[n] /\ n # NewRun
    BY <2>1, <2>2 DEF NewRun
  <2>4. \A v \in live : Carries(v)
    BY <1>1 DEF WorkTypes
  <2>5. /\ \A v \in live \ {w} : work'[v] = work[v]
        /\ work'[w] = [work[w] EXCEPT !.step = "universe", !.run = NewRun]
    BY <1>1, <2>1
  <2>6. work'[w].run = NewRun
    BY <2>4, <2>5 DEF Carries, Collectors
  <2>7. \A v \in live : work[v].step # "read" => work[v].run \in 1 .. Len(run)
    BY <2>4 DEF Carries
  <2>8. ASSUME NEW u \in live, work'[u].step # "read"
        PROVE  /\ run'[work'[u].run] = "RUNNING"
               /\ \A v \in live : work'[v].step # "read" /\ work'[v].run = work'[u].run => v = u
    <3>1. CASE u = w
      <4>1. ASSUME NEW v \in live, v # w, work'[v].step # "read" PROVE work'[v].run # NewRun
        <5>1. work'[v] = work[v] /\ work[v].run \in 1 .. Len(run)
          BY <2>5, <2>7, <4>1
        <5> QED
          BY <2>3, <5>1
      <4> QED
        BY <2>3, <2>6, <3>1, <4>1
    <3>2. CASE u # w
      <4>1. work'[u] = work[u] /\ work[u].run \in 1 .. Len(run) /\ run[work[u].run] = "RUNNING"
        BY <2>5, <2>7, <2>8, <3>2 DEF OwnInv
      <4>2. ASSUME NEW v \in live, work'[v].step # "read", work'[v].run = work'[u].run PROVE v = u
        <5>1. v # w
          BY <2>3, <2>6, <4>1, <4>2
        <5> QED
          BY <2>5, <2>8, <4>1, <4>2, <5>1 DEF OwnInv
      <4> QED
        BY <2>3, <4>1, <4>2
    <3> QED
      BY <3>1, <3>2
  <2> QED
    BY <2>1, <2>8 DEF OwnInv
<1>7. ASSUME NEW w \in live, FetchUniverse(w) \/ CommitPages(w) \/ FetchBill(w) \/ CommitBill(w)
      PROVE  OwnInv'
  <2>1. live' = live /\ run' = run /\ work[w].step # "read" /\ w \in Workers
    BY <1>1, <1>7 DEF FetchUniverse, CommitPages, FetchBill, CommitBill, scheduleVars, collectionVars
  <2>2. work[w] \in Collectors
    BY <1>1, Holds
  <2>3. CASE FetchUniverse(w)
    <3>1. \/ work' = [work EXCEPT ![w].step = "pages", ![w].universe = Universe]
          \/ work' = [work EXCEPT ![w].step = "bills", ![w].universe = Universe, ![w].prior = None,
                                  ![w].position = work[w].prior.cursor,
                                  ![w].exceptions = work[w].prior.exceptions]
      BY <2>3, Zenon DEF FetchUniverse
    <3>2. \A v \in live \ {w} : work'[v] = work[v]
      BY <1>1, <3>1
    <3>3. work'[w].run = work[w].run
      BY <1>1, <2>1, <2>2, <3>1 DEF Collectors
    <3> QED
      BY <2>1, <3>2, <3>3, OwnMoves
  <2>4. CASE CommitPages(w)
    <3>1. work' = [work EXCEPT ![w].step = "bills", ![w].committed = TRUE]
      BY <2>4 DEF CommitPages
    <3>2. \A v \in live \ {w} : work'[v] = work[v]
      BY <1>1, <3>1
    <3>3. work'[w].run = work[w].run
      BY <1>1, <2>1, <2>2, <3>1 DEF Collectors
    <3> QED
      BY <2>1, <3>2, <3>3, OwnMoves
  <2>5. CASE FetchBill(w)
    <3>1. work' = [work EXCEPT ![w].step = "fetched", ![w].got = provider[Bill(w).bill],
                               ![w].at = Now(Bill(w).bill)]
      BY <2>5 DEF FetchBill
    <3>2. \A v \in live \ {w} : work'[v] = work[v]
      BY <1>1, <3>1
    <3>3. work'[w].run = work[w].run
      BY <1>1, <2>1, <2>2, <3>1 DEF Collectors
    <3> QED
      BY <2>1, <3>2, <3>3, OwnMoves
  <2>6. CASE CommitBill(w)
    <3>1. work' = [work EXCEPT ![w].step = "bills", ![w].position = @ + 1, ![w].left = @ - 1,
                               ![w].exceptions = ExceptionsWith(w), ![w].committed = TRUE,
                               ![w].got = None, ![w].at = 0]
      BY <2>6 DEF CommitBill
    <3>2. \A v \in live \ {w} : work'[v] = work[v]
      BY <1>1, <3>1
    <3>3. work'[w].run = work[w].run
      BY <1>1, <2>1, <2>2, <3>1 DEF Collectors
    <3> QED
      BY <2>1, <3>2, <3>3, OwnMoves
  <2> QED
    BY <1>7, <2>3, <2>4, <2>5, <2>6
<1>8. ASSUME NEW w \in live, Finish(w) \/ Fail(w) \/ Die(w) PROVE OwnInv'
  <2>1. live' = live \ {w} /\ \A v \in live' : work'[v] = work[v]
    BY <1>1, <1>8 DEF Finish, Fail, Die, Exit, Ended
  <2>2. \/ run' = run
        \/ \E status : work[w].step # "read" /\ run' = [run EXCEPT ![work[w].run] = status]
    <3>1. CASE Finish(w)
      BY <3>1 DEF Finish
    <3>2. CASE Fail(w)
      BY <3>2 DEF Fail
    <3>3. CASE Die(w)
      BY <3>3 DEF Die, collectionVars
    <3> QED
      BY <1>8, <3>1, <3>2, <3>3
  <2>3. ASSUME NEW v \in live', work[v].step # "read" PROVE run'[work[v].run] = run[work[v].run]
    <3>1. CASE run' = run
      BY <3>1
    <3>2. CASE \E status : work[w].step # "read" /\ run' = [run EXCEPT ![work[w].run] = status]
      <4>1. PICK status : work[w].step # "read" /\ run' = [run EXCEPT ![work[w].run] = status]
        BY <3>2
      <4>2. work[v].run # work[w].run
        BY <2>1, <2>3, <4>1 DEF OwnInv
      <4> QED
        BY <4>1, <4>2
    <3> QED
      BY <2>2, <3>1, <3>2
  <2> QED
    BY <2>1, <2>3 DEF OwnInv
<1>9. ASSUME NEW s \in Schedulers, Schedule(s) \/ KillChild(s) PROVE OwnInv'
  <2>1. run' = run
    BY <1>9 DEF Schedule, KillChild, collectionVars
  <2> QED
    BY <1>2, <1>9, <2>1, CalmSteps DEF CollectorInv
<1>10. ASSUME NEW c, Withdraw(c) \/ Restore(c) \/ Replace(c) \/ Unlink(c) \/ ReadMember(c)
       PROVE  OwnInv'
  <2>1. run' = run
    BY <1>10 DEF Withdraw, Restore, Replace, Unlink, ReadMember, Edit, collectionVars
  <2> QED
    BY <1>2, <1>10, <2>1, CalmSteps DEF CollectorInv
<1>11. ASSUME StartPublication \/ ImportMember \/ Report \/ StopPublication \/ UNCHANGED vars
       PROVE  OwnInv'
  <2>1. run' = run
    BY <1>11 DEF StartPublication, ImportMember, Report, StopPublication, vars, collectionVars
  <2> QED
    BY <1>2, <1>11, <2>1, CalmSteps DEF CollectorInv
<1>12. ASSUME NEW b, NEW r, Amend(b, r) PROVE OwnInv'
  BY <1>12 DEF Amend, scheduleVars, collectionVars, OwnInv
<1> QED
  BY <1>4, <1>5, <1>6, <1>7, <1>8, <1>9, <1>10, <1>11, <1>12 DEF Next, Collector


(* A run that has succeeded stays so, and nobody writes in its name any more. *)
LEMMA SuccessIsFinal ==
  ASSUME ScheduleInv, CollectorInv, WorkTypes, OwnInv, [Next]_vars,
         NEW n \in 1 .. Len(run), run[n] = "SUCCESS"
  PROVE  /\ n \in 1 .. Len(run') /\ run'[n] = "SUCCESS"
         /\ UNCHANGED <<checkpoint, observations>> \/ checkpoint'.run # n
<1>1. live \subseteq Workers /\ DOMAIN work = Workers /\ run \in Seq(Statuses) /\ Len(run) \in Nat
  BY DEF ScheduleInv, ScheduleTypeOK, CollectorInv, CoverInv, WorkTypes
<1> DEFINE Same == UNCHANGED <<run, checkpoint, observations>>
<1>2. ASSUME NEW s \in Schedulers, Schedule(s) \/ KillChild(s) \/ \E w \in Workers : Launch(s, w)
      PROVE  Same
  BY <1>2 DEF Schedule, KillChild, Launch, collectionVars
<1>3. ASSUME NEW w, NEW again, NEW budget, Start(w, again, budget) PROVE Same
  BY <1>3 DEF Start, collectionVars
<1>4. ASSUME NEW b, NEW r, Amend(b, r) PROVE Same
  BY <1>4 DEF Amend, collectionVars
<1>5. ASSUME NEW c, Withdraw(c) \/ Restore(c) \/ Replace(c) \/ Unlink(c) \/ ReadMember(c) PROVE Same
  BY <1>5 DEF Withdraw, Restore, Replace, Unlink, ReadMember, Edit, collectionVars
<1>6. ASSUME StartPublication \/ ImportMember \/ Report \/ StopPublication \/ UNCHANGED vars PROVE Same
  BY <1>6 DEF StartPublication, ImportMember, Report, StopPublication, vars, collectionVars
<1>7. ASSUME NEW w \in live, FetchUniverse(w) \/ FetchBill(w) \/ Die(w) PROVE Same
  BY <1>7 DEF FetchUniverse, FetchBill, Die, collectionVars
<1>8. ASSUME NEW w \in live, OpenRun(w)
      PROVE  UNCHANGED <<checkpoint, observations>> /\ n \in 1 .. Len(run') /\ run'[n] = "SUCCESS"
  <2>1. run' = Append(run, "RUNNING") /\ UNCHANGED <<checkpoint, observations>>
    BY <1>8 DEF OpenRun
  <2> QED
    BY <1>1, <2>1
<1>9. ASSUME NEW w \in live, CommitPages(w) \/ CommitBill(w)
      PROVE  run' = run /\ checkpoint'.run # n
  <2>1. run' = run /\ work[w].step # "read" /\ checkpoint'.run = work[w].run
    BY <1>9 DEF CommitPages, CommitBill
  <2>2. run[work[w].run] = "RUNNING"
    BY <2>1 DEF OwnInv
  <2> QED
    BY <2>1, <2>2
<1>10. ASSUME NEW w \in live, Finish(w) \/ Fail(w)
       PROVE  UNCHANGED <<checkpoint, observations>> /\ n \in 1 .. Len(run') /\ run'[n] = "SUCCESS"
  <2>1. UNCHANGED <<checkpoint, observations>>
    BY <1>10 DEF Finish, Fail
  <2>2. \/ run' = run
        \/ \E status \in Statuses : work[w].step # "read" /\ run' = [run EXCEPT ![work[w].run] = status]
    <3>1. CASE Finish(w)
      BY <3>1 DEF Finish, Statuses
    <3>2. CASE Fail(w)
      BY <3>2 DEF Fail, Statuses
    <3> QED
      BY <1>10, <3>1, <3>2
  <2>3. CASE run' = run
    BY <2>1, <2>3
  <2>4. CASE \E status \in Statuses : work[w].step # "read" /\ run' = [run EXCEPT ![work[w].run] = status]
    <3>1. PICK status \in Statuses : work[w].step # "read" /\ run' = [run EXCEPT ![work[w].run] = status]
      BY <2>4
    <3>2. work[w].run # n
      BY <3>1 DEF OwnInv
    <3>3. PICK k \in Nat : k = Len(run)
      BY <1>1
    <3>4. run' \in [1 .. k -> Statuses] /\ run'[n] = run[n]
      <4>1. run \in [1 .. k -> Statuses] /\ n \in 1 .. k
        BY <1>1, <3>3
      <4> QED
        BY <3>1, <3>2, <4>1
    <3>5. Len(run') = k
      BY <3>3, <3>4
    <3> QED
      BY <2>1, <3>3, <3>4, <3>5
  <2> QED
    BY <2>2, <2>3, <2>4
<1> QED
  BY <1>2, <1>3, <1>4, <1>5, <1>6, <1>7, <1>8, <1>9, <1>10 DEF Next, Collector

(* What has been imported of the newest rows stays imported while nothing is collected. *)
LEMMA ImportedStays ==
  ASSUME Imported, UNCHANGED <<observations, pub>>, stored \subseteq stored'
  PROVE  Imported'
BY DEF Imported, ClaimedIn, About, Latest, VoteClaim

LEMMA PubStep ==
  ASSUME ScheduleInv, CollectorInv, WorkTypes, ClaimTypes, ClaimInv, OwnInv, PubInv, [Next]_vars
  PROVE  PubInv'
<1>1. ASSUME pub # None
      PROVE  /\ pub.point.run \in 1 .. Len(run') /\ run'[pub.point.run] = "SUCCESS"
             /\ checkpoint' = pub.point => UNCHANGED <<checkpoint, observations>>
  <2>1. pub.point.run \in 1 .. Len(run) /\ run[pub.point.run] = "SUCCESS"
    BY <1>1 DEF PubInv
  <2> QED
    BY <2>1, SuccessIsFinal
<1>2. ASSUME UNCHANGED <<pub, edits, stored, withheld, replaced>> PROVE PubInv'
  <2>1. ASSUME pub # None, checkpoint' = pub.point, edits = 0 PROVE Imported'
    BY <1>1, <1>2, <2>1, ImportedStays DEF PubInv
  <2> QED
    BY <1>1, <1>2, <2>1 DEF PubInv
<1>3. ASSUME UNCHANGED pub, edits \in Nat, edits' = edits + 1 PROVE PubInv'
  BY <1>1, <1>3 DEF PubInv
<1>4. ASSUME NEW s \in Schedulers, Schedule(s) \/ KillChild(s) \/ \E w \in Workers : Launch(s, w)
      PROVE  UNCHANGED <<pub, edits, stored, withheld, replaced>>
  BY <1>4 DEF Schedule, KillChild, Launch, claimVars, counters
<1>5. ASSUME NEW w, NEW again, NEW budget, Start(w, again, budget)
      PROVE  UNCHANGED <<pub, edits, stored, withheld, replaced>>
  BY <1>5 DEF Start, claimVars, counters
<1>6. ASSUME NEW b, NEW r, Amend(b, r) PROVE UNCHANGED <<pub, edits, stored, withheld, replaced>>
  BY <1>6 DEF Amend, claimVars
<1>7. ASSUME NEW w, Collector(w) PROVE UNCHANGED <<pub, edits, stored, withheld, replaced>>
  BY <1>7 DEF Collector, OpenRun, FetchUniverse, CommitPages, FetchBill, CommitBill, Finish, Fail, Die,
              claimVars, counters
<1>8. ASSUME NEW c, Withdraw(c) \/ Restore(c) \/ Replace(c) \/ Unlink(c) PROVE PubInv'
  BY <1>3, <1>8 DEF Withdraw, Restore, Replace, Unlink, Edit, PubInv
<1>9. ASSUME NEW m \in Members, ReadMember(m) PROVE PubInv'
  <2>1. PICK rows : rows = NewestOf(m, pub.point.exceptions)
    OBVIOUS
  <2>2. /\ pub # None /\ pub.member = None
        /\ UNCHANGED <<run, checkpoint, observations, edits, stored, withheld, replaced>>
        /\ pub' = [pub EXCEPT !.left = @ \ {m}, !.member = IF rows = {} THEN None ELSE m,
                              !.claims = {VoteClaim(o) : o \in rows}]
    BY <1>9, <2>1 DEF ReadMember, collectionVars, counters
  <2>3. DOMAIN pub = {"point", "people", "left", "member", "claims"}
    BY <2>2 DEF ClaimInv
  <2>4. /\ pub'.left = pub.left \ {m} /\ pub'.member = IF rows = {} THEN None ELSE m
        /\ pub'.claims = {VoteClaim(o) : o \in rows} /\ pub'.point = pub.point /\ pub'.people = pub.people
    BY <2>2, <2>3
  <2>5. ASSUME checkpoint = pub.point, edits = 0 PROVE Imported'
    <3>1. Imported /\ pub.people \subseteq Members
      BY <2>2, <2>5 DEF PubInv
    <3>3. \A b \in Bills \ pub.point.exceptions : About(b, m) # {} => Latest(b, m) \in rows
      BY <2>1 DEF NewestOf
    <3>4. ClaimedIn(m, pub'.claims)
      BY <2>4, <3>3 DEF ClaimedIn
    <3>5. rows = {} => ClaimedIn(m, stored)
      BY <3>3 DEF ClaimedIn
    <3>6. ASSUME NEW p \in pub'.people \ pub'.left, p # pub'.member PROVE ClaimedIn(p, stored)
      <4>1. CASE p = m
        BY <2>4, <3>5, <3>6, <4>1
      <4>2. CASE p # m
        <5>1. p \in pub.people \ pub.left /\ p # None
          BY <2>4, <3>1, <3>6, <4>2, NoneIsNothing
        <5> QED
          BY <2>2, <3>1, <5>1 DEF Imported
      <4> QED
        BY <4>1, <4>2
    <3>7. \A p \in pub'.people \ pub'.left : p # pub'.member => ClaimedIn(p, stored)'
      BY <2>2, <2>4, <3>6 DEF ClaimedIn, About, Latest, VoteClaim
    <3>8. ASSUME pub'.member # None PROVE ClaimedIn(pub.member, pub.claims)'
      <4>1. pub'.member = m /\ pub'.point = pub.point /\ UNCHANGED observations
        BY <2>2, <2>4, <3>8
      <4> QED
        BY <3>4, <4>1 DEF ClaimedIn, About, Latest, VoteClaim
    <3> QED
      BY <3>7, <3>8 DEF Imported
  <2> QED
    BY <2>2, <2>4, <2>5 DEF PubInv
<1>10. CASE StartPublication
  <2>1. /\ Accepts /\ UNCHANGED <<run, checkpoint, observations, edits, stored, withheld, replaced>>
        /\ pub' = [point |-> checkpoint, people |-> linked, left |-> linked, member |-> None, claims |-> {}]
    BY <1>10 DEF StartPublication, collectionVars
  <2>2. checkpoint.run \in 1 .. Len(run) /\ run[checkpoint.run] = "SUCCESS"
    BY <2>1 DEF Accepts, WorkTypes, Points
  <2>3. linked \subseteq Members
    BY DEF ClaimTypes
  <2>4. Imported'
    BY <2>1 DEF Imported
  <2> QED
    BY <2>1, <2>2, <2>3, <2>4 DEF PubInv
<1>11. CASE ImportMember
  <2>1. /\ pub # None /\ pub.member # None
        /\ UNCHANGED <<run, checkpoint, observations, edits, withheld, replaced>>
        /\ stored' = stored \cup pub.claims /\ pub' = [pub EXCEPT !.member = None, !.claims = {}]
    BY <1>11 DEF ImportMember, collectionVars, counters
  <2>2. DOMAIN pub = {"point", "people", "left", "member", "claims"}
    BY <2>1 DEF ClaimInv
  <2>3. /\ pub'.left = pub.left /\ pub'.member = None /\ pub'.point = pub.point /\ pub'.people = pub.people
    BY <2>1, <2>2
  <2>4. ASSUME checkpoint = pub.point, edits = 0 PROVE Imported'
    <3>1. Imported
      BY <2>1, <2>4 DEF PubInv
    <3>2. \A p \in pub.people \ pub.left : ClaimedIn(p, stored) \/ ClaimedIn(p, pub.claims)
      BY <2>1, <3>1 DEF Imported
    <3>3. ASSUME NEW p \in pub.people \ pub.left PROVE ClaimedIn(p, stored)'
      <4>1. ClaimedIn(p, stored')
        BY <2>1, <3>2 DEF ClaimedIn
      <4> QED
        BY <2>1, <2>3, <4>1 DEF ClaimedIn, About, Latest, VoteClaim
    <3> QED
      BY <2>3, <3>3 DEF Imported
  <2> QED
    BY <2>1, <2>3, <2>4 DEF PubInv
<1>12. CASE Report \/ StopPublication
  <2>1. pub' = None /\ UNCHANGED <<edits, withheld, replaced>>
    BY <1>12 DEF Report, StopPublication, counters
  <2> QED
    BY <2>1 DEF PubInv
<1>13. CASE UNCHANGED vars
  BY <1>2, <1>13 DEF vars, claimVars, counters
<1> QED
  BY <1>2, <1>4, <1>5, <1>6, <1>7, <1>8, <1>9, <1>10, <1>11, <1>12, <1>13 DEF Next


LEMMA PublicationInitially == Init => OwnInv /\ PubInv
  BY DEF Init, ScheduleInit, OwnInv, PubInv

(* A publication that reports has left a published claim of the newest version of every row that
   is not excluded, for any number of collectors that run meanwhile, unless an operator edited
   claims or the checkpoint was replaced. *)
THEOREM PublicationsAreComplete == Spec => PublicationComplete
<1> DEFINE All == ScheduleInv /\ CollectorInv /\ ClaimInv /\ WorkTypes /\ ClaimTypes /\ OwnInv /\ PubInv
           Complete == Report /\ checkpoint = pub.point /\ edits = 0 =>
                         \A m \in pub.people, b \in Bills \ pub.point.exceptions :
                           About(b, m) # {} => VoteClaim(Latest(b, m)) \in Published
<1>1. Init => All
  BY CollectorInitially, ClaimInitially, TypesInitially, PublicationInitially
<1>2. All /\ [Next]_vars => All'
  <2> SUFFICES ASSUME All, [Next]_vars PROVE All'
    OBVIOUS
  <2>1. ScheduleInv' /\ CollectorInv'
    BY ScheduleFollowed, ScheduleStep, CollectorStep
  <2>2. ClaimInv'
    BY ClaimStep DEF CollectorInv
  <2>3. WorkTypes' /\ ClaimTypes'
    BY <2>1, WorkTypesStep, ClaimTypesStep
  <2> QED
    BY <2>1, <2>2, <2>3, OwnStep, PubStep
<1>3. All /\ [Next]_vars => [Complete]_vars
  <2> SUFFICES ASSUME PubInv, Report, checkpoint = pub.point, edits = 0,
                      NEW m \in pub.people, NEW b \in Bills \ pub.point.exceptions, About(b, m) # {}
               PROVE  VoteClaim(Latest(b, m)) \in Published
    OBVIOUS
  <2>1. pub # None /\ pub.left = {} /\ pub.member = None
    BY DEF Report
  <2>2. Imported /\ pub.people \subseteq Members /\ withheld = {} /\ replaced = {}
    BY <2>1 DEF PubInv
  <2>3. ClaimedIn(m, stored)
    BY <2>1, <2>2, NoneIsNothing DEF Imported
  <2>4. Published = stored
    BY <2>2 DEF Published, Current
  <2> QED
    BY <2>3, <2>4 DEF ClaimedIn
<1>4. PublicationComplete <=> [][Complete]_vars
  BY PTL DEF PublicationComplete
<1> QED
  BY <1>1, <1>2, <1>3, <1>4, PTL DEF Spec
=============================================================================
