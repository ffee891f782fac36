------------------------ MODULE UnitCollectionProofs ------------------------
(***************************************************************************)
(* What a collection keeps, for any number of processes, units and runs,   *)
(* and whatever the provider turns to.  Backed says of a cursor, of what   *)
(* is held and of a universe that the steps before the cursor are stored;  *)
(* it holds of the checkpoint, of the copy a process read of it, and of    *)
(* what each process has in hand.                                          *)
(***************************************************************************)
EXTENDS UnitCollection, FiniteSetTheorems, WellFoundedInduction, TLAPS

-----------------------------------------------------------------------------
(* The invariant, of the lane l and the rows s that are stored              *)

In(s, u) == \E x \in s : x[1] = u
CleanIn(s, u) == \E x \in s : x[1] = u /\ x[2] \notin Clashing
MeetingsOf(r) == {Meeting(r, u) : u \in Heads(r)}
PacketsOf(r) == {Packet(r, u) : u \in Heads(r)}
Names(r) == [i \in DOMAIN r |-> r[i][1]]

\* The units before the cursor, each once, with nothing or something stored.
Manifest(s, c, h, p) ==
  /\ c \in 0 .. Len(p)
  /\ IsFiniteSet(h) /\ Cardinality(h) = c
  /\ {x[1] : x \in h} = {p[i] : i \in 1 .. c}
  /\ \A x, y \in h : x[1] = y[1] => x = y
  /\ \A x \in h : x = <<x[1], x[2]>> /\ (x[2] = Empty \/ x \in s)

Tally(s, c, h, p) ==
  /\ c \in 0 .. Len(p)
  /\ h = [with |-> h.with, without |-> h.without]
  /\ h.with \in Nat /\ h.without \in Nat /\ h.with + h.without = c
  /\ h.with <= Cardinality({u \in {p[i] : i \in 1 .. c} : In(s, u)})

\* Of the meetings with these numbers the first c are stored.
Graphed(s, c, h, us) ==
  /\ us \subseteq Nat /\ IsFiniteSet(us) /\ c \in 0 .. Cardinality(us)
  /\ \A u \in us : Below(us, u) < c => In(s, u) /\ (u \in h \/ CleanIn(s, u))

Reviewed(s, c, h, f) ==
  LET packets == {x \in f : Max(x[3]) <= c} IN
  /\ IsFiniteSet(f) /\ c \in Nat
  /\ packets \subseteq s /\ h = Cardinality(packets)

Kept(s, c, h) == IsFiniteSet(h) /\ Cardinality(h) = c /\ h \subseteq s

Streams(s, c, h) ==
  /\ IsFiniteSet(h) /\ Cardinality(h) = c
  /\ IsFiniteSet(UNION h) /\ UNION h \subseteq s
  /\ \A x, y \in UNION h : x[1] = y[1] => x = y

First(r, n) == {r[j] : j \in 1 .. n}

Universe(r) == r \in Seq(Units \X Kinds)

Backed(l, s, c, h, f) ==
  /\ l = "EXECUTIVE" => Universe(f) /\ Executives(f) /\ Manifest(s, c, h, Names(f))
  /\ l = "CORPORATE" => Universe(f) /\ Corporations(f) /\ Tally(s, c, h, Names(f))
  /\ l = "EXPENSE" => /\ Universe(f) /\ Expenses(f) /\ Manifest(s, c, h, Selected)
                      /\ h \subseteq Range(f) /\ \A x \in h : x[2] # Empty
  /\ l = "MPM" => Manifest(s, c, h, Groups) /\ \A x \in h : x[2] # Empty
  /\ l = "GRAPH" => /\ \A m, n \in f : m[1] = n[1] => m = n
                    /\ Graphed(s, c, h, {m[1] : m \in f})
  /\ l = "REVIEW" => Reviewed(s, c, h, f)
  /\ l \in {"MEMBERS", "BIOGRAPHY"} => Kept(s, c, h)
  /\ l \in Streamed => Streams(s, c, h)

\* What the lane backs its cursor with, and how many steps it has.
Basis(l, r) ==
  CASE l = "GRAPH" -> MeetingsOf(r)
    [] l = "REVIEW" -> PacketsOf(r)
    [] OTHER -> r
StepsOf(l, me) ==
  CASE l \in {"EXECUTIVE", "CORPORATE"} -> Len(me.read)
    [] l = "EXPENSE" -> Len(Selected)
    [] l = "MPM" -> Len(Groups)
    [] l = "GRAPH" -> Cardinality(Heads(me.read))
    [] l \in Streamed -> me.pages
    [] OTHER -> IF me.read = <<>> THEN 1 ELSE Len(me.read)

Begun == {"directory", "verifying", "stepping", "fetched", "parts", "tested", "done"}
Going == {"stepping", "fetched", "parts", "tested", "done"}
Phases == {"idle", "ready", "cleared", "reading"} \cup Begun

\* What a checkpoint is, or the copy a process has of it.
Sealed(l, s, k) ==
  /\ k.total \in Nat /\ k.cursor \in 0 .. k.total
  /\ Backed(l, s, k.cursor, k.held, k.fingerprint)
  /\ l = "MEETINGS" => (k.cursor = k.total => k.fingerprint \subseteq s)
  /\ l \in Streamed => k.fingerprint[1] \in Nat /\ k.fingerprint = <<k.fingerprint[1], k.fingerprint[2]>>
  /\ l = "MPM" => k.fingerprint = Groups

\* The meetings whose rows begin within the first n.
Opened(r, n) == {Meeting(r, u) : u \in {v \in Heads(r) : Min(Places(r, v)) <= n}}

\* What the universe a process has read adds, of the cursor it has.
Covered(l, s, me) ==
  /\ l = "MEETINGS" => Opened(me.read, me.cursor) \subseteq s
  /\ l \in {"MEMBERS", "BIOGRAPHY"} =>
       Distinct(me.read) /\ me.read # <<>> /\ me.held = First(me.read, me.cursor)
  /\ l = "MPM" =>
       /\ \A i \in DOMAIN me.read : me.read[i][1] = Groups[i]
       /\ \A i \in DOMAIN me.read : me.read[i] \in me.held \/ (me.phase = "fetched" /\ me.read[i] = me.unit)
       /\ me.phase = "verifying" => Len(me.read) < me.cursor \/ me.held = {}
       /\ me.phase \in Going => Len(me.read) = IF me.phase = "fetched" THEN me.cursor + 1 ELSE me.cursor
  /\ l \in Streamed =>
       /\ me.phase \notin {"directory", "verifying", "parts"}
       /\ me.total # None => me.total \in Nat /\ me.pages \in Nat
       /\ me.pages # None => me.total # None
       /\ me.pages = None => me.cursor = 0

\* What it has fetched is the next step of its plan.
Next1(l, me) ==
  LET x == me.unit IN
  /\ me.cursor < StepsOf(l, me)
  /\ l \in Streamed =>
       /\ me.pages # None
       /\ IsFiniteSet(x) /\ x \notin me.held /\ x \subseteq Units \X Kinds
       /\ \A a, b \in x : a[1] = b[1] => a = b
       /\ \A a \in x, b \in UNION me.held : a[1] # b[1]
  /\ l \notin Streamed => x = <<x[1], x[2]>> /\ x[1] \in Nat /\ x[2] \in Kinds
  /\ l \in {"EXECUTIVE", "CORPORATE"} => x[1] = me.read[me.cursor + 1][1]
  /\ l = "EXPENSE" => x[1] = Selected[me.cursor + 1] /\ x \in Range(me.read) /\ x[2] # Empty
  /\ l = "MPM" => x[1] = Groups[me.cursor + 1] /\ x[2] # Empty
  /\ l = "GRAPH" => /\ x[1] \in Heads(me.read) /\ Below(Heads(me.read), x[1]) = me.cursor
                    /\ x[2] # Empty /\ (x[2] \in Clashing => x[1] \in me.held)
  /\ l \in Listed => x[1] = me.cursor + 1

\* One process.
Apart(l, s, me) ==
  /\ me.phase \in Phases /\ me.cursor \in Nat /\ me.resume \in BOOLEAN
  /\ me.prior # None => Sealed(l, s, me.prior)
  /\ me.resume => l \in Resumable \cup Streamed
  /\ me.resume /\ l \in Directed /\ me.phase \in {"ready", "reading"} => me.prior # None
  /\ me.phase \in {"idle", "ready", "cleared", "reading"} => me.cursor = 0 /\ me.held = {}
  /\ me.phase \in {"idle", "ready", "cleared"} => me.read = <<>> /\ me.total = None
  /\ me.phase = "reading" /\ me.total = None => me.read = <<>>
  /\ l \in Streamed \cup {"MPM"} /\ me.phase = "reading" => me.read = <<>> /\ me.total = None
  /\ l \in Streamed => me.read = <<>>
  /\ l \in Streamed /\ me.phase \notin Begun => me.pages = None
  /\ l \in Streamed => me.size \in Nat \ {0}  \/ me.phase = "idle"
  /\ me.phase \in Begun => Backed(l, s, me.cursor, me.held, Basis(l, me.read)) /\ Covered(l, s, me)
  /\ me.phase = "directory" => me.cursor = 0 /\ l \in Directed
  /\ me.phase = "verifying" => l = "MPM"
  /\ me.phase = "parts" => l = "GRAPH"
  /\ me.phase \in Going => (StepsOf(l, me) # None => me.cursor <= StepsOf(l, me))
  /\ me.phase \in {"fetched", "parts"} => Next1(l, me)
  /\ me.phase \in {"tested", "done"} =>
       /\ StepsOf(l, me) # None /\ me.cursor = StepsOf(l, me)
       /\ l \in Streamed => Cardinality(UNION me.held) = me.total

WorkInv == \A w \in Workers : Apart(lane, stored, worker[w])
SealInv == checkpoint # None => Sealed(lane, stored, checkpoint)

Fields == DOMAIN Idle
RunRecord == [status : {"RUNNING", "SUCCESS", "PARTIAL", "FAILED"}, resume : BOOLEAN, seen : Nat]

SiteInv ==
  /\ lane \in Directed \cup Listed \cup Streamed \cup {"GRAPH", "MPM"}
  /\ DOMAIN content \subseteq Units /\ content \in [DOMAIN content -> Kinds]
  /\ {listing} \cup setting.relists \subseteq Seq(DOMAIN content)
  /\ lane = "MPM" => Range(Groups) \subseteq DOMAIN content
  /\ lane \in Streamed => setting.sizes \subseteq Nat \ {0}
  /\ setting.bounds.drifts \in Nat /\ setting.bounds.crashes \in Nat
  /\ drifts \in 0 .. setting.bounds.drifts /\ crashes \in 0 .. setting.bounds.crashes
  /\ DOMAIN worker = Workers
  /\ \A w \in Workers : /\ DOMAIN worker[w] = Fields
                        /\ worker[w].read \in Seq((DOMAIN content) \X Kinds)

\* A run that is open has one process, and it is the checkpoint's or not.
OwnInv ==
  /\ runs \in Seq(RunRecord)
  /\ checkpoint # None => checkpoint.run \in DOMAIN runs
  /\ \A w \in Workers :
       LET me == worker[w] IN
       /\ me.run \in 0 .. Len(runs)
       /\ me.phase \in {"ready", "cleared"} => me.run = 0
       /\ me.phase \in Begun \cup {"reading"} => me.run # 0
       /\ Active(w) => /\ runs[me.run].status = "RUNNING" /\ runs[me.run].resume = me.resume
                       /\ \A v \in Workers \ {w} : Active(v) => worker[v].run # me.run

\* A checkpoint that a process wrote last says what the process has.
Same(l, k, me) ==
  /\ me.phase \in Going
  /\ k.cursor = me.cursor /\ k.total = StepsOf(l, me)
  /\ l # "GRAPH" => k.held = me.held
  /\ l = "EXECUTIVE" => k.fingerprint = me.read
  /\ l \in Streamed => me.total # None /\ k.fingerprint[1] = me.total

SameInv ==
  \A w \in Workers : checkpoint # None /\ Active(w) /\ checkpoint.run = worker[w].run
    => Same(lane, checkpoint, worker[w])

Something(h) == h \ (Units \X {Empty})

\* A run from the start has seen all that its process holds.
SeenInv ==
  lane = "EXECUTIVE" =>
    \A w \in Workers : Active(w) /\ worker[w].phase \in Begun /\ ~ worker[w].resume
      => runs[worker[w].run].seen >= Cardinality(Something(worker[w].held))

Accepted(l, s, k, run) ==
  /\ k.cursor = k.total
  /\ l = "EXECUTIVE" => k.total = Len(k.fingerprint)
  /\ l = "EXECUTIVE" /\ ~ run.resume => run.seen >= Cardinality(Something(k.held))
  /\ l = "BILLS" => Cardinality(UNION k.held) = k.fingerprint[1]

EndInv ==
  checkpoint # None /\ runs[checkpoint.run].status = "SUCCESS"
    => Accepted(lane, stored, checkpoint, runs[checkpoint.run])

IInv == SiteInv /\ OwnInv /\ WorkInv /\ SealInv /\ SameInv /\ SeenInv /\ EndInv

-----------------------------------------------------------------------------
(* Numbers and finite sets                                                 *)

(* A set of numbers that is not empty has a least one.                     *)
LEMMA LeastOf ==
  ASSUME NEW S \in SUBSET Nat, S # {}
  PROVE  \E x \in S : \A y \in S : x <= y
<1>1. IsWellFoundedOn(OpToRel(<, Nat), Nat)
  BY NatLessThanWellFounded
<1>2. PICK x \in S : \A y \in S : ~ (<<y, x>> \in OpToRel(<, Nat))
  BY <1>1, WFMin, Zenon
<1>3. \A y \in S : ~ (y < x)
  BY <1>2 DEF OpToRel
<1> QED
  BY <1>3

LEMMA MinOf ==
  ASSUME NEW S \in SUBSET Nat, S # {}
  PROVE  Min(S) \in S /\ \A y \in S : Min(S) <= y
<1>1. PICK x \in S : \A y \in S : x <= y
  BY LeastOf
<1> QED
  BY <1>1 DEF Min

(* Of numbers up to n there is a greatest.                                 *)
LEMMA MaxOf ==
  ASSUME NEW n \in Nat, NEW S \in SUBSET (0 .. n), S # {}
  PROVE  Max(S) \in S /\ \A y \in S : Max(S) >= y
<1> DEFINE T == {n - x : x \in S}
<1>1. T \in SUBSET Nat /\ T # {}
  <2>1. \A x \in S : n - x \in Nat
    OBVIOUS
  <2> QED BY <2>1
<1>2. PICK t \in T : \A y \in T : t <= y
  <2> HIDE DEF T
  <2> QED BY <1>1, LeastOf
<1>3. PICK x \in S : t = n - x
  BY <1>2
<1>4. \A y \in S : x >= y
  <2> TAKE y \in S
  <2>1. n - x <= n - y
    BY <1>2, <1>3
  <2> QED BY <2>1
<1>5. x \in S
  BY <1>3
<1>6. \E m \in S : \A y \in S : m >= y
  BY <1>4, <1>5
<1> QED
  BY <1>6 DEF Max

(* What a function makes of the members of a finite set is finite, and as  *)
(* many as there are if it makes no two of them the same.                  *)
LEMMA ImageOf ==
  ASSUME NEW S, IsFiniteSet(S), NEW f, DOMAIN f = S
  PROVE  LET T == {f[x] : x \in S} IN
         /\ IsFiniteSet(T) /\ Cardinality(T) <= Cardinality(S)
         /\ (\A x, y \in S : f[x] = f[y] => x = y) <=> Cardinality(T) = Cardinality(S)
<1> DEFINE T == {f[x] : x \in S}
           g == [x \in S |-> f[x]]
<1>1. g \in Surjection(S, T)
  BY DEF Surjection
<1>2. /\ IsFiniteSet(T) /\ Cardinality(T) <= Cardinality(S)
      /\ Cardinality(T) = Cardinality(S) <=> g \in Injection(S, T)
  BY <1>1, FS_Surjection, Zenon
<1>3. g \in Injection(S, T) <=> \A x, y \in S : f[x] = f[y] => x = y
  BY DEF Injection, IsInjective
<1> QED
  BY <1>2, <1>3

LEMMA PrefixOf ==
  ASSUME NEW p, NEW n \in Nat
  PROVE  IsFiniteSet({p[i] : i \in 1 .. n})
<1> DEFINE f == [i \in 1 .. n |-> p[i]]
<1>1. IsFiniteSet(1 .. n) /\ DOMAIN f = 1 .. n
  BY FS_Interval
<1>2. IsFiniteSet({f[i] : i \in 1 .. n})
  <2> HIDE DEF f
  <2> QED BY <1>1, ImageOf
<1>3. {f[i] : i \in 1 .. n} = {p[i] : i \in 1 .. n}
  OBVIOUS
<1> QED
  BY <1>2, <1>3

(* How many come before a number in a set tells the numbers apart, and     *)
(* every count below the size of the set is that of one of them.           *)
LEMMA Ranks ==
  ASSUME NEW us, us \subseteq Nat, IsFiniteSet(us)
  PROVE  /\ \A u \in us : Below(us, u) \in 0 .. Cardinality(us) - 1
         /\ \A u, v \in us : u < v => Below(us, u) < Below(us, v)
         /\ \A u, v \in us : Below(us, u) = Below(us, v) => u = v
         /\ \A i \in 0 .. Cardinality(us) - 1 : \E u \in us : Below(us, u) = i
<1> DEFINE n == Cardinality(us)
           f == [u \in us |-> Below(us, u)]
<1>0. n \in Nat
  BY FS_CardinalityType
<1>1. ASSUME NEW u \in us
      PROVE  Below(us, u) \in 0 .. n - 1
  <2> DEFINE lower == {v \in us : v < u}
  <2>1. IsFiniteSet(lower) /\ Cardinality(lower) \in Nat
    BY FS_Subset, FS_CardinalityType
  <2>2. lower \subseteq us \ {u}
    OBVIOUS
  <2>3. IsFiniteSet(us \ {u}) /\ Cardinality(us \ {u}) = n - 1
    BY FS_RemoveElement
  <2>4. Cardinality(lower) <= n - 1
    <3> HIDE DEF lower
    <3> QED BY <2>2, <2>3, FS_Subset
  <2> QED BY <2>1, <2>4, <1>0 DEF Below
<1>2. ASSUME NEW u \in us, NEW v \in us, u < v
      PROVE  Below(us, u) < Below(us, v)
  <2> DEFINE a == {x \in us : x < u}
             b == {x \in us : x < v}
  <2>1. IsFiniteSet(a) /\ IsFiniteSet(b) /\ Cardinality(a) \in Nat /\ Cardinality(b) \in Nat
    BY FS_Subset, FS_CardinalityType
  <2>2. a \cup {u} \subseteq b /\ u \notin a
    <3>1. \A x \in us : x \in Nat
      OBVIOUS
    <3>2. \A x \in us : x < u => x < v
      BY <3>1, <1>2
    <3>3. ~ (u < u)
      BY <3>1
    <3> QED BY <3>2, <3>3, <1>2
  <2>3. IsFiniteSet(a \cup {u}) /\ Cardinality(a \cup {u}) = Cardinality(a) + 1
    <3> HIDE DEF a
    <3> QED BY <2>1, <2>2, FS_AddElement
  <2>4. Cardinality(a \cup {u}) <= Cardinality(b)
    <3> HIDE DEF a, b
    <3> QED BY <2>1, <2>2, FS_Subset
  <2>5. Cardinality(a) < Cardinality(b)
    <3> HIDE DEF a, b
    <3> QED BY <2>1, <2>3, <2>4
  <2> QED BY <2>5 DEF Below
<1>3. ASSUME NEW u \in us, NEW v \in us, Below(us, u) = Below(us, v)
      PROVE  u = v
  <2>1. Below(us, u) \in Nat /\ Below(us, v) \in Nat
    BY <1>1
  <2> QED BY <2>1, <1>2, <1>3
<1>4. ASSUME NEW i \in 0 .. n - 1
      PROVE  \E u \in us : Below(us, u) = i
  <2>1. f \in Injection(us, 0 .. n - 1)
    BY <1>1, <1>3 DEF Injection, IsInjective
  <2>2. IsFiniteSet(0 .. n - 1) /\ Cardinality(0 .. n - 1) = n
    BY <1>0, FS_Interval
  <2>3. f \in Surjection(us, 0 .. n - 1)
    <3> HIDE DEF f
    <3> QED BY <2>1, <2>2, FS_Injection
  <2> QED BY <2>3 DEF Surjection
<1> QED
  BY <1>1, <1>2, <1>3, <1>4

-----------------------------------------------------------------------------
(* Universes                                                               *)

LEMMA HeadsOf ==
  ASSUME NEW r, Universe(r)
  PROVE  /\ Len(r) \in Nat /\ DOMAIN r = 1 .. Len(r)
         /\ \A i \in DOMAIN r : r[i] = <<r[i][1], r[i][2]>> /\ r[i][1] \in Units /\ r[i][2] \in Kinds
         /\ Heads(r) \subseteq Nat /\ IsFiniteSet(Heads(r)) /\ Cardinality(Heads(r)) \in Nat
         /\ \A u \in Heads(r) : Places(r, u) \in SUBSET (1 .. Len(r)) /\ Places(r, u) # {}
         /\ (r # <<>> => Len(r) > 0)
<1>1. Len(r) \in Nat /\ DOMAIN r = 1 .. Len(r)
  BY DEF Universe
<1>2. \A i \in DOMAIN r : r[i] = <<r[i][1], r[i][2]>> /\ r[i][1] \in Units /\ r[i][2] \in Kinds
  BY DEF Universe
<1>3. Heads(r) \subseteq Nat
  BY <1>2, UnitsAssumption DEF Heads
<1>4. IsFiniteSet(Heads(r)) /\ Cardinality(Heads(r)) \in Nat
  <2> DEFINE f == [i \in 1 .. Len(r) |-> r[i][1]]
  <2>1. IsFiniteSet(1 .. Len(r))
    BY <1>1, FS_Interval
  <2>2. {f[i] : i \in 1 .. Len(r)} = Heads(r)
    BY <1>1 DEF Heads
  <2>3. IsFiniteSet({f[i] : i \in 1 .. Len(r)})
    <3>1. DOMAIN f = 1 .. Len(r)
      OBVIOUS
    <3> HIDE DEF f
    <3> QED BY <2>1, <3>1, ImageOf
  <2> QED BY <2>2, <2>3, FS_CardinalityType
<1>5. \A u \in Heads(r) : Places(r, u) \in SUBSET (1 .. Len(r)) /\ Places(r, u) # {}
  BY <1>1 DEF Heads, Places
<1>6. r # <<>> => Len(r) > 0
  BY DEF Universe
<1> QED
  BY <1>1, <1>2, <1>3, <1>4, <1>5, <1>6

LEMMA NamesOf ==
  ASSUME NEW r, Universe(r)
  PROVE  /\ Len(Names(r)) = Len(r) /\ \A i \in 1 .. Len(r) : Names(r)[i] = r[i][1]
         /\ Names(r) \in Seq(Units)
         /\ Distinct(r) => \A i, j \in 1 .. Len(r) : Names(r)[i] = Names(r)[j] => i = j
         /\ Heads(r) = {Names(r)[i] : i \in 1 .. Len(r)}
<1>1. Len(r) \in Nat /\ DOMAIN r = 1 .. Len(r)
  BY HeadsOf
<1>2. \A i \in DOMAIN r : r[i][1] \in Units
  BY HeadsOf
<1>3. Names(r) = [i \in 1 .. Len(r) |-> r[i][1]]
  BY <1>1 DEF Names
<1>4. Names(r) \in Seq(Units) /\ Len(Names(r)) = Len(r)
  BY <1>1, <1>2, <1>3
<1> QED
  BY <1>1, <1>3, <1>4 DEF Heads, Distinct

(* The rows of a bill end on one page, those of a meeting begin on one.    *)
LEMMA EndsOf ==
  ASSUME NEW r, Universe(r), NEW u \in Heads(r)
  PROVE  /\ Max(Places(r, u)) \in 1 .. Len(r)
         /\ Min(Places(r, u)) \in 1 .. Len(r)
<1>1. Len(r) \in Nat /\ Places(r, u) \in SUBSET (1 .. Len(r)) /\ Places(r, u) # {}
  BY HeadsOf
<1>2. Max(Places(r, u)) \in Places(r, u)
  <2>1. Places(r, u) \in SUBSET (0 .. Len(r))
    BY <1>1
  <2> QED BY <1>1, <2>1, MaxOf
<1>3. Min(Places(r, u)) \in Places(r, u)
  <2>1. Places(r, u) \in SUBSET Nat
    BY <1>1
  <2> QED BY <1>1, <2>1, MinOf
<1> QED
  BY <1>1, <1>2, <1>3

-----------------------------------------------------------------------------
(* What one step adds                                                      *)

LEMMA ManifestAdds ==
  ASSUME NEW s, NEW t, NEW c, NEW h, NEW p, NEW x,
         Manifest(s, c, h, p), s \subseteq t,
         Len(p) \in Nat, \A i, j \in 1 .. Len(p) : p[i] = p[j] => i = j,
         c < Len(p), x = <<x[1], x[2]>>, x[1] = p[c + 1], x[2] # Empty => x \in t
  PROVE  Manifest(t, c + 1, h \cup {x}, p)
<1>1. c \in Nat /\ c + 1 \in 0 .. Len(p) /\ 1 .. c + 1 = (1 .. c) \cup {c + 1} /\ c + 1 \notin 1 .. c
  BY DEF Manifest
<1>2. \A y \in h : y[1] # x[1]
  <2> SUFFICES ASSUME NEW y \in h, y[1] = x[1] PROVE FALSE
    OBVIOUS
  <2>0. y[1] = p[c + 1]
    OBVIOUS
  <2>1. PICK i \in 1 .. c : y[1] = p[i]
    <3>1. y[1] \in {z[1] : z \in h}
      OBVIOUS
    <3>2. {z[1] : z \in h} = {p[i] : i \in 1 .. c}
      BY DEF Manifest
    <3>3. y[1] \in {p[i] : i \in 1 .. c}
      BY <3>1, <3>2, Zenon
    <3> QED BY <3>3
  <2>2. i = c + 1
    <3>1. i \in 1 .. Len(p) /\ c + 1 \in 1 .. Len(p)
      BY <1>1
    <3>2. p[i] = p[c + 1]
      BY <2>1, <2>0
    <3> QED BY <3>1, <3>2
  <2> QED BY <1>1, <2>1, <2>2
<1>3. x \notin h
  BY <1>2
<1>4. IsFiniteSet(h \cup {x}) /\ Cardinality(h \cup {x}) = c + 1
  BY <1>3, FS_AddElement DEF Manifest
<1>5. {y[1] : y \in h \cup {x}} = {p[i] : i \in 1 .. c + 1}
  <2>1. {y[1] : y \in h \cup {x}} = {y[1] : y \in h} \cup {x[1]}
    OBVIOUS
  <2>2. {p[i] : i \in 1 .. c + 1} = {p[i] : i \in 1 .. c} \cup {p[c + 1]}
    BY <1>1
  <2> QED BY <2>1, <2>2 DEF Manifest
<1>6. \A y, z \in h \cup {x} : y[1] = z[1] => y = z
  BY <1>2 DEF Manifest
<1>7. \A y \in h \cup {x} : y = <<y[1], y[2]>> /\ (y[2] = Empty \/ y \in t)
  BY DEF Manifest
<1> QED
  BY <1>1, <1>4, <1>5, <1>6, <1>7 DEF Manifest

LEMMA TallyAdds ==
  ASSUME NEW s, NEW t, NEW c, NEW h, NEW p, NEW x,
         Tally(s, c, h, p), s \subseteq t,
         Len(p) \in Nat, \A i, j \in 1 .. Len(p) : p[i] = p[j] => i = j,
         c < Len(p), x[1] = p[c + 1], x[2] # Empty => x \in t
  PROVE  Tally(t, c + 1, Counted(h, x), p)
<1> DEFINE a == {u \in {p[i] : i \in 1 .. c} : In(s, u)}
           b == {u \in {p[i] : i \in 1 .. c + 1} : In(t, u)}
           up(n) == {p[i] : i \in 1 .. n}
<1>1. c \in Nat /\ c + 1 \in 0 .. Len(p) /\ 1 .. c + 1 = (1 .. c) \cup {c + 1} /\ c + 1 \notin 1 .. c
  BY DEF Tally
<1>2. IsFiniteSet(up(c)) /\ IsFiniteSet(up(c + 1))
  <2>1. \A n \in Nat : IsFiniteSet({p[i] : i \in 1 .. n})
    BY PrefixOf
  <2>2. \A n \in Nat : IsFiniteSet(up(n))
    BY <2>1
  <2> HIDE DEF up, a, b
  <2> QED BY <1>1, <2>2
<1>3. IsFiniteSet(a) /\ IsFiniteSet(b) /\ Cardinality(a) \in Nat /\ Cardinality(b) \in Nat
  BY <1>2, FS_Subset, FS_CardinalityType
<1>4. a \subseteq b /\ x[1] \notin a
  <2>1. a \subseteq b
    BY <1>1 DEF In
  <2>2. x[1] \notin up(c)
    BY <1>1
  <2> QED BY <2>1, <2>2
<1>5. Cardinality(a) <= Cardinality(b)
  <2> HIDE DEF a, b
  <2> QED BY <1>3, <1>4, FS_Subset
<1>6. CASE x[2] = Empty
  <2>1. Counted(h, x) = [h EXCEPT !.without = @ + 1]
    BY <1>6 DEF Counted
  <2>2. Counted(h, x) = [with |-> h.with, without |-> h.without + 1]
    BY <2>1 DEF Tally
  <2>3. h.with <= Cardinality(b)
    <3> HIDE DEF b
    <3>1. h.with <= Cardinality(a) /\ h.with \in Nat
      BY DEF Tally
    <3> HIDE DEF a
    <3> QED BY <3>1, <1>3, <1>5
  <2>4. h.with \in Nat /\ h.without \in Nat /\ h.with + h.without = c
    BY DEF Tally
  <2> HIDE DEF a
  <2> QED BY <1>1, <2>2, <2>3, <2>4 DEF Tally
<1>7. CASE x[2] # Empty
  <2>1. Counted(h, x) = [h EXCEPT !.with = @ + 1]
    BY <1>7 DEF Counted
  <2>2. Counted(h, x) = [with |-> h.with + 1, without |-> h.without]
    BY <2>1 DEF Tally
  <2>3. a \cup {x[1]} \subseteq b
    BY <1>1, <1>4, <1>7 DEF In
  <2>4. h.with \in Nat /\ h.without \in Nat /\ h.with + h.without = c /\ h.with <= Cardinality(a)
    BY DEF Tally
  <2>5. h.with + 1 <= Cardinality(b)
    <3> HIDE DEF a, b
    <3>1. Cardinality(a \cup {x[1]}) = Cardinality(a) + 1
      BY <1>3, <1>4, FS_AddElement
    <3>2. Cardinality(a \cup {x[1]}) <= Cardinality(b)
      BY <1>3, <2>3, FS_Subset
    <3> QED BY <1>3, <2>4, <3>1, <3>2
  <2> HIDE DEF a
  <2> QED BY <1>1, <2>2, <2>4, <2>5 DEF Tally
<1> QED
  BY <1>6, <1>7

LEMMA GraphedAdds ==
  ASSUME NEW s, NEW t, NEW c, NEW h, NEW us, NEW x,
         Graphed(s, c, h, us), s \subseteq t,
         x[1] \in us, Below(us, x[1]) = c, x \in t, x[2] \in Clashing => x[1] \in h
  PROVE  Graphed(t, c + 1, h, us)
<1>1. /\ us \subseteq Nat /\ IsFiniteSet(us) /\ c \in Nat
      /\ Cardinality(us) \in Nat
  BY FS_CardinalityType DEF Graphed
<1>2. \A u \in us : Below(us, u) \in 0 .. Cardinality(us) - 1
  BY <1>1, Ranks
<1>3. \A u, v \in us : Below(us, u) = Below(us, v) => u = v
  BY <1>1, Ranks
<1>4. c + 1 \in 0 .. Cardinality(us)
  <2>1. c \in 0 .. Cardinality(us) - 1
    BY <1>2
  <2> QED BY <1>1, <2>1
<1>5. ASSUME NEW u \in us, Below(us, u) < c + 1
      PROVE  In(t, u) /\ (u \in h \/ CleanIn(t, u))
  <2>1. CASE Below(us, u) < c
    BY <2>1 DEF Graphed, In, CleanIn
  <2>2. CASE Below(us, u) = c
    <3>1. u = x[1]
      BY <2>2, <1>3
    <3> QED BY <3>1 DEF In, CleanIn
  <2> QED BY <1>1, <1>2, <1>5, <2>1, <2>2
<1> QED
  BY <1>1, <1>4, <1>5 DEF Graphed

LEMMA StreamsAdd ==
  ASSUME NEW s, NEW c, NEW h, NEW x,
         Streams(s, c, h), IsFiniteSet(x), x \notin h,
         \A a, b \in x : a[1] = b[1] => a = b,
         \A a \in x, b \in UNION h : a[1] # b[1]
  PROVE  Streams(s \cup x, c + 1, h \cup {x})
<1>1. IsFiniteSet(h \cup {x}) /\ Cardinality(h \cup {x}) = c + 1
  BY FS_AddElement DEF Streams
<1>2. UNION (h \cup {x}) = (UNION h) \cup x
  OBVIOUS
<1>3. IsFiniteSet((UNION h) \cup x)
  BY FS_Union, Zenon DEF Streams
<1>4. \A a, b \in (UNION h) \cup x : a[1] = b[1] => a = b
  BY DEF Streams
<1> QED
  BY <1>1, <1>2, <1>3, <1>4 DEF Streams

LEMMA ReviewedAdds ==
  ASSUME NEW s, NEW c, NEW h, NEW r,
         Universe(r), Reviewed(s, c, h, PacketsOf(r))
  PROVE  /\ Reviewed(s \cup Anchored(r, c + 1), c + 1, h + Cardinality(Anchored(r, c + 1)), PacketsOf(r))
         /\ IsFiniteSet(Anchored(r, c + 1))
<1> DEFINE f == PacketsOf(r)
           a == {x \in f : Max(x[3]) <= c}
           b == Anchored(r, c + 1)
<1>1. c \in Nat /\ IsFiniteSet(f) /\ a \subseteq s /\ h = Cardinality(a)
  BY DEF Reviewed
<1>2. \A u \in Heads(r) : Packet(r, u)[3] = Places(r, u)
  BY DEF Packet
<1>3. \A u \in Heads(r) : Max(Places(r, u)) \in Nat
  BY EndsOf, HeadsOf
<1>4. \A x \in f : Max(x[3]) \in Nat
  BY <1>2, <1>3 DEF PacketsOf
<1>5. b = {x \in f : Max(x[3]) = c + 1}
  BY <1>2 DEF PacketsOf, Anchored
<1>6. {x \in f : Max(x[3]) <= c + 1} = a \cup b
  <2> HIDE DEF f, b
  <2> QED BY <1>1, <1>4, <1>5
<1>7. a \cap b = {}
  <2> HIDE DEF f, b
  <2> QED BY <1>1, <1>5
<1>8. IsFiniteSet(a) /\ IsFiniteSet(b) /\ Cardinality(a) \in Nat /\ Cardinality(b) \in Nat
  <2> HIDE DEF f, b
  <2> QED BY <1>1, <1>5, FS_Subset, FS_CardinalityType
<1>9. Cardinality(a \cup b) = Cardinality(a) + Cardinality(b)
  <2> HIDE DEF a, b
  <2>1. Cardinality(a \cap b) = 0
    BY <1>7, FS_EmptySet
  <2>2. Cardinality(a \cup b) = Cardinality(a) + Cardinality(b) - Cardinality(a \cap b)
    BY <1>8, FS_Union, Zenon
  <2> QED BY <1>8, <2>1, <2>2
<1>10. a \cup b \subseteq s \cup b /\ c + 1 \in Nat
  BY <1>1
<1> HIDE DEF f, a, b
<1>11. Reviewed(s \cup b, c + 1, h + Cardinality(b), f)
  BY <1>1, <1>6, <1>9, <1>10 DEF Reviewed
<1> QED
  BY <1>8, <1>11 DEF b, f

LEMMA MeetingsAdd ==
  ASSUME NEW s, NEW c \in Nat, NEW r, Universe(r), Opened(r, c) \subseteq s
  PROVE  /\ Opened(r, c + 1) \subseteq s \cup FirstSeen(r, c + 1)
         /\ IsFiniteSet(FirstSeen(r, c + 1))
<1>1. \A u \in Heads(r) : Min(Places(r, u)) \in Nat
  BY EndsOf, HeadsOf
<1>2. \A u \in Heads(r) : Min(Places(r, u)) <= c + 1 => Min(Places(r, u)) <= c \/ Min(Places(r, u)) = c + 1
  BY <1>1
<1>3. Opened(r, c + 1) \subseteq s \cup FirstSeen(r, c + 1)
  BY <1>2 DEF Opened, FirstSeen
<1>4. IsFiniteSet(FirstSeen(r, c + 1))
  <2> DEFINE us == {v \in Heads(r) : Min(Places(r, v)) = c + 1}
             f == [u \in us |-> Meeting(r, u)]
  <2>1. IsFiniteSet(us) /\ DOMAIN f = us
    BY HeadsOf, FS_Subset
  <2>2. IsFiniteSet({f[u] : u \in us})
    <3> HIDE DEF f, us
    <3> QED BY <2>1, ImageOf
  <2>3. {f[u] : u \in us} = FirstSeen(r, c + 1)
    BY DEF FirstSeen
  <2> QED BY <2>2, <2>3
<1> QED
  BY <1>3, <1>4

LEMMA KeptAdds ==
  ASSUME NEW s, NEW c \in Nat, NEW r, Universe(r), Distinct(r),
         Kept(s, c, First(r, c)), c < Len(r)
  PROVE  /\ Kept(s \cup {r[c + 1]}, c + 1, First(r, c + 1))
         /\ First(r, c) \cup {r[c + 1]} = First(r, c + 1)
<1>1. Len(r) \in Nat /\ DOMAIN r = 1 .. Len(r)
  BY HeadsOf
<1>2. 1 .. c + 1 = (1 .. c) \cup {c + 1} /\ c + 1 \notin 1 .. c /\ c + 1 \in 1 .. Len(r)
  BY <1>1
<1>3. r[c + 1] \notin First(r, c)
  <2> SUFFICES ASSUME NEW j \in 1 .. c, r[j] = r[c + 1] PROVE FALSE
    BY DEF First
  <2>1. j \in DOMAIN r /\ c + 1 \in DOMAIN r /\ j # c + 1
    BY <1>1, <1>2
  <2> QED BY <2>1 DEF Distinct
<1>4. First(r, c) \cup {r[c + 1]} = First(r, c + 1)
  BY <1>2 DEF First
<1>5. IsFiniteSet(First(r, c + 1)) /\ Cardinality(First(r, c + 1)) = c + 1
  <2> DEFINE h == First(r, c)
             x == r[c + 1]
  <2>1. IsFiniteSet(h) /\ Cardinality(h) = c
    BY DEF Kept
  <2>2. x \notin h /\ First(r, c + 1) = h \cup {x}
    BY <1>3, <1>4
  <2> HIDE DEF h, x
  <2>3. IsFiniteSet(h \cup {x}) /\ Cardinality(h \cup {x}) = c + 1
    BY <2>1, <2>2, FS_AddElement
  <2> QED BY <2>2, <2>3
<1>6. First(r, c + 1) \subseteq s \cup {r[c + 1]}
  BY <1>4 DEF Kept
<1> QED
  BY <1>4, <1>5, <1>6 DEF Kept

-----------------------------------------------------------------------------
(* Rows that are stored stay stored                                        *)

LEMMA TallyGrows ==
  ASSUME NEW s, NEW t, s \subseteq t, NEW c, NEW h, NEW p, Tally(s, c, h, p), Len(p) \in Nat
  PROVE  Tally(t, c, h, p)
<1> DEFINE up == {p[i] : i \in 1 .. c}
           a == {u \in up : In(s, u)}
           b == {u \in up : In(t, u)}
<1>1. IsFiniteSet(up)
  BY PrefixOf DEF Tally
<1>2. a \subseteq b
  BY DEF In
<1>3. IsFiniteSet(a) /\ IsFiniteSet(b)
  <2> HIDE DEF up
  <2> QED BY <1>1, FS_Subset
<1>4. Cardinality(a) <= Cardinality(b) /\ Cardinality(a) \in Nat /\ Cardinality(b) \in Nat
  <2> HIDE DEF a, b
  <2> QED BY <1>2, <1>3, FS_Subset, FS_CardinalityType
<1>5. h.with <= Cardinality(a) /\ h.with \in Nat
  BY DEF Tally
<1>6. h.with <= Cardinality(b)
  <2> HIDE DEF a, b
  <2> QED BY <1>4, <1>5
<1> QED
  BY <1>6 DEF Tally

LEMMA BackedGrows ==
  ASSUME NEW s, NEW t, s \subseteq t, NEW l, NEW c, NEW h, NEW f, Backed(l, s, c, h, f)
  PROVE  Backed(l, t, c, h, f)
<1>1. \A p : Manifest(s, c, h, p) => Manifest(t, c, h, p)
  BY DEF Manifest
<1>2. \A us : Graphed(s, c, h, us) => Graphed(t, c, h, us)
  BY DEF Graphed, In, CleanIn
<1>3. Reviewed(s, c, h, f) => Reviewed(t, c, h, f)
  BY DEF Reviewed
<1>4. Kept(s, c, h) => Kept(t, c, h)
  BY DEF Kept
<1>5. Streams(s, c, h) => Streams(t, c, h)
  BY DEF Streams
<1>6. Universe(f) /\ Tally(s, c, h, Names(f)) => Tally(t, c, h, Names(f))
  BY TallyGrows, NamesOf, HeadsOf
<1> QED
  BY <1>1, <1>2, <1>3, <1>4, <1>5, <1>6 DEF Backed

LEMMA SealedGrows ==
  ASSUME NEW s, NEW t, s \subseteq t, NEW l, NEW k, Sealed(l, s, k)
  PROVE  Sealed(l, t, k)
<1>1. Backed(l, t, k.cursor, k.held, k.fingerprint)
  BY BackedGrows DEF Sealed
<1> QED
  BY <1>1 DEF Sealed

LEMMA ApartGrows ==
  ASSUME NEW s, NEW t, s \subseteq t, NEW l, NEW me, Apart(l, s, me)
  PROVE  Apart(l, t, me)
<1>1. me.prior # None => Sealed(l, t, me.prior)
  BY SealedGrows DEF Apart
<1>2. me.phase \in Begun => Backed(l, t, me.cursor, me.held, Basis(l, me.read))
  BY BackedGrows DEF Apart
<1>3. me.phase \in Begun => Covered(l, t, me)
  BY DEF Apart, Covered
<1> QED
  BY <1>1, <1>2, <1>3 DEF Apart

-----------------------------------------------------------------------------
(* The step of each lane                                                   *)

Lanes == Directed \cup Listed \cup Streamed \cup {"GRAPH", "MPM"}

LEMMA MeetingNames ==
  ASSUME NEW r
  PROVE  /\ {m[1] : m \in MeetingsOf(r)} = Heads(r)
         /\ \A m, n \in MeetingsOf(r) : m[1] = n[1] => m = n
<1>1. \A u : Meeting(r, u)[1] = u
  BY DEF Meeting
<1> QED
  BY <1>1 DEF MeetingsOf

(* The plan has as many steps as StepsOf says, and each is the one it is.  *)
LEMMA StepsAre ==
  ASSUME NEW me, Universe(me.read), lane \in Lanes
  PROVE  /\ Steps(me) = StepsOf(lane, me)
         /\ lane \notin Streamed => StepsOf(lane, me) \in Nat
         /\ lane \in {"EXECUTIVE", "CORPORATE"} =>
              \A i \in 1 .. Len(me.read) : Plan(me.read)[i] = me.read[i][1]
         /\ lane = "EXPENSE" => Plan(me.read) = Selected
         /\ lane = "MPM" => Plan(me.read) = Groups
         /\ lane = "GRAPH" => \A c \in 0 .. Cardinality(Heads(me.read)) - 1 :
              LET u == Plan(me.read)[c + 1] IN u \in Heads(me.read) /\ Below(Heads(me.read), u) = c
         /\ lane \in Listed => \A i \in 1 .. StepsOf(lane, me) : Plan(me.read)[i] = i
<1> USE DEF Lanes, Directed, Listed, Streamed
<1>0. Len(me.read) \in Nat /\ DOMAIN me.read = 1 .. Len(me.read)
  BY HeadsOf
<1>1. CASE lane \in {"EXECUTIVE", "CORPORATE"}
  <2>1. Plan(me.read) = [i \in 1 .. Len(me.read) |-> me.read[i][1]]
    BY <1>0, <1>1 DEF Plan
  <2> QED BY <1>0, <1>1, <2>1 DEF Steps, StepsOf
<1>2. CASE lane = "EXPENSE"
  BY <1>2, NamedOnce DEF Steps, StepsOf, Plan
<1>3. CASE lane = "MPM"
  BY <1>3, NamedOnce DEF Steps, StepsOf, Plan
<1>4. CASE lane = "GRAPH"
  <2> DEFINE us == Heads(me.read)
  <2>1. us \subseteq Nat /\ IsFiniteSet(us) /\ Cardinality(us) \in Nat
    BY HeadsOf
  <2>2. Plan(me.read) = [i \in 1 .. Cardinality(us) |-> CHOOSE u \in us : Below(us, u) = i - 1]
    BY <1>4 DEF Plan, Ascending
  <2>3. Len(Plan(me.read)) = Cardinality(us)
    <3> HIDE DEF us
    <3> QED BY <2>1, <2>2
  <2>4. ASSUME NEW c \in 0 .. Cardinality(us) - 1
        PROVE  LET u == Plan(me.read)[c + 1] IN u \in us /\ Below(us, u) = c
    <3> HIDE DEF us
    <3>1. \E u \in us : Below(us, u) = c
      BY <2>1, Ranks
    <3>2. Plan(me.read)[c + 1] = CHOOSE u \in us : Below(us, u) = (c + 1) - 1
      BY <2>1, <2>2
    <3>3. (c + 1) - 1 = c
      BY <2>1
    <3> QED BY <3>1, <3>2, <3>3
  <2> QED BY <1>4, <2>1, <2>3, <2>4 DEF Steps, StepsOf
<1>5. CASE lane \in Listed
  <2> DEFINE n == IF me.read = <<>> THEN 1 ELSE Len(me.read)
  <2>1. n \in Nat
    BY <1>0
  <2>2. Plan(me.read) = [i \in 1 .. n |-> i]
    BY <1>5 DEF Plan
  <2>3. Len(Plan(me.read)) = n /\ \A i \in 1 .. n : Plan(me.read)[i] = i
    <3> HIDE DEF n
    <3> QED BY <2>1, <2>2
  <2>4. StepsOf(lane, me) = n
    BY <1>5 DEF StepsOf
  <2> QED BY <1>5, <2>1, <2>3, <2>4 DEF Steps
<1>6. CASE lane \in Streamed
  BY <1>6 DEF Steps, StepsOf
<1> QED
  BY <1>1, <1>2, <1>3, <1>4, <1>5, <1>6

\* The process after the step: the rows are stored, the cursor is one on.
Stepped(me, new) ==
  /\ new.phase = "stepping" /\ new.cursor = me.cursor + 1
  /\ new.held = Held(me.held, me.unit, Rows(me.read, me.unit))
  /\ new.read = me.read /\ new.total = me.total /\ new.pages = me.pages

LEMMA StepKeeps ==
  ASSUME NEW s, NEW me, NEW new, lane \in Lanes, Apart(lane, s, me), Universe(me.read),
         me.phase = IF lane = "GRAPH" THEN "parts" ELSE "fetched", Stepped(me, new)
  PROVE  LET t == s \cup Rows(me.read, me.unit) IN
         /\ Backed(lane, t, new.cursor, new.held, Basis(lane, new.read)) /\ Covered(lane, t, new)
         /\ IsFiniteSet(Rows(me.read, me.unit))
<1> DEFINE r == me.read
           c == me.cursor
           x == me.unit
           rows == Rows(r, x)
           t == s \cup rows
<1>0. /\ Backed(lane, s, c, me.held, Basis(lane, r)) /\ Covered(lane, s, me) /\ Next1(lane, me)
      /\ c \in Nat /\ s \subseteq t
      /\ new.read = r /\ new.cursor = c + 1 /\ new.phase = "stepping"
      /\ new.held = Held(me.held, x, rows)
  BY DEF Apart, Begun, Stepped
<1>00. Len(r) \in Nat /\ DOMAIN r = 1 .. Len(r)
  BY HeadsOf
<1> USE DEF Lanes, Directed, Listed, Streamed
<1>1. CASE lane \in {"EXECUTIVE", "CORPORATE", "EXPENSE", "MPM", "GRAPH"}
  <2>1. rows = {x} \ (Units \X {Empty})
    BY <1>1 DEF Rows
  <2>2. x = <<x[1], x[2]>> /\ (x[2] # Empty => x \in t)
    <3>1. x = <<x[1], x[2]>>
      BY <1>0, <1>1 DEF Next1
    <3>2. x[2] # Empty => x \notin Units \X {Empty}
      OBVIOUS
    <3> QED BY <2>1, <3>1, <3>2
  <2>3. IsFiniteSet(rows)
    <3>1. rows \subseteq {x} /\ IsFiniteSet({x})
      BY <2>1, FS_Singleton
    <3> HIDE DEF rows, x
    <3> QED BY <3>1, FS_Subset
  <2> HIDE DEF rows, t
  <2>4. CASE lane = "EXECUTIVE"
    <3>1. c < Len(r) /\ x[1] = r[c + 1][1] /\ new.held = me.held \cup {x} /\ Basis(lane, r) = r
      BY <1>0, <2>4 DEF Next1, StepsOf, Held, Disclosure, Basis
    <3>2. Executives(r) /\ Manifest(s, c, me.held, Names(r)) /\ Distinct(r)
      BY <1>0, <2>4, <3>1 DEF Backed, Executives, ExecutiveDirectory
    <3>3. /\ Len(Names(r)) = Len(r)
          /\ \A i, j \in 1 .. Len(r) : Names(r)[i] = Names(r)[j] => i = j
          /\ Names(r)[c + 1] = r[c + 1][1]
      <4>1. c + 1 \in 1 .. Len(r)
        BY <1>0, <1>00, <3>1
      <4> QED BY <3>2, <4>1, NamesOf
    <3>4. Manifest(t, c + 1, me.held \cup {x}, Names(r))
      <4> HIDE DEF r, c, x
      <4> QED BY <1>0, <1>00, <2>2, <3>1, <3>2, <3>3, ManifestAdds
    <3>5. Backed(lane, t, new.cursor, new.held, Basis(lane, new.read))
      BY <1>0, <2>4, <3>1, <3>2, <3>4 DEF Backed
    <3>6. Covered(lane, t, new)
      BY <2>4 DEF Covered
    <3> QED BY <2>3, <3>5, <3>6 DEF t, rows
  <2>5. CASE lane = "CORPORATE"
    <3>1. c < Len(r) /\ x[1] = r[c + 1][1] /\ new.held = Counted(me.held, x) /\ Basis(lane, r) = r
      BY <1>0, <2>5 DEF Next1, StepsOf, Held, Basis
    <3>2. Corporations(r) /\ Tally(s, c, me.held, Names(r)) /\ Distinct(r)
      BY <1>0, <2>5, <3>1 DEF Backed, Corporations, CorporateDirectory
    <3>3. /\ Len(Names(r)) = Len(r)
          /\ \A i, j \in 1 .. Len(r) : Names(r)[i] = Names(r)[j] => i = j
          /\ Names(r)[c + 1] = r[c + 1][1]
      <4>1. c + 1 \in 1 .. Len(r)
        BY <1>0, <1>00, <3>1
      <4> QED BY <3>2, <4>1, NamesOf
    <3>4. Tally(t, c + 1, Counted(me.held, x), Names(r))
      <4> HIDE DEF r, c, x
      <4> QED BY <1>0, <1>00, <2>2, <3>1, <3>2, <3>3, TallyAdds
    <3>5. Backed(lane, t, new.cursor, new.held, Basis(lane, new.read))
      BY <1>0, <2>5, <3>1, <3>2, <3>4 DEF Backed
    <3>6. Covered(lane, t, new)
      BY <2>5 DEF Covered
    <3> QED BY <2>3, <3>5, <3>6 DEF t, rows
  <2>6. CASE lane = "EXPENSE"
    <3>1. /\ c < Len(Selected) /\ x[1] = Selected[c + 1] /\ x \in Range(r) /\ x[2] # Empty
          /\ new.held = me.held \cup {x} /\ Basis(lane, r) = r
      BY <1>0, <2>6 DEF Next1, StepsOf, Held, Expense, Basis
    <3>2. /\ Expenses(r) /\ Manifest(s, c, me.held, Selected) /\ me.held \subseteq Range(r)
          /\ \A y \in me.held : y[2] # Empty
      BY <1>0, <2>6, <3>1 DEF Backed
    <3>3. /\ Len(Selected) \in Nat
          /\ \A i, j \in 1 .. Len(Selected) : Selected[i] = Selected[j] => i = j
      BY NamedOnce DEF IsInjective
    <3>4. Manifest(t, c + 1, me.held \cup {x}, Selected)
      <4> HIDE DEF r, c, x
      <4> QED BY <1>0, <2>2, <3>1, <3>2, <3>3, ManifestAdds
    <3>5. Backed(lane, t, new.cursor, new.held, Basis(lane, new.read))
      BY <1>0, <2>6, <3>1, <3>2, <3>4 DEF Backed
    <3>6. Covered(lane, t, new)
      BY <2>6 DEF Covered
    <3> QED BY <2>3, <3>5, <3>6 DEF t, rows
  <2>7. CASE lane = "MPM"
    <3>1. /\ c < Len(Groups) /\ x[1] = Groups[c + 1] /\ x[2] # Empty
          /\ new.held = me.held \cup {x}
      BY <1>0, <2>7 DEF Next1, StepsOf, Held, Attachment
    <3>2. Manifest(s, c, me.held, Groups) /\ \A y \in me.held : y[2] # Empty
      BY <1>0, <2>7, <3>1 DEF Backed
    <3>3. /\ Len(Groups) \in Nat
          /\ \A i, j \in 1 .. Len(Groups) : Groups[i] = Groups[j] => i = j
      BY NamedOnce DEF IsInjective
    <3>4. Manifest(t, c + 1, me.held \cup {x}, Groups)
      <4> HIDE DEF r, c, x
      <4> QED BY <1>0, <2>2, <3>1, <3>2, <3>3, ManifestAdds
    <3>5. Backed(lane, t, new.cursor, new.held, Basis(lane, new.read))
      BY <1>0, <2>7, <3>1, <3>2, <3>4 DEF Backed
    <3>6. Covered(lane, t, new)
      BY <1>0, <2>7, <3>1 DEF Covered, Going
    <3> QED BY <2>3, <3>5, <3>6 DEF t, rows
  <2>8. CASE lane = "GRAPH"
    <3>1. /\ x[1] \in Heads(r) /\ Below(Heads(r), x[1]) = c /\ x[2] # Empty
          /\ x[2] \in Clashing => x[1] \in me.held
          /\ Basis(lane, r) = MeetingsOf(r)
      BY <1>0, <2>8 DEF Next1, Basis
    <3>2. new.held = me.held
      BY <1>0, <2>8, <3>1 DEF Held, Conflicts
    <3>3. {m[1] : m \in MeetingsOf(r)} = Heads(r)
      BY MeetingNames
    <3>4. Graphed(s, c, me.held, Heads(r)) /\ \A m, n \in MeetingsOf(r) : m[1] = n[1] => m = n
      BY <1>0, <2>8, <3>1, <3>3 DEF Backed
    <3>5. Graphed(t, c + 1, me.held, Heads(r))
      <4> HIDE DEF r, c, x
      <4> QED BY <1>0, <2>2, <3>1, <3>4, GraphedAdds
    <3>6. Backed(lane, t, new.cursor, new.held, Basis(lane, new.read))
      BY <1>0, <2>8, <3>1, <3>2, <3>3, <3>4, <3>5 DEF Backed
    <3>7. Covered(lane, t, new)
      BY <2>8 DEF Covered
    <3> QED BY <2>3, <3>6, <3>7 DEF t, rows
  <2> QED BY <1>1, <2>4, <2>5, <2>6, <2>7, <2>8
<1>2. CASE lane = "REVIEW"
  <2>1. x[1] = c + 1 /\ rows = Anchored(r, c + 1) /\ Basis(lane, r) = PacketsOf(r)
    BY <1>0, <1>2 DEF Next1, Rows, Basis
  <2>2. new.held = me.held + Cardinality(rows)
    BY <1>0, <1>2 DEF Held, Packets
  <2>3. Reviewed(s, c, me.held, PacketsOf(r))
    BY <1>0, <1>2, <2>1 DEF Backed
  <2>4. /\ Reviewed(t, c + 1, me.held + Cardinality(rows), PacketsOf(r))
        /\ IsFiniteSet(rows)
    BY <2>1, <2>3, ReviewedAdds
  <2>5. Backed(lane, t, new.cursor, new.held, Basis(lane, new.read))
    <3> HIDE DEF t, rows
    <3> QED BY <1>0, <1>2, <2>1, <2>2, <2>4 DEF Backed
  <2>6. Covered(lane, t, new)
    BY <1>2 DEF Covered
  <2> QED BY <2>4, <2>5, <2>6
<1>3. CASE lane = "MEETINGS"
  <2>1. rows = FirstSeen(r, c + 1)
    BY <1>0, <1>3 DEF Next1, Rows
  <2>2. Opened(r, c) \subseteq s
    BY <1>0, <1>3 DEF Covered
  <2>3. Opened(r, c + 1) \subseteq t /\ IsFiniteSet(rows)
    BY <1>0, <2>1, <2>2, MeetingsAdd
  <2>4. Backed(lane, t, new.cursor, new.held, Basis(lane, new.read))
    BY <1>3 DEF Backed
  <2>5. Covered(lane, t, new)
    <3> HIDE DEF t, rows
    <3> QED BY <1>0, <1>3, <2>3 DEF Covered
  <2> QED BY <2>3, <2>4, <2>5
<1>4. CASE lane \in {"MEMBERS", "BIOGRAPHY"}
  <2>1. Distinct(r) /\ r # <<>> /\ me.held = First(r, c) /\ Kept(s, c, me.held)
    BY <1>0, <1>4 DEF Covered, Backed
  <2>2. x[1] = c + 1 /\ c < Len(r)
    BY <1>0, <1>4, <2>1 DEF Next1, StepsOf
  <2>3. rows = {r[c + 1]}
    <3>1. c + 1 \in DOMAIN r
      BY <1>0, <1>00, <2>2
    <3>2. rows = ListRow(r, c + 1)
      BY <1>4, <2>2 DEF Rows
    <3> QED BY <3>1, <3>2 DEF ListRow
  <2>4. new.held = me.held \cup {r[c + 1]}
    BY <1>0, <1>4, <2>3 DEF Held, Membership, Biography
  <2>5. /\ Kept(t, c + 1, new.held) /\ new.held = First(r, c + 1)
    <3>1. t = s \cup {r[c + 1]}
      BY <2>3
    <3> HIDE DEF r, c, x, rows, t
    <3>2. Universe(r)
      BY DEF r
    <3>3. /\ Kept(s \cup {r[c + 1]}, c + 1, First(r, c + 1))
          /\ First(r, c) \cup {r[c + 1]} = First(r, c + 1)
      <4>1. c \in Nat /\ c < Len(r) /\ Distinct(r) /\ Kept(s, c, First(r, c))
        BY <1>0, <2>1, <2>2
      <4> QED BY <3>2, <4>1, KeptAdds
    <3> QED BY <2>1, <2>4, <3>1, <3>3
  <2>6. IsFiniteSet(rows)
    BY <2>3, FS_Singleton
  <2>7. Backed(lane, t, new.cursor, new.held, Basis(lane, new.read))
    <3> HIDE DEF t, rows
    <3> QED BY <1>0, <1>4, <2>5 DEF Backed
  <2>8. Covered(lane, t, new)
    <3>1. new.held = First(new.read, new.cursor) /\ Distinct(new.read) /\ new.read # <<>>
      BY <1>0, <2>1, <2>5
    <3> HIDE DEF t, rows
    <3> QED BY <1>4, <3>1 DEF Covered
  <2> QED BY <2>6, <2>7, <2>8
<1>5. CASE lane \in Streamed
  <2>1. rows = x /\ new.held = me.held \cup {x}
    BY <1>0, <1>5 DEF Rows, Held, PageSeen
  <2>2. /\ IsFiniteSet(x) /\ x \notin me.held
        /\ \A a, b \in x : a[1] = b[1] => a = b
        /\ \A a \in x, b \in UNION me.held : a[1] # b[1]
        /\ me.pages # None
    BY <1>0, <1>5 DEF Next1
  <2>3. Streams(s, c, me.held)
    BY <1>0, <1>5 DEF Backed
  <2>4. Streams(t, c + 1, me.held \cup {x})
    <3> HIDE DEF x, c
    <3> QED BY <2>1, <2>2, <2>3, StreamsAdd
  <2>5. Backed(lane, t, new.cursor, new.held, Basis(lane, new.read))
    <3> HIDE DEF t, rows
    <3> QED BY <1>0, <1>5, <2>1, <2>4 DEF Backed
  <2>6. Covered(lane, t, new)
    BY <1>0, <1>5, <2>2 DEF Covered, Stepped
  <2> QED BY <2>1, <2>2, <2>5, <2>6
<1> QED
  BY <1>1, <1>2, <1>3, <1>4, <1>5

-----------------------------------------------------------------------------
(* What an action makes of its process                                     *)

LEMMA FieldsAre ==
  Fields = {"phase", "resume", "budget", "size", "prior", "run", "read", "total", "pages",
            "cursor", "held", "unit", "committed", "steps"}
BY DEF Fields, Idle

Only(w) == DOMAIN worker' = Workers /\ \A v \in Workers \ {w} : worker'[v] = worker[v]
Who(new, me) == DOMAIN new = Fields /\ new.run = me.run /\ new.resume = me.resume /\ new.size = me.size
What(new, me) == new.read = me.read /\ new.total = me.total /\ new.pages = me.pages
Where(new, me) == new.cursor = me.cursor /\ new.held = me.held
Blank(new) ==
  /\ DOMAIN new = Fields
  /\ new.phase = "idle" /\ new.resume \in BOOLEAN /\ ~ new.resume /\ new.prior = None /\ new.run = 0 /\ new.read = <<>>
  /\ new.total = None /\ new.pages = None /\ new.cursor = 0 /\ new.held = {}

LEMMA IdleIs == Blank(Idle)
BY DEF Blank, Idle, Fields

\* A process is idle, reads, or goes on with what it has read.
LEMMA ReadCheckpointDoes ==
  ASSUME SiteInv, NEW w \in Workers, ReadCheckpoint(w)
  PROVE  LET me == worker[w]
             new == worker'[w] IN
         /\ Only(w) /\ DOMAIN new = Fields /\ me.phase = "idle" /\ new.phase = "ready"
         /\ new.resume \in BOOLEAN /\ (new.resume => lane \in Resumable \cup Streamed)
         /\ new.resume /\ lane \in Directed => checkpoint # None
         /\ new.prior \in {None, checkpoint} /\ (new.resume => new.prior = checkpoint)
         /\ new.size \in setting.sizes /\ new.run = 0
         /\ new.read = <<>> /\ new.total = None /\ new.pages = None /\ new.cursor = 0 /\ new.held = {}
<1>0. DOMAIN worker = Workers /\ worker[w].phase = "idle"
  BY DEF ReadCheckpoint, SiteInv
<1>1. PICK resume \in (IF lane \in Resumable \cup Streamed THEN BOOLEAN ELSE {FALSE}),
           budget \in setting.budgets, size \in setting.sizes :
        /\ resume /\ lane \in Directed \cup {"CODES"} => checkpoint # None
        /\ worker' = [worker EXCEPT ![w] =
             [Idle EXCEPT !.phase = "ready", !.resume = resume, !.budget = budget, !.size = size,
                          !.prior = IF resume THEN checkpoint ELSE None,
                          !.committed = lane = "CODES" /\ checkpoint # None]]
  BY DEF ReadCheckpoint
<1>2. resume \in BOOLEAN /\ (resume => lane \in Resumable \cup Streamed)
  OBVIOUS
<1>3. Only(w)
  BY <1>0, <1>1 DEF Only
<1>4. worker'[w] = [Idle EXCEPT !.phase = "ready", !.resume = resume, !.budget = budget, !.size = size,
                          !.prior = IF resume THEN checkpoint ELSE None,
                          !.committed = lane = "CODES" /\ checkpoint # None]
  BY <1>0, <1>1
<1>5. /\ DOMAIN worker'[w] = Fields /\ worker'[w].phase = "ready" /\ worker'[w].resume = resume
      /\ worker'[w].prior = (IF resume THEN checkpoint ELSE None) /\ worker'[w].size = size
      /\ worker'[w].run = 0 /\ worker'[w].read = <<>> /\ worker'[w].total = None
      /\ worker'[w].pages = None /\ worker'[w].cursor = 0 /\ worker'[w].held = {}
  BY <1>4, FieldsAre, IdleIs DEF Blank
<1> QED
  BY <1>0, <1>1, <1>2, <1>3, <1>5

LEMMA ReadRunsDoes ==
  ASSUME SiteInv, NEW w \in Workers, ReadRuns(w)
  PROVE  LET me == worker[w]
             new == worker'[w] IN
         /\ Only(w) /\ me.phase = "ready" /\ lane = "CODES"
         /\ \/ Blank(new)
            \/ /\ new.phase = "cleared" /\ Who(new, me) /\ What(new, me) /\ Where(new, me)
               /\ new.prior = me.prior
<1>1. worker'[w] = Idle \/ worker'[w] = [worker[w] EXCEPT !.phase = "cleared"]
  BY DEF ReadRuns, SiteInv
<1>2. Only(w) /\ worker[w].phase = "ready" /\ lane = "CODES" /\ DOMAIN worker[w] = Fields
  BY DEF ReadRuns, SiteInv, Only
<1> QED
  BY <1>1, <1>2, FieldsAre, IdleIs DEF Who, What, Where

LEMMA StartRunDoes ==
  ASSUME SiteInv, NEW w \in Workers, StartRun(w)
  PROVE  LET me == worker[w]
             new == worker'[w] IN
         /\ Only(w) /\ me.phase \in {"ready", "cleared"} /\ new.phase = "reading"
         /\ (me.phase = "cleared" => lane = "CODES")
         /\ DOMAIN new = Fields /\ new.run = Len(runs) + 1 /\ new.resume = me.resume /\ new.size = me.size
         /\ What(new, me) /\ Where(new, me) /\ new.prior = me.prior
BY FieldsAre DEF StartRun, SiteInv, Only, What, Where

LEMMA ReadDirectoryDoes ==
  ASSUME SiteInv, NEW w \in Workers, ReadDirectory(w)
  PROVE  LET me == worker[w]
             new == worker'[w] IN
         /\ Only(w) /\ me.phase = "reading" /\ new.phase = "reading" /\ lane \in Directed
         /\ new.total = Len(listing) /\ new.read = Entries
         /\ Who(new, me) /\ Where(new, me) /\ new.prior = me.prior /\ new.pages = me.pages
BY FieldsAre DEF ReadDirectory, SiteInv, Only, Who, Where

LEMMA ReadPageDoes ==
  ASSUME SiteInv, NEW w \in Workers, ReadPage(w)
  PROVE  LET me == worker[w]
             new == worker'[w] IN
         /\ Only(w) /\ me.phase = "reading" /\ new.phase = "reading" /\ lane \in Listed \cup {"GRAPH"}
         /\ new.total = Len(listing)
         /\ me.total \in {None, Len(listing)} /\ (me.total # None => Len(me.read) < me.total)
         /\ new.read = me.read \o (IF listing = <<>> THEN <<>> ELSE <<Entry(Len(me.read) + 1)>>)
         /\ Who(new, me) /\ Where(new, me) /\ new.prior = me.prior /\ new.pages = me.pages
<1> DEFINE me == worker[w]
           new == worker'[w]
           page == IF listing = <<>> THEN <<>> ELSE <<Entry(Len(me.read) + 1)>>
<1>0. DOMAIN worker = Workers /\ DOMAIN me = Fields
  BY DEF SiteInv
<1>1. /\ lane \in Listed \cup {"GRAPH"} /\ me.phase = "reading"
      /\ me.total \in {None, Len(listing)} /\ (me.total # None => Len(me.read) < me.total)
  BY DEF ReadPage
<1>2. worker' = [worker EXCEPT ![w].total = Len(listing), ![w].read = @ \o page]
  BY DEF ReadPage
<1> HIDE DEF page
<1>3. Only(w)
  BY <1>0, <1>2 DEF Only
<1>4. new = [me EXCEPT !.total = Len(listing), !.read = @ \o page]
  BY <1>0, <1>2
<1> HIDE DEF new, me
<1>5. /\ new.phase = me.phase /\ new.total = Len(listing) /\ new.read = me.read \o page
      /\ DOMAIN new = Fields /\ new.run = me.run /\ new.resume = me.resume /\ new.size = me.size
      /\ new.cursor = me.cursor /\ new.held = me.held /\ new.prior = me.prior /\ new.pages = me.pages
  BY <1>0, <1>4, FieldsAre
<1> QED
  BY <1>1, <1>3, <1>5 DEF page, me, new, Who, Where

LEMMA BeginDoes ==
  ASSUME SiteInv, NEW w \in Workers, Begin(w)
  PROVE  LET me == worker[w]
             new == worker'[w] IN
         /\ Only(w) /\ me.phase = "reading" /\ Sound(me.read) /\ UniverseRead(me)
         /\ Who(new, me) /\ What(new, me)
         /\ \/ /\ me.resume /\ ~Afresh(me) /\ Resumes(me.prior, me.read) /\ new.prior = None
               /\ new.phase = IF lane = "MPM" THEN "verifying" ELSE "stepping"
               /\ new.cursor = me.prior.cursor /\ new.held = me.prior.held
            \/ /\ ~me.resume \/ Afresh(me)
               /\ new.phase = IF lane \in Directed THEN "directory" ELSE "stepping"
               /\ new.cursor = me.cursor /\ new.held = Nothing /\ new.prior = me.prior
<1>0. DOMAIN worker = Workers /\ DOMAIN worker[w] = Fields
  BY DEF SiteInv
<1>1. /\ worker[w].phase = "reading" /\ Sound(worker[w].read) /\ UniverseRead(worker[w])
  BY DEF Begin
<1>2. CASE worker[w].resume /\ ~Afresh(worker[w])
  <2>1. /\ Resumes(worker[w].prior, worker[w].read)
        /\ worker' = [worker EXCEPT ![w].phase = IF lane = "MPM" THEN "verifying" ELSE "stepping",
                        ![w].cursor = worker[w].prior.cursor, ![w].held = worker[w].prior.held, ![w].prior = None]
    BY <1>2 DEF Begin
  <2> QED BY <1>0, <1>1, <1>2, <2>1, FieldsAre DEF Only, Who, What
<1>3. CASE ~worker[w].resume \/ Afresh(worker[w])
  <2>1. worker' = [worker EXCEPT ![w].phase = IF lane \in Directed THEN "directory" ELSE "stepping",
                        ![w].held = Nothing]
    BY <1>3 DEF Begin
  <2> QED BY <1>0, <1>1, <1>3, <2>1, FieldsAre DEF Only, Who, What
<1> QED
  BY <1>2, <1>3

LEMMA BeginStreamDoes ==
  ASSUME SiteInv, NEW w \in Workers, BeginStream(w)
  PROVE  LET me == worker[w]
             new == worker'[w] IN
         /\ Only(w) /\ me.phase = "reading" /\ lane \in Streamed /\ new.phase = "stepping"
         /\ Who(new, me) /\ new.read = me.read /\ new.prior = None
         /\ \/ /\ me.prior # None /\ StreamResumes(me.prior, me.size)
               /\ new.cursor = me.prior.cursor /\ new.held = me.prior.held
               /\ new.total = me.prior.fingerprint[1] /\ new.pages = me.prior.total
            \/ /\ me.prior = None
               /\ What(new, me) /\ Where(new, me)
BY FieldsAre DEF BeginStream, SiteInv, Only, Who, What, Where

LEMMA CommitDirectoryDoes ==
  ASSUME SiteInv, NEW w \in Workers, CommitDirectory(w)
  PROVE  LET me == worker[w]
             new == worker'[w] IN
         /\ Only(w) /\ me.phase = "directory" /\ new.phase = "stepping"
         /\ Who(new, me) /\ What(new, me) /\ Where(new, me) /\ new.prior = me.prior
         /\ Page(w, {}, 0, Nothing)
BY FieldsAre DEF CommitDirectory, SiteInv, Only, Who, What, Where

LEMMA VerifyDoes ==
  ASSUME SiteInv, NEW w \in Workers, Verify(w)
  PROVE  LET me == worker[w]
             new == worker'[w]
             n == Len(me.read) + 1 IN
         /\ Only(w) /\ me.phase = "verifying"
         /\ new.phase = IF n = me.cursor THEN "stepping" ELSE "verifying"
         /\ <<Groups[n], content[Groups[n]]>> \in me.held
         /\ new.read = Append(me.read, <<Groups[n], content[Groups[n]]>>)
         /\ Who(new, me) /\ Where(new, me) /\ new.prior = me.prior
         /\ new.total = me.total /\ new.pages = me.pages
BY FieldsAre DEF Verify, SiteInv, Only, Who, Where

LEMMA FetchDoes ==
  ASSUME SiteInv, NEW w \in Workers, Fetch(w)
  PROVE  LET me == worker[w]
             new == worker'[w]
             u == Plan(me.read)[me.cursor + 1]
             x == <<u, Answer(me, u)>> IN
         /\ Only(w) /\ lane \notin Streamed /\ Left(me) /\ Usable(me.held, x)
         /\ new.phase = "fetched" /\ new.unit = x
         /\ new.read = IF lane = "MPM" THEN Append(me.read, x) ELSE me.read
         /\ new.held = IF lane = "GRAPH" THEN Conflicts(me.held, x) ELSE me.held
         /\ Who(new, me) /\ new.prior = me.prior /\ new.cursor = me.cursor
         /\ new.total = me.total /\ new.pages = me.pages
<1> DEFINE me == worker[w]
           new == worker'[w]
           x == <<Plan(me.read)[me.cursor + 1], Answer(me, Plan(me.read)[me.cursor + 1])>>
           read == IF lane = "MPM" THEN Append(me.read, x) ELSE me.read
           held == IF lane = "GRAPH" THEN Conflicts(me.held, x) ELSE me.held
<1>0. DOMAIN worker = Workers /\ DOMAIN me = Fields
  BY DEF SiteInv
<1>1. lane \notin Streamed /\ Left(me) /\ Usable(me.held, x)
  BY DEF Fetch
<1>2. worker' = [worker EXCEPT ![w].phase = "fetched", ![w].unit = x,
                               ![w].read = IF lane = "MPM" THEN Append(@, x) ELSE @,
                               ![w].held = IF lane = "GRAPH" THEN Conflicts(@, x) ELSE @]
  BY DEF Fetch
<1> HIDE DEF x
<1>3. Only(w)
  BY <1>0, <1>2 DEF Only
<1>4. new = [me EXCEPT !.phase = "fetched", !.unit = x,
                       !.read = IF lane = "MPM" THEN Append(@, x) ELSE @,
                       !.held = IF lane = "GRAPH" THEN Conflicts(@, x) ELSE @]
  BY <1>0, <1>2
<1> HIDE DEF new, me
<1>5. /\ new.phase = "fetched" /\ new.unit = x /\ new.read = read /\ new.held = held
      /\ DOMAIN new = Fields /\ new.run = me.run /\ new.resume = me.resume /\ new.size = me.size
      /\ new.prior = me.prior /\ new.cursor = me.cursor /\ new.total = me.total /\ new.pages = me.pages
  BY <1>0, <1>4, FieldsAre
<1> QED
  BY <1>1, <1>3, <1>5 DEF x, me, new, Who

LEMMA FetchPageDoes ==
  ASSUME SiteInv, NEW w \in Workers, FetchPage(w)
  PROVE  LET me == worker[w]
             new == worker'[w]
             page == PageAt(me.cursor + 1, me.size) IN
         /\ Only(w) /\ lane \in Streamed /\ Left(me) /\ Continues(me, page, Len(listing))
         /\ new.phase = "fetched" /\ new.unit = Range(page)
         /\ new.total = Len(listing) /\ new.pages = PagesOf(Len(listing), me.size)
         /\ Who(new, me) /\ Where(new, me) /\ new.prior = me.prior /\ new.read = me.read
BY FieldsAre DEF FetchPage, SiteInv, Only, Who, Where

LEMMA CommitPartDoes ==
  ASSUME SiteInv, NEW w \in Workers, CommitPart(w)
  PROVE  LET me == worker[w]
             new == worker'[w] IN
         /\ Only(w) /\ lane = "GRAPH" /\ me.phase \in {"fetched", "parts"} /\ new.phase = "parts"
         /\ Who(new, me) /\ What(new, me) /\ Where(new, me) /\ new.prior = me.prior /\ new.unit = me.unit
         /\ Page(w, {}, me.cursor, me.held)
BY FieldsAre DEF CommitPart, SiteInv, Only, Who, What, Where

LEMMA CommitStepDoes ==
  ASSUME SiteInv, NEW w \in Workers, CommitStep(w)
  PROVE  LET me == worker[w]
             new == worker'[w]
             rows == Rows(me.read, me.unit) IN
         /\ Only(w) /\ me.phase = (IF lane = "GRAPH" THEN "parts" ELSE "fetched")
         /\ Stepped(me, new) /\ Who(new, me) /\ new.prior = me.prior
         /\ Page(w, rows, me.cursor + 1, new.held)
<1> DEFINE me == worker[w]
           new == worker'[w]
           rows == Rows(me.read, me.unit)
           held == Held(me.held, me.unit, rows)
<1>0. DOMAIN worker = Workers /\ DOMAIN me = Fields
  BY DEF SiteInv
<1>1. me.phase = (IF lane = "GRAPH" THEN "parts" ELSE "fetched") /\ Page(w, rows, me.cursor + 1, held)
  BY DEF CommitStep
<1>2. worker' = [worker EXCEPT ![w].phase = "stepping", ![w].cursor = @ + 1, ![w].held = held,
                   ![w].unit = None, ![w].committed = TRUE,
                   ![w].steps = IF me.budget = None THEN 0 ELSE @ + 1]
  BY DEF CommitStep
<1> HIDE DEF rows, held
<1>3. Only(w)
  BY <1>0, <1>2 DEF Only
<1>4. new = [me EXCEPT !.phase = "stepping", !.cursor = @ + 1, !.held = held, !.unit = None,
                       !.committed = TRUE, !.steps = IF me.budget = None THEN 0 ELSE @ + 1]
  BY <1>0, <1>2
<1> HIDE DEF new, me
<1>5. /\ new.phase = "stepping" /\ new.cursor = me.cursor + 1 /\ new.held = held
      /\ DOMAIN new = Fields /\ new.run = me.run /\ new.resume = me.resume /\ new.size = me.size
      /\ new.prior = me.prior /\ new.read = me.read /\ new.total = me.total /\ new.pages = me.pages
  BY <1>0, <1>4, FieldsAre
<1>6. Page(w, rows, me.cursor + 1, new.held)
  BY <1>1, <1>5
<1> QED
  BY <1>1, <1>3, <1>5, <1>6 DEF rows, held, me, new, Who, Stepped

LEMMA TestDoes ==
  ASSUME SiteInv, NEW w \in Workers, Test(w)
  PROVE  LET me == worker[w]
             new == worker'[w] IN
         /\ Only(w) /\ me.phase = "stepping" /\ ~Left(me) /\ Whole(me) /\ new.phase = "tested"
         /\ Who(new, me) /\ What(new, me) /\ Where(new, me) /\ new.prior = me.prior
BY FieldsAre DEF Test, SiteInv, Only, Who, What, Where

LEMMA FinishDoes ==
  ASSUME SiteInv, NEW w \in Workers, Finish(w)
  PROVE  LET me == worker[w]
             new == worker'[w] IN
         /\ Only(w)
         /\ \/ /\ me.phase = "tested" /\ new.phase = "done"
               /\ Who(new, me) /\ What(new, me) /\ Where(new, me) /\ new.prior = me.prior
               /\ runs' = [runs EXCEPT ![me.run].status = "SUCCESS"]
            \/ /\ me.phase = "stepping" /\ Blank(new)
               /\ runs' = [runs EXCEPT ![me.run].status = "PARTIAL"]
<1>1. CASE worker[w].phase = "tested"
  BY <1>1, FieldsAre DEF Finish, Outcome, SiteInv, Only, Who, What, Where
<1>2. CASE worker[w].phase # "tested"
  BY <1>2, IdleIs DEF Finish, Outcome, SiteInv, Only, Left
<1> QED
  BY <1>1, <1>2

\* A failure, a kill or the end of a process.
Leaves(w) == Raise(w) \/ Crash(w) \/ Exit(w)

LEMMA LeavesDoes ==
  ASSUME SiteInv, NEW w \in Workers, Leaves(w)
  PROVE  Only(w) /\ Blank(worker'[w]) /\ (Active(w) \/ worker[w].phase = "done")
BY IdleIs DEF Leaves, Raise, Crash, Exit, SiteInv, Only

-----------------------------------------------------------------------------
(* The provider, and what a process has read of it                         *)

Site == (DOMAIN content) \X Kinds

LEMMA ReadIs ==
  ASSUME SiteInv, NEW w \in Workers
  PROVE  worker[w].read \in Seq(Site) /\ Universe(worker[w].read)
<1>1. worker[w].read \in Seq(Site)
  BY DEF SiteInv, Site
<1>2. Site \subseteq Units \X Kinds
  BY DEF SiteInv, Site
<1>3. \A s \in Seq(Site) : s \in Seq(Units \X Kinds)
  <2> HIDE DEF Site
  <2> QED BY <1>2
<1> QED
  BY <1>1, <1>3 DEF Universe

LEMMA ListingIs ==
  ASSUME SiteInv
  PROVE  /\ Len(listing) \in Nat /\ DOMAIN listing = 1 .. Len(listing)
         /\ \A i \in 1 .. Len(listing) : Entry(i) \in Site
         /\ Entries \in Seq(Site) /\ Len(Entries) = Len(listing)
<1>1. listing \in Seq(DOMAIN content)
  BY DEF SiteInv
<1>2. /\ Len(listing) \in Nat /\ DOMAIN listing = 1 .. Len(listing)
      /\ \A i \in 1 .. Len(listing) : listing[i] \in DOMAIN content
  BY <1>1
<1>3. \A u \in DOMAIN content : content[u] \in Kinds
  BY DEF SiteInv
<1>4. Empty \in Kinds
  BY DEF Kinds
<1>5. \A i \in 1 .. Len(listing) : Entry(i) \in Site
  BY <1>2, <1>3, <1>4 DEF Entry, Site
<1>6. Entries \in Seq(Site) /\ Len(Entries) = Len(listing)
  <2> HIDE DEF Site
  <2> QED BY <1>2, <1>5 DEF Entries
<1> QED
  BY <1>2, <1>5, <1>6

\* The attachments of the release are there.
LEMMA GroupsAre ==
  ASSUME SiteInv, lane = "MPM"
  PROVE  /\ Len(Groups) \in Nat /\ DOMAIN Groups = 1 .. Len(Groups)
         /\ \A i \in 1 .. Len(Groups) : /\ Groups[i] \in Units
                                        /\ <<Groups[i], content[Groups[i]]>> \in Site
<1>1. /\ Len(Groups) \in Nat /\ DOMAIN Groups = 1 .. Len(Groups)
      /\ \A i \in 1 .. Len(Groups) : Groups[i] \in Units /\ Groups[i] \in Range(Groups)
  BY NamedOnce DEF Range
<1>2. \A u \in Range(Groups) : u \in DOMAIN content /\ content[u] \in Kinds
  BY DEF SiteInv
<1> QED
  BY <1>1, <1>2 DEF Site

LEMMA AppendIn ==
  ASSUME NEW S, NEW s \in Seq(S), NEW x \in S
  PROVE  Append(s, x) \in Seq(S) /\ Len(Append(s, x)) = Len(s) + 1
OBVIOUS

LEMMA VerifyFits ==
  ASSUME IInv, NEW w \in Workers, Verify(w)
  PROVE  LET me == worker[w] n == Len(me.read) + 1 IN
         /\ lane = "MPM" /\ n \in 1 .. Len(Groups) /\ n <= me.cursor
         /\ <<Groups[n], content[Groups[n]]>> \in Site
<1> DEFINE me == worker[w]
           n == Len(me.read) + 1
           x == <<Groups[n], content[Groups[n]]>>
<1>0. SiteInv /\ Apart(lane, stored, me) /\ Universe(me.read)
  BY ReadIs DEF IInv, WorkInv
<1>1. me.phase = "verifying" /\ x \in me.held
  BY <1>0, VerifyDoes
<1>2. lane = "MPM" /\ Backed(lane, stored, me.cursor, me.held, Basis(lane, me.read)) /\ Covered(lane, stored, me)
  BY <1>0, <1>1 DEF Apart, Begun
<1>3. Len(me.read) < me.cursor /\ me.cursor \in 0 .. Len(Groups)
  <2>1. me.held # {} /\ (Len(me.read) < me.cursor \/ me.held = {})
    BY <1>1, <1>2 DEF Covered
  <2>2. Manifest(stored, me.cursor, me.held, Groups)
    BY <1>2 DEF Backed
  <2> QED BY <2>1, <2>2 DEF Manifest
<1>4. Len(me.read) \in Nat /\ Len(Groups) \in Nat
  BY <1>0, <1>2, HeadsOf, GroupsAre
<1>5. n \in 1 .. Len(Groups) /\ n <= me.cursor
  BY <1>3, <1>4
<1> QED
  BY <1>0, <1>2, <1>5, GroupsAre

LEMMA FetchFits ==
  ASSUME IInv, NEW w \in Workers, Fetch(w)
  PROVE  LET me == worker[w]
             u == Plan(me.read)[me.cursor + 1] IN
         /\ lane \in Lanes \ Streamed
         /\ me.phase = "stepping" /\ me.cursor \in Nat /\ me.cursor < StepsOf(lane, me)
         /\ lane = "MPM" => u = Groups[me.cursor + 1] /\ <<u, Answer(me, u)>> \in Site
<1> DEFINE me == worker[w]
           u == Plan(me.read)[me.cursor + 1]
<1>0. SiteInv /\ Apart(lane, stored, me) /\ Universe(me.read) /\ lane \in Lanes
  BY ReadIs DEF IInv, WorkInv, SiteInv, Lanes
<1>1. me.phase = "stepping" /\ lane \notin Streamed /\ (Steps(me) # None => me.cursor < Steps(me))
  BY <1>0, FetchDoes DEF Left
<1>2. me.cursor \in Nat
  BY <1>0 DEF Apart
<1>3. me.cursor < StepsOf(lane, me)
  BY <1>0, <1>1, StepsAre, NoneAssumption
<1>4. ASSUME lane = "MPM"
      PROVE  u = Groups[me.cursor + 1] /\ <<u, Answer(me, u)>> \in Site
  <2>1. Plan(me.read) = Groups /\ StepsOf(lane, me) = Len(Groups)
    BY <1>0, <1>4, StepsAre DEF StepsOf, Streamed
  <2>2. Answer(me, u) = content[u]
    BY <1>4 DEF Answer, Listed
  <2>3. me.cursor + 1 \in 1 .. Len(Groups)
    BY <1>0, <1>2, <1>3, <1>4, <2>1, GroupsAre
  <2> QED BY <1>0, <1>4, <2>1, <2>2, <2>3, GroupsAre
<1> QED
  BY <1>0, <1>1, <1>2, <1>3, <1>4

\* What a process may do, and what may become of the provider.
Steps1(w) ==
  \/ ReadCheckpoint(w) \/ ReadRuns(w) \/ StartRun(w) \/ ReadDirectory(w) \/ ReadPage(w)
  \/ Begin(w) \/ BeginStream(w) \/ CommitDirectory(w) \/ Verify(w) \/ Fetch(w) \/ FetchPage(w)
  \/ CommitPart(w) \/ CommitStep(w) \/ Test(w) \/ Finish(w) \/ Leaves(w)
Turns ==
  \/ \E u \in DOMAIN content, c \in Kinds : Amend(u, c)
  \/ \E l \in setting.relists : Relist(l)

LEMMA Moves ==
  Next => Turns \/ \E w \in Workers : Steps1(w)
BY DEF Next, Turns, Steps1, Leaves, Kinds

LEMMA SiteKeeps ==
  ASSUME SiteInv, NEW w \in Workers, Only(w), UNCHANGED <<setting, listing, content, drifts>>,
         crashes' \in 0 .. setting.bounds.crashes,
         DOMAIN worker'[w] = Fields, worker'[w].read \in Seq(Site)
  PROVE  SiteInv'
<1>1. lane' = lane
  BY DEF lane
<1>2. \A v \in Workers : DOMAIN worker'[v] = Fields /\ worker'[v].read \in Seq((DOMAIN content') \X Kinds)
  BY DEF SiteInv, Only, Site
<1> QED
  BY <1>1, <1>2 DEF SiteInv, Only

LEMMA SiteStep ==
  ASSUME IInv, [Next]_vars
  PROVE  SiteInv'
<1>0. SiteInv
  BY DEF IInv
<1>1. CASE UNCHANGED vars
  BY <1>0, <1>1 DEF SiteInv, vars, lane
<1>2. CASE Turns
  <2>1. ASSUME NEW u \in DOMAIN content, NEW c \in Kinds, Amend(u, c) PROVE SiteInv'
    <3>1. /\ DOMAIN content' = DOMAIN content /\ content' \in [DOMAIN content -> Kinds]
          /\ UNCHANGED <<setting, listing, worker, crashes>> /\ lane' = lane
          /\ drifts < setting.bounds.drifts /\ drifts' = drifts + 1
      BY <1>0, <2>1 DEF Amend, SiteInv, lane
    <3>2. drifts' \in 0 .. setting.bounds.drifts
      BY <1>0, <3>1 DEF SiteInv
    <3> QED BY <1>0, <3>1, <3>2 DEF SiteInv
  <2>2. ASSUME NEW l \in setting.relists, Relist(l) PROVE SiteInv'
    <3>1. /\ listing' = l /\ UNCHANGED <<setting, content, worker, crashes>> /\ lane' = lane
          /\ drifts < setting.bounds.drifts /\ drifts' = drifts + 1
      BY <2>2 DEF Relist, lane
    <3>2. drifts' \in 0 .. setting.bounds.drifts
      BY <1>0, <3>1 DEF SiteInv
    <3> QED BY <1>0, <3>1, <3>2 DEF SiteInv
  <2> QED BY <1>2, <2>1, <2>2 DEF Turns
<1>3. ASSUME NEW w \in Workers, Steps1(w) PROVE SiteInv'
  <2> DEFINE me == worker[w]
             new == worker'[w]
  <2>1. UNCHANGED <<setting, listing, content, drifts>> /\ crashes' \in 0 .. setting.bounds.crashes
    <3>1. CASE Crash(w)
      BY <1>0, <3>1 DEF SiteInv, Crash, provider
    <3>2. CASE ~Crash(w)
      <4>1. UNCHANGED <<provider, crashes>>
        BY <1>3, <3>2 DEF Steps1, Leaves, ReadCheckpoint, ReadRuns, StartRun, ReadDirectory, ReadPage,
           Begin, BeginStream, CommitDirectory, Verify, Fetch, FetchPage, CommitPart, CommitStep, Test, Finish,
           Raise, Exit
      <4> QED BY <1>0, <4>1 DEF SiteInv, provider
    <3> QED BY <3>1, <3>2
  <2>2. me.read \in Seq(Site) /\ <<>> \in Seq(Site)
    BY <1>0, ReadIs
  <2> HIDE DEF me
  <2>3. CASE ReadCheckpoint(w) \/ ReadRuns(w) \/ StartRun(w) \/ Finish(w) \/ Leaves(w)
    BY <1>0, <2>1, <2>2, <2>3, SiteKeeps, ReadCheckpointDoes, ReadRunsDoes, StartRunDoes, FinishDoes, LeavesDoes
       DEF Blank, What, Who, me
  <2>4. CASE Begin(w) \/ BeginStream(w) \/ CommitDirectory(w) \/ FetchPage(w) \/ CommitPart(w)
             \/ CommitStep(w) \/ Test(w)
    BY <1>0, <2>1, <2>2, <2>4, SiteKeeps, BeginDoes, BeginStreamDoes, CommitDirectoryDoes, FetchPageDoes,
       CommitPartDoes, CommitStepDoes, TestDoes DEF What, Who, Stepped, me
  <2>5. CASE ReadDirectory(w)
    BY <1>0, <2>1, <2>5, SiteKeeps, ReadDirectoryDoes, ListingIs DEF Who
  <2>6. CASE ReadPage(w)
    <3>1. /\ Only(w) /\ DOMAIN new = Fields
          /\ me.total \in {None, Len(listing)} /\ (me.total # None => Len(me.read) < me.total)
          /\ new.read = me.read \o (IF listing = <<>> THEN <<>> ELSE <<Entry(Len(me.read) + 1)>>)
      BY <1>0, <2>6, ReadPageDoes DEF Who, me
    <3>2. listing # <<>> => Entry(Len(me.read) + 1) \in Site
      <4>1. Len(me.read) \in Nat /\ Len(listing) \in Nat /\ (listing # <<>> => Len(listing) > 0)
        BY <1>0, <2>2, ListingIs DEF SiteInv
      <4>2. CASE me.total = None
        <5>1. me.read = <<>>
          BY <2>6, <4>2, ReadPageDoes DEF IInv, WorkInv, Apart, me
        <5> QED BY <1>0, <4>1, <5>1, ListingIs
      <4>3. CASE me.total # None
        <5>1. Len(me.read) + 1 \in 1 .. Len(listing)
          BY <3>1, <4>1, <4>3
        <5> QED BY <1>0, <5>1, ListingIs
      <4> QED BY <4>2, <4>3
    <3>3. new.read \in Seq(Site)
      BY <2>2, <3>1, <3>2
    <3> QED BY <1>0, <2>1, <3>1, <3>3, SiteKeeps
  <2>7. CASE Verify(w)
    <3>1. \E x \in Site : new.read = Append(me.read, x)
      BY <1>0, <2>7, VerifyDoes, VerifyFits DEF me
    <3>2. new.read \in Seq(Site)
      BY <2>2, <3>1, AppendIn
    <3> QED BY <1>0, <2>1, <2>7, <3>2, SiteKeeps, VerifyDoes DEF Who
  <2>8. CASE Fetch(w)
    <3>1. new.read = me.read \/ \E x \in Site : new.read = Append(me.read, x)
      BY <1>0, <2>8, FetchDoes, FetchFits DEF me
    <3>2. new.read \in Seq(Site)
      BY <2>2, <3>1, AppendIn
    <3> QED BY <1>0, <2>1, <2>8, <3>2, SiteKeeps, FetchDoes DEF Who
  <2> QED BY <1>3, <2>3, <2>4, <2>5, <2>6, <2>7, <2>8 DEF Steps1
<1> QED
  BY <1>1, <1>2, <1>3, Moves

-----------------------------------------------------------------------------
(* The runs and who they are of                                            *)

Statuses == {"RUNNING", "SUCCESS", "PARTIAL", "FAILED"}

LEMMA Replaced ==
  ASSUME NEW S, NEW s \in Seq(S), NEW i \in DOMAIN s, NEW x \in S
  PROVE  LET t == [s EXCEPT ![i] = x] IN
         /\ t \in Seq(S) /\ Len(t) = Len(s) /\ DOMAIN t = DOMAIN s /\ t[i] = x
         /\ \A j \in DOMAIN s : j # i => t[j] = s[j]
OBVIOUS

LEMMA RunEnds ==
  ASSUME runs \in Seq(RunRecord), NEW i \in DOMAIN runs, NEW status \in Statuses
  PROVE  LET rs == [runs EXCEPT ![i].status = status] IN
         /\ rs \in Seq(RunRecord) /\ Len(rs) = Len(runs) /\ DOMAIN rs = DOMAIN runs
         /\ \A j \in DOMAIN runs : j # i => rs[j] = runs[j]
         /\ rs[i].status = status /\ rs[i].resume = runs[i].resume /\ rs[i].seen = runs[i].seen
<1>1. runs[i] \in RunRecord
  OBVIOUS
<1>2. [runs[i] EXCEPT !.status = status] \in RunRecord
  BY <1>1 DEF RunRecord, Statuses
<1>3. [runs[i] EXCEPT !.status = status].status = status
  BY <1>1 DEF RunRecord
<1>4. /\ [runs[i] EXCEPT !.status = status].resume = runs[i].resume
      /\ [runs[i] EXCEPT !.status = status].seen = runs[i].seen
  BY <1>1 DEF RunRecord
<1> DEFINE x == [runs[i] EXCEPT !.status = status]
           rs == [runs EXCEPT ![i].status = status]
<1>5. rs = [runs EXCEPT ![i] = x]
  OBVIOUS
<1>6. /\ rs \in Seq(RunRecord) /\ Len(rs) = Len(runs) /\ DOMAIN rs = DOMAIN runs /\ rs[i] = x
      /\ \A j \in DOMAIN runs : j # i => rs[j] = runs[j]
  <2> HIDE DEF x, rs
  <2> QED BY <1>2, <1>5, Replaced DEF x
<1> HIDE DEF rs
<1> QED
  BY <1>3, <1>4, <1>6 DEF rs

LEMMA RunSees ==
  ASSUME runs \in Seq(RunRecord), NEW i \in DOMAIN runs, NEW n \in Nat
  PROVE  LET rs == [runs EXCEPT ![i].seen = @ + n] IN
         /\ rs \in Seq(RunRecord) /\ Len(rs) = Len(runs) /\ DOMAIN rs = DOMAIN runs
         /\ \A j \in DOMAIN runs : rs[j].status = runs[j].status /\ rs[j].resume = runs[j].resume
         /\ \A j \in DOMAIN runs : j # i => rs[j] = runs[j]
         /\ runs[i].seen \in Nat /\ rs[i].seen = runs[i].seen + n
<1>0. runs[i] \in RunRecord
  OBVIOUS
<1>1. runs[i] \in RunRecord /\ runs[i].seen \in Nat
  BY <1>0 DEF RunRecord
<1>2. [runs[i] EXCEPT !.seen = @ + n] \in RunRecord
  <2>1. runs[i].seen + n \in Nat
    BY <1>1
  <2> DEFINE m == runs[i].seen + n
             x == runs[i]
  <2>2. x \in RunRecord /\ m \in Nat
    BY <1>1, <2>1
  <2> HIDE DEF m, x
  <2>3. [x EXCEPT !.seen = m] \in RunRecord
    BY <2>2 DEF RunRecord
  <2> QED BY <2>3 DEF m, x
<1>3. [runs[i] EXCEPT !.seen = @ + n].seen = runs[i].seen + n
  BY <1>1 DEF RunRecord
<1>4. /\ [runs[i] EXCEPT !.seen = @ + n].resume = runs[i].resume
      /\ [runs[i] EXCEPT !.seen = @ + n].status = runs[i].status
  BY <1>1 DEF RunRecord
<1> DEFINE x == [runs[i] EXCEPT !.seen = @ + n]
           rs == [runs EXCEPT ![i].seen = @ + n]
<1>5. rs = [runs EXCEPT ![i] = x]
  OBVIOUS
<1>6. /\ rs \in Seq(RunRecord) /\ Len(rs) = Len(runs) /\ DOMAIN rs = DOMAIN runs /\ rs[i] = x
      /\ \A j \in DOMAIN runs : j # i => rs[j] = runs[j]
  <2> HIDE DEF x, rs
  <2> QED BY <1>2, <1>5, Replaced DEF x
<1> HIDE DEF rs
<1> QED
  BY <1>1, <1>3, <1>4, <1>6 DEF rs

LEMMA Works ==
  ASSUME IInv, NEW w \in Workers, worker[w].phase \in (Begun \cup {"reading"}) \ {"done"}
  PROVE  /\ Active(w) /\ worker[w].run \in DOMAIN runs /\ runs \in Seq(RunRecord)
         /\ runs[worker[w].run].status = "RUNNING" /\ runs[worker[w].run].resume = worker[w].resume
<1>1. Active(w)
  BY DEF IInv, OwnInv, Active, Begun
<1>2. worker[w].run \in 0 .. Len(runs) /\ worker[w].run # 0 /\ runs \in Seq(RunRecord)
  BY <1>1 DEF IInv, OwnInv, Active
<1> QED
  BY <1>1, <1>2 DEF IInv, OwnInv

\* A process that goes on keeps its run; only the others' runs matter once it is gone.
LEMMA OwnKeeps ==
  ASSUME OwnInv, NEW w \in Workers, Only(w),
         runs' \in Seq(RunRecord), Len(runs') = Len(runs),
         \A i \in 1 .. Len(runs) : runs'[i].status = runs[i].status /\ runs'[i].resume = runs[i].resume,
         checkpoint' = checkpoint \/ checkpoint'.run \in DOMAIN runs,
         worker'[w].run = worker[w].run, worker'[w].resume = worker[w].resume,
         worker[w].phase \in (Begun \cup {"reading"}) \ {"done"},
         worker'[w].phase \in (Begun \cup {"reading"}) \ {"done"}
  PROVE  OwnInv'
<1>1. DOMAIN runs' = DOMAIN runs /\ DOMAIN runs = 1 .. Len(runs) /\ Len(runs) \in Nat
  BY DEF OwnInv
<1>2. \A v \in Workers : worker'[v].run = worker[v].run /\ worker'[v].resume = worker[v].resume
  BY DEF Only
<1>3. \A v \in Workers : Active(v)' <=> Active(v)
  <2>1. Active(w)' <=> Active(w)
    BY DEF Active, Begun
  <2> QED BY <2>1 DEF Active, Only
<1>4. \A v \in Workers : worker'[v].phase \in Begun \cup {"reading"} <=> worker[v].phase \in Begun \cup {"reading"}
  BY DEF Only
<1>5. \A v \in Workers : worker'[v].phase \in {"ready", "cleared"} <=> worker[v].phase \in {"ready", "cleared"}
  BY DEF Only, Begun
<1>6. \A v \in Workers : Active(v) => worker[v].run \in 1 .. Len(runs)
  BY <1>1 DEF OwnInv, Active
<1> HIDE DEF RunRecord, Begun, Active
<1> QED
  BY <1>1, <1>2, <1>3, <1>4, <1>5, <1>6 DEF OwnInv

LEMMA OwnLeaves ==
  ASSUME OwnInv, NEW w \in Workers, Only(w),
         runs' \in Seq(RunRecord), Len(runs') = Len(runs), checkpoint' = checkpoint,
         \A i \in 1 .. Len(runs) : runs'[i] = runs[i] \/ (i = worker[w].run /\ Active(w)),
         worker'[w].run \in 0 .. Len(runs),
         worker'[w].phase \in {"ready", "cleared", "idle", "done"},
         (worker'[w].phase = "done") <=> (worker'[w].run # 0)
  PROVE  OwnInv'
<1>1. DOMAIN runs' = DOMAIN runs /\ DOMAIN runs = 1 .. Len(runs) /\ Len(runs) \in Nat
  BY DEF OwnInv
<1>2. \A v \in Workers \ {w} : worker'[v] = worker[v] /\ (Active(v)' <=> Active(v))
  BY DEF Only, Active
<1>3. \A v \in Workers : Active(v) => worker[v].run \in 1 .. Len(runs)
  BY <1>1 DEF OwnInv, Active
<1>4. \A v \in Workers \ {w} : Active(v) => runs'[worker[v].run] = runs[worker[v].run]
  BY <1>3 DEF OwnInv
<1>5. worker'[w].phase \in Begun \cup {"reading"} => worker'[w].run # 0
  BY DEF Begun
<1>6. worker'[w].phase \in {"ready", "cleared"} => worker'[w].run = 0
  OBVIOUS
<1>7. ~ Active(w)'
  BY DEF Active
<1> HIDE DEF RunRecord, Begun, Active
<1> QED
  BY <1>1, <1>2, <1>3, <1>4, <1>5, <1>6, <1>7 DEF OwnInv

LEMMA OwnStarts ==
  ASSUME IInv, NEW w \in Workers, StartRun(w)
  PROVE  OwnInv'
<1> DEFINE new == worker'[w]
           row == [status |-> "RUNNING", resume |-> worker[w].resume, seen |-> 0]
<1>0. OwnInv /\ SiteInv /\ Apart(lane, stored, worker[w])
  BY DEF IInv, WorkInv
<1>1. runs' = Append(runs, row) /\ checkpoint' = checkpoint
  BY DEF StartRun
<1>2. row \in RunRecord /\ row.status = "RUNNING" /\ row.resume = worker[w].resume
  BY <1>0 DEF Apart, RunRecord
<1>3. /\ Only(w) /\ new.phase = "reading" /\ new.run = Len(runs) + 1 /\ new.resume = worker[w].resume
  BY <1>0, StartRunDoes
<1> HIDE DEF RunRecord, row
<1>4. /\ runs' \in Seq(RunRecord) /\ Len(runs') = Len(runs) + 1 /\ Len(runs) \in Nat
      /\ \A i \in 1 .. Len(runs) : runs'[i] = runs[i]
      /\ runs'[Len(runs) + 1] = row
      /\ DOMAIN runs = 1 .. Len(runs) /\ DOMAIN runs' = 1 .. Len(runs) + 1
  BY <1>0, <1>1, <1>2 DEF OwnInv
<1>5. \A v \in Workers \ {w} : worker'[v] = worker[v] /\ (Active(v)' <=> Active(v))
  BY <1>3 DEF Only, Active
<1>6. \A v \in Workers : worker[v].run \in 0 .. Len(runs) /\ (Active(v) => worker[v].run \in 1 .. Len(runs))
  BY <1>0, <1>4 DEF OwnInv, Active
<1>7. checkpoint' # None => checkpoint'.run \in DOMAIN runs'
  BY <1>0, <1>1, <1>4 DEF OwnInv
<1>8. \A v \in Workers \ {w} : Active(v) => runs'[worker[v].run] = runs[worker[v].run] /\ worker[v].run # new.run
  BY <1>3, <1>4, <1>6
<1>9. new.phase \in Begun \cup {"reading"} /\ new.phase \notin {"ready", "cleared"}
  BY <1>3
<1>10. \A v \in Workers \ {w} : worker[v].run \in 0 .. Len(runs')
  BY <1>4, <1>6
<1>11. new.run \in 0 .. Len(runs') /\ new.run # 0
  BY <1>3, <1>4
<1> HIDE DEF Begun, Active, new
<1>12. ASSUME NEW v \in Workers
       PROVE  LET me == worker'[v] IN
              /\ me.run \in 0 .. Len(runs')
              /\ me.phase \in {"ready", "cleared"} => me.run = 0
              /\ me.phase \in Begun \cup {"reading"} => me.run # 0
              /\ Active(v)' => /\ runs'[me.run].status = "RUNNING" /\ runs'[me.run].resume = me.resume
                               /\ \A u \in Workers \ {v} : Active(u)' => worker'[u].run # me.run
  <2>1. CASE v = w
    BY <1>2, <1>3, <1>4, <1>5, <1>8, <1>9, <1>11, <2>1 DEF new
  <2>2. CASE v # w
    BY <1>0, <1>5, <1>8, <1>10, <1>3, <2>2 DEF OwnInv, new
  <2> QED BY <2>1, <2>2
<1> QED
  BY <1>4, <1>7, <1>12 DEF OwnInv

\* A page of finitely many rows.
LEMMA PageDoes ==
  ASSUME IInv, NEW w \in Workers, NEW rows, NEW cursor, NEW held, Page(w, rows, cursor, held),
         worker[w].phase \in (Begun \cup {"reading"}) \ {"done"}, IsFiniteSet(rows)
  PROVE  LET me == worker[w] IN
         /\ stored' = stored \cup rows
         /\ checkpoint' = [cursor |-> cursor, total |-> Steps(me), fingerprint |-> Known(me),
                           held |-> held, run |-> me.run]
         /\ me.run \in DOMAIN runs /\ checkpoint'.run = me.run
         /\ runs' \in Seq(RunRecord) /\ Len(runs') = Len(runs) /\ DOMAIN runs' = DOMAIN runs
         /\ \A i \in DOMAIN runs : runs'[i].status = runs[i].status /\ runs'[i].resume = runs[i].resume
         /\ \A i \in DOMAIN runs : i # me.run => runs'[i] = runs[i]
         /\ runs[me.run].seen \in Nat /\ runs'[me.run].seen = runs[me.run].seen + Cardinality(rows)
         /\ runs[me.run].status = "RUNNING"
<1>1. /\ worker[w].run \in DOMAIN runs /\ runs \in Seq(RunRecord)
      /\ runs[worker[w].run].status = "RUNNING"
  BY Works
<1>2. Cardinality(rows) \in Nat
  BY FS_CardinalityType
<1>3. /\ stored' = stored \cup rows
      /\ checkpoint' = [cursor |-> cursor, total |-> Steps(worker[w]), fingerprint |-> Known(worker[w]),
                        held |-> held, run |-> worker[w].run]
      /\ runs' = [runs EXCEPT ![worker[w].run].seen = @ + Cardinality(rows)]
  BY DEF Page
<1>4. checkpoint'.run = worker[w].run
  BY <1>3
<1> HIDE DEF RunRecord
<1> DEFINE n == Cardinality(rows)
           run == worker[w].run
<1>5. LET rs == [runs EXCEPT ![run].seen = @ + n] IN
      /\ rs \in Seq(RunRecord) /\ Len(rs) = Len(runs) /\ DOMAIN rs = DOMAIN runs
      /\ \A j \in DOMAIN runs : rs[j].status = runs[j].status /\ rs[j].resume = runs[j].resume
      /\ \A j \in DOMAIN runs : j # run => rs[j] = runs[j]
      /\ runs[run].seen \in Nat /\ rs[run].seen = runs[run].seen + n
  <2>1. run \in DOMAIN runs /\ runs \in Seq(RunRecord) /\ n \in Nat
    BY <1>1, <1>2
  <2> HIDE DEF n, run
  <2> QED BY <2>1, RunSees
<1> QED
  BY <1>1, <1>3, <1>4, <1>5

LEMMA CommitStepFits ==
  ASSUME IInv, NEW w \in Workers, CommitStep(w)
  PROVE  LET me == worker[w]
             new == worker'[w]
             rows == Rows(me.read, me.unit) IN
         /\ me.phase \in {"fetched", "parts"} /\ new.phase = "stepping"
         /\ IsFiniteSet(rows) /\ Page(w, rows, me.cursor + 1, new.held)
         /\ Backed(lane, stored \cup rows, new.cursor, new.held, Basis(lane, new.read))
         /\ Covered(lane, stored \cup rows, new)
<1>1. SiteInv /\ Apart(lane, stored, worker[w]) /\ Universe(worker[w].read) /\ lane \in Lanes
  BY ReadIs DEF IInv, WorkInv, SiteInv, Lanes
<1>2. /\ worker[w].phase = (IF lane = "GRAPH" THEN "parts" ELSE "fetched") /\ Stepped(worker[w], worker'[w])
      /\ Page(w, Rows(worker[w].read, worker[w].unit), worker[w].cursor + 1, worker'[w].held)
  BY <1>1, CommitStepDoes
<1> QED
  BY <1>1, <1>2, StepKeeps DEF Stepped

LEMMA OwnStep ==
  ASSUME IInv, [Next]_vars
  PROVE  OwnInv'
<1>0. OwnInv /\ SiteInv /\ runs \in Seq(RunRecord) /\ DOMAIN runs = 1 .. Len(runs)
  BY DEF IInv, OwnInv
<1>1. CASE UNCHANGED vars \/ Turns
  <2>1. UNCHANGED <<runs, checkpoint, worker>>
    BY <1>1 DEF vars, Turns, Amend, Relist, database
  <2> QED BY <1>0, <2>1 DEF OwnInv, Active
<1>2. ASSUME NEW w \in Workers, Steps1(w) PROVE OwnInv'
  <2> DEFINE me == worker[w]
             new == worker'[w]
  <2>1. CASE ReadCheckpoint(w)
    <3>1. Only(w) /\ UNCHANGED <<runs, checkpoint>> /\ new.phase = "ready" /\ new.run = 0
      BY <1>0, <2>1, ReadCheckpointDoes DEF ReadCheckpoint, database
    <3>2. new.run \in 0 .. Len(runs)
      BY <1>0, <3>1 DEF Active
    <3> QED BY <1>0, <3>1, <3>2, OwnLeaves
  <2>2. CASE ReadRuns(w)
    <3>1. /\ Only(w) /\ UNCHANGED <<runs, checkpoint>> /\ me.phase = "ready"
          /\ (Blank(new) \/ (new.phase = "cleared" /\ new.run = me.run))
      BY <1>0, <2>2, ReadRunsDoes DEF ReadRuns, database, Who
    <3>2. me.run = 0
      BY <1>0, <3>1 DEF OwnInv
    <3>3. new.phase \in {"idle", "cleared"} /\ new.run = 0
      BY <3>1, <3>2 DEF Blank
    <3>4. new.run \in 0 .. Len(runs)
      BY <1>0, <3>3 DEF Active
    <3> QED BY <1>0, <3>1, <3>3, <3>4, OwnLeaves
  <2>3. CASE StartRun(w)
    BY <2>3, OwnStarts
  <2>4. CASE ReadDirectory(w) \/ ReadPage(w) \/ Begin(w) \/ BeginStream(w) \/ Verify(w) \/ Fetch(w) \/ FetchPage(w)
             \/ Test(w)
    <3>1. UNCHANGED <<runs, checkpoint>>
      BY <2>4 DEF ReadDirectory, ReadPage, Begin, BeginStream, Verify, Fetch, FetchPage, Test, database
    <3>2. /\ Only(w) /\ Who(new, me) /\ me.phase \in {"reading", "verifying", "stepping"}
          /\ new.phase \in {"reading", "verifying", "directory", "stepping", "fetched", "tested"}
      <4>1. CASE ReadDirectory(w)
        BY <1>0, <4>1, ReadDirectoryDoes
      <4>2. CASE ReadPage(w)
        BY <1>0, <4>2, ReadPageDoes
      <4>3. CASE Begin(w)
        BY <1>0, <4>3, BeginDoes
      <4>4. CASE BeginStream(w)
        BY <1>0, <4>4, BeginStreamDoes
      <4>5. CASE Verify(w)
        BY <1>0, <4>5, VerifyDoes
      <4>6. CASE Fetch(w)
        BY <1>0, <4>6, FetchDoes DEF Left
      <4>7. CASE FetchPage(w)
        BY <1>0, <4>7, FetchPageDoes DEF Left
      <4>8. CASE Test(w)
        BY <1>0, <4>8, TestDoes DEF Left
      <4> QED BY <2>4, <4>1, <4>2, <4>3, <4>4, <4>5, <4>6, <4>7, <4>8
    <3> QED BY <1>0, <3>1, <3>2, OwnKeeps DEF Begun, Who
  <2>5. CASE CommitDirectory(w)
    <3>1. /\ Only(w) /\ new.run = me.run /\ new.resume = me.resume
          /\ me.phase = "directory" /\ new.phase = "stepping" /\ Page(w, {}, 0, Nothing)
      BY <1>0, <2>5, CommitDirectoryDoes DEF Who
    <3>2. IsFiniteSet({})
      BY FS_EmptySet
    <3>3. /\ checkpoint'.run \in DOMAIN runs /\ runs' \in Seq(RunRecord) /\ Len(runs') = Len(runs)
          /\ \A i \in DOMAIN runs : runs'[i].status = runs[i].status /\ runs'[i].resume = runs[i].resume
      BY <3>1, <3>2, PageDoes DEF Begun
    <3> QED BY <1>0, <3>1, <3>3, OwnKeeps DEF Begun
  <2>6. CASE CommitPart(w)
    <3>1. /\ Only(w) /\ new.run = me.run /\ new.resume = me.resume
          /\ me.phase \in {"fetched", "parts"} /\ new.phase = "parts" /\ Page(w, {}, me.cursor, me.held)
      BY <1>0, <2>6, CommitPartDoes DEF Who
    <3>2. IsFiniteSet({})
      BY FS_EmptySet
    <3>3. /\ checkpoint'.run \in DOMAIN runs /\ runs' \in Seq(RunRecord) /\ Len(runs') = Len(runs)
          /\ \A i \in DOMAIN runs : runs'[i].status = runs[i].status /\ runs'[i].resume = runs[i].resume
      BY <3>1, <3>2, PageDoes DEF Begun
    <3> QED BY <1>0, <3>1, <3>3, OwnKeeps DEF Begun
  <2>7. CASE CommitStep(w)
    <3>1. Only(w) /\ new.run = me.run /\ new.resume = me.resume
      BY <1>0, <2>7, CommitStepDoes DEF Who
    <3>2. /\ me.phase \in {"fetched", "parts"} /\ new.phase = "stepping"
          /\ Page(w, Rows(me.read, me.unit), me.cursor + 1, new.held)
          /\ IsFiniteSet(Rows(me.read, me.unit))
      BY <2>7, CommitStepFits
    <3>3. /\ checkpoint'.run \in DOMAIN runs /\ runs' \in Seq(RunRecord) /\ Len(runs') = Len(runs)
          /\ \A i \in DOMAIN runs : runs'[i].status = runs[i].status /\ runs'[i].resume = runs[i].resume
      BY <3>2, PageDoes DEF Begun
    <3> QED BY <1>0, <3>1, <3>2, <3>3, OwnKeeps DEF Begun
  <2>8. CASE Finish(w)
    <3>1. checkpoint' = checkpoint
      BY <2>8 DEF Finish
    <3>2. /\ Only(w) /\ me.phase \in {"tested", "stepping"}
          /\ \/ /\ new.phase = "done" /\ new.run = me.run
             \/ Blank(new)
          /\ \E status \in Statuses : runs' = [runs EXCEPT ![me.run].status = status]
      BY <1>0, <2>8, FinishDoes DEF Who, Statuses
    <3>3. /\ me.run \in DOMAIN runs /\ Active(w)
      BY <3>2, Works DEF Begun
    <3>4. /\ runs' \in Seq(RunRecord) /\ Len(runs') = Len(runs)
          /\ \A i \in DOMAIN runs : i # me.run => runs'[i] = runs[i]
      BY <1>0, <3>2, <3>3, RunEnds
    <3>5. new.run \in 0 .. Len(runs)
      BY <1>0, <3>2, <3>3 DEF Active, Blank
    <3>6. \/ new.phase = "idle" /\ new.run = 0
          \/ new.phase = "done" /\ new.run # 0
      BY <1>0, <3>2, <3>3 DEF Blank
    <3> QED BY <1>0, <3>1, <3>2, <3>3, <3>4, <3>5, <3>6, OwnLeaves
  <2>9. CASE Leaves(w)
    <3>1. Only(w) /\ Blank(new) /\ checkpoint' = checkpoint
      BY <1>0, <2>9, LeavesDoes DEF Leaves, Raise, Crash, Exit, database
    <3>2. /\ runs' \in Seq(RunRecord) /\ Len(runs') = Len(runs)
          /\ \A i \in DOMAIN runs : i # me.run \/ ~ Active(w) => runs'[i] = runs[i]
      <4>1. CASE Raise(w)
        <5>1. Active(w) /\ \E status \in Statuses : runs' = [runs EXCEPT ![me.run].status = status]
          BY <4>1 DEF Raise, Closing, Statuses
        <5>2. me.run \in DOMAIN runs
          BY <1>0, <5>1 DEF OwnInv, Active
        <5> QED BY <1>0, <5>1, <5>2, RunEnds
      <4>2. CASE ~ Raise(w)
        BY <1>0, <2>9, <4>2 DEF Leaves, Crash, Exit, database
      <4> QED BY <4>1, <4>2
    <3>3. new.run \in 0 .. Len(runs) /\ new.phase = "idle" /\ new.run = 0
      BY <1>0, <3>1 DEF Active, Blank
    <3> QED BY <1>0, <3>1, <3>2, <3>3, OwnLeaves
  <2> QED BY <1>2, <2>1, <2>2, <2>3, <2>4, <2>5, <2>6, <2>7, <2>8, <2>9 DEF Steps1
<1> QED
  BY <1>1, <1>2, Moves

-----------------------------------------------------------------------------
(* What each process has                                                   *)

LEMMA WorkFrom ==
  ASSUME IInv, NEW w \in Workers, Only(w), UNCHANGED setting, stored \subseteq stored',
         Apart(lane, stored', worker'[w])
  PROVE  WorkInv'
<1>1. lane' = lane
  BY DEF lane
<1>2. \A v \in Workers \ {w} : Apart(lane, stored', worker'[v])
  BY ApartGrows DEF IInv, WorkInv, Only
<1> QED
  BY <1>1, <1>2 DEF WorkInv

LEMMA BlankApart ==
  ASSUME NEW l, NEW s, NEW new, Blank(new)
  PROVE  Apart(l, s, new)
BY DEF Apart, Blank, Phases, Begun, Going

LEMMA ReadyApart ==
  ASSUME IInv, NEW w \in Workers, ReadCheckpoint(w) \/ ReadRuns(w) \/ StartRun(w)
  PROVE  Apart(lane, stored, worker'[w])
<1> DEFINE me == worker[w]
           new == worker'[w]
<1>0. SiteInv /\ Apart(lane, stored, me) /\ SealInv
  BY DEF IInv, WorkInv
<1>1. CASE ReadCheckpoint(w)
  <2>1. /\ new.phase = "ready" /\ new.resume \in BOOLEAN /\ (new.resume => lane \in Resumable \cup Streamed)
        /\ new.resume /\ lane \in Directed => checkpoint # None
        /\ new.prior \in {None, checkpoint} /\ (new.resume => new.prior = checkpoint)
        /\ new.size \in setting.sizes
        /\ new.read = <<>> /\ new.total = None /\ new.pages = None /\ new.cursor = 0 /\ new.held = {}
    BY <1>0, <1>1, ReadCheckpointDoes
  <2>2. new.prior # None => Sealed(lane, stored, new.prior)
    BY <1>0, <2>1 DEF SealInv
  <2>3. lane \in Streamed => new.size \in Nat \ {0}
    BY <1>0, <2>1 DEF SiteInv
  <2> QED BY <2>1, <2>2, <2>3 DEF Apart, Phases, Begun, Going
<1>2. CASE ReadRuns(w)
  <2>1. /\ me.phase = "ready" /\ lane = "CODES"
        /\ \/ Blank(new)
           \/ /\ new.phase = "cleared" /\ Who(new, me) /\ What(new, me) /\ Where(new, me)
              /\ new.prior = me.prior
    BY <1>0, <1>2, ReadRunsDoes
  <2>2. CASE Blank(new)
    BY <2>2, BlankApart
  <2>3. CASE ~ Blank(new)
    BY <1>0, <2>1, <2>3 DEF Apart, Who, What, Where, Phases, Begun, Going, Directed
  <2> QED BY <2>2, <2>3
<1>3. CASE StartRun(w)
  <2>1. /\ me.phase \in {"ready", "cleared"} /\ new.phase = "reading" /\ (me.phase = "cleared" => lane = "CODES")
        /\ new.resume = me.resume /\ new.size = me.size
        /\ What(new, me) /\ Where(new, me) /\ new.prior = me.prior
    BY <1>0, <1>3, StartRunDoes
  <2> QED BY <1>0, <2>1 DEF Apart, What, Where, Phases, Begun, Going, Directed
<1> QED
  BY <1>1, <1>2, <1>3

LEMMA ReadingApart ==
  ASSUME IInv, NEW w \in Workers, ReadDirectory(w) \/ ReadPage(w)
  PROVE  Apart(lane, stored, worker'[w])
<1> DEFINE me == worker[w]
           new == worker'[w]
<1>0. SiteInv /\ Apart(lane, stored, me)
  BY DEF IInv, WorkInv
<1>1. Len(listing) # None
  BY <1>0, ListingIs, NoneAssumption
<1>2. /\ me.phase = "reading" /\ new.phase = "reading" /\ lane \in Directed \cup Listed \cup {"GRAPH"}
      /\ new.total # None /\ Who(new, me) /\ Where(new, me) /\ new.prior = me.prior /\ new.pages = me.pages
  <2>1. CASE ReadDirectory(w)
    BY <1>0, <1>1, <2>1, ReadDirectoryDoes
  <2>2. CASE ReadPage(w)
    BY <1>0, <1>1, <2>2, ReadPageDoes
  <2> QED BY <2>1, <2>2
<1> QED
  BY <1>0, <1>2 DEF Apart, Who, Where, Phases, Begun, Going, Directed, Listed, Streamed

\* Nothing is stored, and nothing is said of it.
LEMMA BackedAtStart ==
  ASSUME NEW s, NEW r, Universe(r), lane \in Lanes \ Streamed, Sound(r)
  PROVE  Backed(lane, s, 0, Nothing, Basis(lane, r))
<1> USE DEF Lanes, Directed, Listed, Streamed
<1>0. /\ IsFiniteSet({}) /\ Cardinality({}) = 0 /\ Len(r) \in Nat
      /\ Heads(r) \subseteq Nat /\ IsFiniteSet(Heads(r)) /\ Cardinality(Heads(r)) \in Nat
      /\ Len(Selected) \in Nat /\ Len(Groups) \in Nat
  BY HeadsOf, FS_EmptySet, NamedOnce
<1>1. \A p : Len(p) \in Nat => Manifest(s, 0, {}, p)
  BY <1>0 DEF Manifest
<1>2. CASE lane \in {"EXECUTIVE", "EXPENSE", "MPM"}
  <2>1. Nothing = {}
    BY <1>2 DEF Nothing
  <2>2. lane \in {"EXECUTIVE", "EXPENSE"} => Basis(lane, r) = r
    BY DEF Basis
  <2>3. (lane = "EXECUTIVE" => Executives(r)) /\ (lane = "EXPENSE" => Expenses(r))
    BY DEF Sound
  <2>4. Len(Names(r)) \in Nat
    BY <1>0, NamesOf
  <2> QED BY <1>0, <1>1, <1>2, <2>1, <2>2, <2>3, <2>4 DEF Backed
<1>3. CASE lane = "CORPORATE"
  <2>1. Nothing = [with |-> 0, without |-> 0] /\ Basis(lane, r) = r /\ Corporations(r)
    BY <1>3 DEF Nothing, Basis, Sound
  <2>2. Len(Names(r)) \in Nat
    BY <1>0, NamesOf
  <2>3. Tally(s, 0, [with |-> 0, without |-> 0], Names(r))
    <3> DEFINE none == {u \in {Names(r)[i] : i \in 1 .. 0} : In(s, u)}
    <3>1. none = {}
      OBVIOUS
    <3>2. Cardinality(none) = 0
      BY <1>0, <3>1
    <3> QED BY <2>2, <3>2 DEF Tally
  <2> QED BY <1>3, <2>1, <2>3 DEF Backed
<1>4. CASE lane = "GRAPH"
  <2>1. Nothing = {} /\ Basis(lane, r) = MeetingsOf(r)
    BY <1>4 DEF Nothing, Basis
  <2>2. Graphed(s, 0, {}, Heads(r))
    <3>1. \A u \in Heads(r) : ~ (Below(Heads(r), u) < 0)
      BY <1>0, Ranks
    <3> QED BY <1>0, <3>1 DEF Graphed
  <2>3. /\ {m[1] : m \in MeetingsOf(r)} = Heads(r)
        /\ \A m, n \in MeetingsOf(r) : m[1] = n[1] => m = n
    BY MeetingNames
  <2>4. Graphed(s, 0, {}, {m[1] : m \in MeetingsOf(r)})
    BY <2>2, <2>3
  <2>5. Backed("GRAPH", s, 0, {}, MeetingsOf(r))
    BY <2>3, <2>4 DEF Backed
  <2> QED BY <1>4, <2>1, <2>5
<1>5. CASE lane = "REVIEW"
  <2> DEFINE f == PacketsOf(r)
             g == [u \in Heads(r) |-> Packet(r, u)]
  <2>1. Nothing = 0 /\ Basis(lane, r) = f
    BY <1>5 DEF Nothing, Basis
  <2>2. IsFiniteSet(f)
    <3>1. DOMAIN g = Heads(r)
      OBVIOUS
    <3>2. IsFiniteSet({g[u] : u \in Heads(r)})
      <4> HIDE DEF g
      <4> QED BY <1>0, <3>1, ImageOf
    <3>3. {g[u] : u \in Heads(r)} = f
      BY DEF PacketsOf
    <3> QED BY <3>2, <3>3
  <2>3. {x \in f : Max(x[3]) <= 0} = {}
    <3>1. \A u \in Heads(r) : Max(Places(r, u)) \in 1 .. Len(r)
      BY EndsOf
    <3>2. \A u \in Heads(r) : ~ (Max(Places(r, u)) <= 0)
      BY <1>0, <3>1
    <3>3. \A u : Packet(r, u)[3] = Places(r, u)
      BY DEF Packet
    <3> QED BY <3>2, <3>3 DEF PacketsOf
  <2>4. Reviewed(s, 0, 0, f)
    <3> HIDE DEF f
    <3> QED BY <1>0, <2>2, <2>3 DEF Reviewed
  <2> QED BY <1>5, <2>1, <2>4 DEF Backed
<1>6. CASE lane \in {"MEETINGS", "MEMBERS", "BIOGRAPHY"}
  <2>1. lane # "MEETINGS" => Nothing = {}
    BY <1>6 DEF Nothing
  <2> QED BY <1>0, <1>6, <2>1 DEF Backed, Kept
<1> QED
  BY <1>2, <1>3, <1>4, <1>5, <1>6

\* A checkpoint that can be resumed backs the universe it is resumed over.
LEMMA BackedAgain ==
  ASSUME NEW s, NEW me, NEW k, lane \in Resumable, Universe(me.read), Sealed(lane, s, k), Resumes(k, me.read)
  PROVE  /\ Backed(lane, s, k.cursor, k.held, Basis(lane, me.read))
         /\ k.cursor \in Nat /\ k.cursor < StepsOf(lane, me)
         /\ lane = "MPM" => k.held = {} \/ 0 < k.cursor
<1> USE DEF Resumable, Directed, Listed
<1> DEFINE r == me.read
<1>0. k.cursor \in Nat /\ Backed(lane, s, k.cursor, k.held, k.fingerprint) /\ k.total \in Nat
  BY DEF Sealed
<1>00. /\ lane \in Lanes \ Streamed /\ Steps(me) = StepsOf(lane, me)
  <2>1. lane \in Lanes \ Streamed
    BY DEF Lanes, Streamed
  <2> QED BY <2>1, StepsAre
<1>1. CASE lane \in Directed
  <2>1. k.fingerprint = r /\ Basis(lane, r) = r
    BY <1>1 DEF Resumes, ExecutiveResumes, CorporateResumes, ExpenseResumes, Basis
  <2>2. k.cursor < StepsOf(lane, me)
    BY <1>1 DEF Resumes, ExecutiveResumes, CorporateResumes, ExpenseResumes, StepsOf, Streamed
  <2> QED BY <1>0, <1>1, <2>1, <2>2
<1>2. CASE lane = "GRAPH"
  <2>1. k.fingerprint = MeetingsOf(r) /\ Basis(lane, r) = MeetingsOf(r)
    BY <1>2 DEF Resumes, GraphResumes, Fingerprint, MeetingsOf, Basis
  <2>2. k.cursor < StepsOf(lane, me)
    BY <1>2 DEF Resumes, GraphResumes, StepsOf, Streamed
  <2> QED BY <1>0, <1>2, <2>1, <2>2
<1>3. CASE lane = "REVIEW"
  <2>1. k.fingerprint = PacketsOf(r) /\ Basis(lane, r) = PacketsOf(r)
    BY <1>3 DEF Resumes, ReviewResumes, Fingerprint, PacketsOf, Basis
  <2>2. k.cursor < StepsOf(lane, me)
    BY <1>00, <1>3 DEF Resumes, ReviewResumes, Steps, Streamed
  <2> QED BY <1>0, <1>3, <2>1, <2>2
<1>4. CASE lane = "MPM"
  <2>1. Manifest(s, k.cursor, k.held, Groups) /\ \A x \in k.held : x[2] # Empty
    BY <1>0, <1>4 DEF Backed
  <2>2. k.cursor < StepsOf(lane, me)
    BY <1>4 DEF Resumes, MpmResumes, StepsOf, Streamed
  <2>3. k.held = {} \/ 0 < k.cursor
    <3>1. k.cursor = 0 => k.held = {}
      BY <2>1, FS_EmptySet DEF Manifest
    <3> QED BY <1>0, <3>1
  <2> QED BY <1>0, <1>4, <2>1, <2>2, <2>3 DEF Backed
<1> QED
  BY <1>1, <1>2, <1>3, <1>4

LEMMA BeginApart ==
  ASSUME IInv, NEW w \in Workers, Begin(w)
  PROVE  Apart(lane, stored, worker'[w])
<1> DEFINE me == worker[w]
           new == worker'[w]
           r == me.read
<1>0. SiteInv /\ Apart(lane, stored, me) /\ Universe(r) /\ lane \in Lanes
  BY ReadIs DEF IInv, WorkInv, SiteInv, Lanes
<1>1. /\ me.phase = "reading" /\ Sound(r) /\ UniverseRead(me)
      /\ Who(new, me) /\ What(new, me)
      /\ \/ /\ me.resume /\ ~Afresh(me) /\ Resumes(me.prior, r) /\ new.prior = None
            /\ new.phase = IF lane = "MPM" THEN "verifying" ELSE "stepping"
            /\ new.cursor = me.prior.cursor /\ new.held = me.prior.held
         \/ /\ ~me.resume \/ Afresh(me)
            /\ new.phase = IF lane \in Directed THEN "directory" ELSE "stepping"
            /\ new.cursor = me.cursor /\ new.held = Nothing /\ new.prior = me.prior
  BY <1>0, BeginDoes
<1>2. lane \in Lanes \ Streamed
  <2>1. lane \in Streamed => me.total = None /\ lane # "MPM"
    BY <1>0, <1>1 DEF Apart, Streamed
  <2> QED BY <1>0, <1>1, <2>1 DEF UniverseRead
<1>3. lane = "MPM" => new.read = <<>>
  BY <1>0, <1>1 DEF Apart, What
<1>4. StepsOf(lane, new) = StepsOf(lane, me) /\ StepsOf(lane, me) \in Nat
  <2>1. StepsOf(lane, me) \in Nat
    BY <1>0, <1>2, StepsAre
  <2> QED BY <1>1, <2>1 DEF StepsOf, What
<1>5. CASE /\ me.resume /\ ~Afresh(me) /\ Resumes(me.prior, r) /\ new.prior = None
           /\ new.phase = IF lane = "MPM" THEN "verifying" ELSE "stepping"
           /\ new.cursor = me.prior.cursor /\ new.held = me.prior.held
  <2>1. lane \in Resumable
    BY <1>0, <1>2, <1>5 DEF Apart
  <2>2. me.prior # None
    <3>1. CASE lane \in Directed
      BY <1>0, <1>1, <1>5, <3>1 DEF Apart
    <3>2. CASE lane \in {"GRAPH", "REVIEW"}
      BY <1>5, <3>2 DEF Resumes, GraphResumes, ReviewResumes
    <3>3. CASE lane = "MPM"
      BY <1>5, <3>3 DEF Afresh
    <3> QED BY <2>1, <3>1, <3>2, <3>3 DEF Resumable
  <2>3. Sealed(lane, stored, me.prior)
    BY <1>0, <2>2 DEF Apart
  <2>4. /\ Backed(lane, stored, new.cursor, new.held, Basis(lane, new.read))
        /\ new.cursor \in Nat /\ new.cursor < StepsOf(lane, new)
        /\ lane = "MPM" => new.held = {} \/ 0 < new.cursor
    <3>1. /\ Backed(lane, stored, me.prior.cursor, me.prior.held, Basis(lane, r))
          /\ me.prior.cursor \in Nat /\ me.prior.cursor < StepsOf(lane, me)
          /\ lane = "MPM" => me.prior.held = {} \/ 0 < me.prior.cursor
      BY <1>0, <1>5, <2>1, <2>3, BackedAgain
    <3> QED BY <1>1, <1>4, <1>5, <3>1 DEF What
  <2>5. Covered(lane, stored, new)
    <3>1. lane \notin {"MEETINGS", "MEMBERS", "BIOGRAPHY"} /\ lane \notin Streamed
      BY <2>1 DEF Resumable, Directed, Streamed
    <3>2. ASSUME lane = "MPM"
          PROVE  new.phase = "verifying" /\ Len(new.read) = 0 /\ DOMAIN new.read = {}
      BY <1>3, <1>5, <3>2
    <3> QED BY <2>4, <3>1, <3>2 DEF Covered, Going
  <2>6. /\ new.phase \in {"verifying", "stepping"} /\ (new.phase = "verifying" => lane = "MPM")
        /\ new.resume \in BOOLEAN
    BY <1>0, <1>1, <1>5 DEF Apart, Who
  <2>7. new.cursor <= StepsOf(lane, new)
    BY <1>4, <2>4
  <2> QED BY <1>2, <1>5, <2>1, <2>4, <2>5, <2>6, <2>7 DEF Apart, Phases, Begun, Going
<1>6. CASE /\ ~me.resume \/ Afresh(me)
           /\ new.phase = IF lane \in Directed THEN "directory" ELSE "stepping"
           /\ new.cursor = me.cursor /\ new.held = Nothing /\ new.prior = me.prior
  <2>1. new.cursor = 0
    BY <1>0, <1>1, <1>6 DEF Apart
  <2>2. Backed(lane, stored, new.cursor, new.held, Basis(lane, new.read))
    BY <1>0, <1>1, <1>2, <1>6, <2>1, BackedAtStart DEF What
  <2>3. Covered(lane, stored, new)
    <3> USE DEF Directed, Listed, Streamed
    <3>1. ASSUME lane = "MEETINGS"
          PROVE  Opened(r, 0) \subseteq stored
      <4>1. \A u \in Heads(r) : Min(Places(r, u)) \in 1 .. Len(r) /\ Len(r) \in Nat
        BY <1>0, EndsOf, HeadsOf
      <4>2. \A u \in Heads(r) : ~ (Min(Places(r, u)) <= 0)
        BY <4>1
      <4> QED BY <4>2 DEF Opened
    <3>2. ASSUME lane \in {"MEMBERS", "BIOGRAPHY"}
          PROVE  Distinct(r) /\ r # <<>> /\ new.held = First(r, 0)
      <4>1. Distinct(r) /\ r # <<>>
        BY <1>1, <3>2 DEF Sound, Memberships, Biographies
      <4>2. Nothing = {} /\ First(r, 0) = {}
        BY <3>2 DEF Nothing, First
      <4> QED BY <1>6, <4>1, <4>2
    <3>3. ASSUME lane = "MPM"
          PROVE  new.phase = "stepping" /\ Len(new.read) = 0 /\ DOMAIN new.read = {}
      BY <1>3, <1>6, <3>3
    <3>4. new.read = r
      BY <1>1 DEF What
    <3> QED BY <1>2, <2>1, <3>1, <3>2, <3>3, <3>4 DEF Covered, Going
  <2>4. /\ new.phase \in {"directory", "stepping"} /\ (new.phase = "directory" => lane \in Directed)
        /\ new.resume \in BOOLEAN /\ (new.prior # None => Sealed(lane, stored, new.prior))
        /\ (new.resume => lane \in Resumable \cup Streamed)
    BY <1>0, <1>1, <1>6 DEF Apart, Who
  <2>5. new.cursor <= StepsOf(lane, new)
    BY <1>4, <2>1
  <2> QED BY <1>2, <2>1, <2>2, <2>3, <2>4, <2>5 DEF Apart, Phases, Begun, Going
<1> QED
  BY <1>1, <1>5, <1>6

LEMMA BeginStreamApart ==
  ASSUME IInv, NEW w \in Workers, BeginStream(w)
  PROVE  Apart(lane, stored, worker'[w])
<1> DEFINE me == worker[w]
           new == worker'[w]
<1>0. SiteInv /\ Apart(lane, stored, me)
  BY DEF IInv, WorkInv
<1>1. /\ me.phase = "reading" /\ lane \in Streamed /\ new.phase = "stepping"
      /\ Who(new, me) /\ new.read = me.read /\ new.prior = None
      /\ \/ /\ me.prior # None /\ StreamResumes(me.prior, me.size)
            /\ new.cursor = me.prior.cursor /\ new.held = me.prior.held
            /\ new.total = me.prior.fingerprint[1] /\ new.pages = me.prior.total
         \/ /\ me.prior = None
            /\ What(new, me) /\ Where(new, me)
  BY <1>0, BeginStreamDoes
<1>2. /\ new.resume \in BOOLEAN /\ (new.resume => lane \in Resumable \cup Streamed) /\ new.read = <<>>
      /\ new.size \in Nat \ {0}
  BY <1>0, <1>1 DEF Apart, Who, Begun
<1>3. /\ lane \notin Directed \cup Listed \cup {"GRAPH", "MPM"}
      /\ StepsOf(lane, new) = new.pages
  BY <1>1 DEF Directed, Listed, Streamed, StepsOf
<1>4. /\ Streams(stored, new.cursor, new.held) /\ new.cursor \in Nat
      /\ (new.pages # None => new.cursor <= new.pages)
      /\ Covered(lane, stored, new)
  <2>1. CASE /\ me.prior # None /\ StreamResumes(me.prior, me.size)
             /\ new.cursor = me.prior.cursor /\ new.held = me.prior.held
             /\ new.total = me.prior.fingerprint[1] /\ new.pages = me.prior.total
    <3>1. Sealed(lane, stored, me.prior)
      BY <1>0, <2>1 DEF Apart
    <3>2. /\ new.pages \in Nat /\ new.cursor \in 0 .. new.pages /\ Streams(stored, new.cursor, new.held)
          /\ new.total \in Nat
      BY <1>1, <2>1, <3>1 DEF Sealed, Backed
    <3>3. new.pages # None /\ new.total # None
      BY <3>2, NoneAssumption
    <3> QED BY <1>1, <1>3, <3>2, <3>3 DEF Covered, Listed
  <2>2. CASE me.prior = None /\ What(new, me) /\ Where(new, me)
    <3>1. new.cursor = 0 /\ new.held = {} /\ new.total = None /\ new.pages = None
      BY <1>0, <1>1, <2>2 DEF Apart, What, Where, Begun
    <3>2. Streams(stored, 0, {})
      <4>1. UNION {} = {} /\ IsFiniteSet({}) /\ Cardinality({}) = 0
        BY FS_EmptySet
      <4> QED BY <4>1 DEF Streams
    <3> QED BY <1>1, <1>3, <3>1, <3>2 DEF Covered, Listed
  <2> QED BY <1>1, <2>1, <2>2
<1>5. Backed(lane, stored, new.cursor, new.held, Basis(lane, new.read))
  BY <1>1, <1>3, <1>4 DEF Backed, Directed, Listed
<1> QED
  BY <1>1, <1>2, <1>3, <1>4, <1>5 DEF Apart, Phases, Begun, Going

\* A process that has committed a directory or a part of a meeting, or has tested or finished.
LEMMA OnwardApart ==
  ASSUME NEW s, NEW me, NEW new, lane \in Lanes, Apart(lane, s, me), Universe(me.read),
         Who(new, me), What(new, me), Where(new, me), new.prior = me.prior,
         \/ me.phase = "directory" /\ new.phase = "stepping"
         \/ /\ me.phase \in {"fetched", "parts"} /\ new.phase = "parts" /\ lane = "GRAPH"
            /\ new.unit = me.unit
         \/ /\ me.phase \in {"stepping", "tested"} /\ new.phase \in {"tested", "done"}
            /\ StepsOf(lane, me) # None /\ me.cursor = StepsOf(lane, me)
            /\ lane \in Streamed => Cardinality(UNION me.held) = me.total
  PROVE  Apart(lane, s, new)
<1> USE DEF Directed, Listed, Streamed
<1>1. Steps(me) = StepsOf(lane, me) /\ (lane \notin Streamed => StepsOf(lane, me) \in Nat)
  BY StepsAre
<1>2. /\ StepsOf(lane, new) = StepsOf(lane, me) /\ Basis(lane, new.read) = Basis(lane, me.read)
      /\ new.cursor = me.cursor /\ new.held = me.held /\ new.read = me.read
  BY DEF What, Where, StepsOf
<1>3. Backed(lane, s, new.cursor, new.held, Basis(lane, new.read))
  BY <1>2 DEF Apart, Begun
<1>4. Covered(lane, s, me)
  BY DEF Apart, Begun
<1>5. Covered(lane, s, new)
  BY <1>4 DEF Covered, What, Where, Going, Apart
<1>6. me.cursor \in Nat /\ (me.phase = "directory" => me.cursor = 0 /\ lane \in Directed)
  BY DEF Apart
<1>7. StepsOf(lane, new) # None => new.cursor <= StepsOf(lane, new)
  <2>1. CASE me.phase = "directory"
    BY <1>1, <1>2, <1>6, <2>1
  <2>2. CASE me.phase # "directory"
    BY <1>2, <2>2 DEF Apart, Going
  <2> QED BY <2>1, <2>2
<1>8. new.phase = "parts" => Next1(lane, new)
  <2> SUFFICES ASSUME new.phase = "parts" PROVE Next1(lane, new)
    OBVIOUS
  <2>1. Next1(lane, me) /\ lane = "GRAPH" /\ new.unit = me.unit
    BY DEF Apart
  <2> QED BY <1>2, <2>1 DEF Next1
<1>9. /\ new.phase \in {"stepping", "parts", "tested", "done"}
      /\ (new.phase = "parts" => lane = "GRAPH")
      /\ new.phase \in {"tested", "done"} =>
           /\ StepsOf(lane, new) # None /\ new.cursor = StepsOf(lane, new)
           /\ lane \in Streamed => Cardinality(UNION new.held) = new.total
  BY <1>2 DEF What
<1>10. /\ new.prior # None => Sealed(lane, s, new.prior)
       /\ new.resume \in BOOLEAN /\ (new.resume => lane \in Resumable \cup Streamed)
       /\ lane \in Streamed => new.read = <<>> /\ new.size \in Nat \ {0}
       /\ new.cursor \in Nat
  <2>1. me.phase # "idle"
    OBVIOUS
  <2> QED BY <2>1, <1>2 DEF Apart, Who
<1> QED
  BY <1>3, <1>5, <1>7, <1>8, <1>9, <1>10 DEF Apart, Phases, Begun, Going

LEMMA TestFits ==
  ASSUME IInv, NEW w \in Workers, Test(w)
  PROVE  LET me == worker[w] IN
         /\ StepsOf(lane, me) # None /\ me.cursor = StepsOf(lane, me) /\ me.cursor \in Nat
         /\ lane \in Streamed => Cardinality(UNION me.held) = me.total
<1> DEFINE me == worker[w]
<1>0. SiteInv /\ Apart(lane, stored, me) /\ Universe(me.read) /\ lane \in Lanes
  BY ReadIs DEF IInv, WorkInv, SiteInv, Lanes
<1>1. me.phase = "stepping" /\ ~ (Steps(me) # None => me.cursor < Steps(me)) /\ Whole(me)
  BY <1>0, TestDoes DEF Left
<1>2. Steps(me) = StepsOf(lane, me) /\ (lane \notin Streamed => StepsOf(lane, me) \in Nat)
  BY <1>0, StepsAre
<1>3. /\ StepsOf(lane, me) # None /\ ~ (me.cursor < StepsOf(lane, me)) /\ me.cursor <= StepsOf(lane, me)
      /\ me.cursor \in Nat
  BY <1>0, <1>1, <1>2 DEF Apart, Going
<1>4. StepsOf(lane, me) \in Nat
  <2>1. CASE lane \in Streamed
    <3>1. StepsOf(lane, me) = me.pages /\ Covered(lane, stored, me)
      BY <1>0, <1>1, <2>1 DEF StepsOf, Streamed, Apart, Begun
    <3> QED BY <1>3, <2>1, <3>1 DEF Covered
  <2> QED BY <1>2, <2>1
<1>5. me.cursor = StepsOf(lane, me)
  BY <1>3, <1>4
<1>6. lane \in Streamed => Cardinality(UNION me.held) = me.total
  BY <1>1 DEF Whole, Streamed
<1> QED
  BY <1>3, <1>5, <1>6

LEMMA VerifyApart ==
  ASSUME IInv, NEW w \in Workers, Verify(w)
  PROVE  Apart(lane, stored, worker'[w])
<1> DEFINE me == worker[w]
           new == worker'[w]
           n == Len(me.read) + 1
           x == <<Groups[n], content[Groups[n]]>>
<1>0. SiteInv /\ Apart(lane, stored, me) /\ me.read \in Seq(Site)
  BY ReadIs DEF IInv, WorkInv
<1>1. /\ me.phase = "verifying" /\ new.phase = IF n = me.cursor THEN "stepping" ELSE "verifying"
      /\ x \in me.held /\ new.read = Append(me.read, x)
      /\ Who(new, me) /\ Where(new, me) /\ new.prior = me.prior
  BY <1>0, VerifyDoes
<1>2. lane = "MPM" /\ n \in 1 .. Len(Groups) /\ n <= me.cursor
  BY VerifyFits
<1>3. lane \notin Directed \cup Listed \cup Streamed \cup {"GRAPH"}
  BY <1>2 DEF Directed, Listed, Streamed
<1>4. /\ Len(new.read) = n /\ DOMAIN new.read = 1 .. n /\ DOMAIN me.read = 1 .. n - 1 /\ n \in Nat
      /\ \A i \in 1 .. n - 1 : new.read[i] = me.read[i]
      /\ new.read[n] = x
  <2> HIDE DEF x, me, new
  <2> QED BY <1>0, <1>1 DEF n
<1> HIDE DEF n
<1>5. /\ Manifest(stored, me.cursor, me.held, Groups) /\ \A y \in me.held : y[2] # Empty
      /\ Covered(lane, stored, me) /\ me.cursor \in 0 .. Len(Groups)
  <2>1. Backed(lane, stored, me.cursor, me.held, Basis(lane, me.read)) /\ Covered(lane, stored, me)
    BY <1>0, <1>1 DEF Apart, Begun
  <2> QED BY <1>2, <2>1 DEF Backed, Manifest
<1>6. Backed(lane, stored, new.cursor, new.held, Basis(lane, new.read))
  BY <1>1, <1>2, <1>3, <1>5 DEF Backed, Where, Listed
<1>7. /\ \A i \in DOMAIN new.read : new.read[i][1] = Groups[i] /\ new.read[i] \in new.held
  <2>1. \A i \in 1 .. n - 1 : me.read[i][1] = Groups[i] /\ me.read[i] \in me.held
    BY <1>1, <1>2, <1>4, <1>5 DEF Covered
  <2>2. x[1] = Groups[n]
    OBVIOUS
  <2>3. \A i \in 1 .. n : i \in 1 .. n - 1 \/ i = n
    BY <1>4
  <2> HIDE DEF x
  <2> QED BY <1>1, <1>4, <2>1, <2>2, <2>3 DEF Where
<1>8. Covered(lane, stored, new)
  <2>1. new.phase = "verifying" => Len(new.read) < new.cursor
    BY <1>1, <1>2, <1>4, <1>5 DEF Where
  <2>2. new.phase \in Going => new.phase = "stepping" /\ Len(new.read) = new.cursor
    BY <1>1, <1>4 DEF Where, Going
  <2> QED BY <1>2, <1>3, <1>7, <2>1, <2>2 DEF Covered, Listed
<1>9. /\ StepsOf(lane, new) = Len(Groups) /\ new.cursor \in 0 .. Len(Groups) /\ new.cursor \in Nat
  BY <1>0, <1>1, <1>2, <1>5, GroupsAre DEF StepsOf, Where, Streamed
<1>10. new.cursor <= StepsOf(lane, new)
  BY <1>2, <1>9
<1> QED
  BY <1>0, <1>1, <1>2, <1>3, <1>6, <1>8, <1>9, <1>10 DEF Apart, Who, Where, Phases, Begun, Going

\* What the provider answers is the next step of the plan.
LEMMA AnswerIs ==
  ASSUME IInv, NEW w \in Workers, Fetch(w)
  PROVE  LET me == worker[w]
             u == Plan(me.read)[me.cursor + 1]
             x == <<u, Answer(me, u)>> IN
         /\ u \in Nat /\ Answer(me, u) \in Kinds
         /\ lane \in {"EXECUTIVE", "CORPORATE"} => u = me.read[me.cursor + 1][1]
         /\ lane = "EXPENSE" => u = Selected[me.cursor + 1] /\ x \in Range(me.read) /\ x[2] # Empty
         /\ lane = "MPM" => x[2] # Empty
         /\ lane = "GRAPH" => u \in Heads(me.read) /\ Below(Heads(me.read), u) = me.cursor /\ x[2] # Empty
         /\ lane \in Listed => u = me.cursor + 1
<1> DEFINE me == worker[w]
           r == me.read
           c == me.cursor
           u == Plan(r)[c + 1]
           x == <<u, Answer(me, u)>>
<1> USE DEF Directed, Listed, Streamed
<1>0. SiteInv /\ Apart(lane, stored, me) /\ Universe(r) /\ r \in Seq(Site)
  BY ReadIs DEF IInv, WorkInv
<1>1. /\ lane \in Lanes \ Streamed /\ me.phase = "stepping" /\ c \in Nat /\ c < StepsOf(lane, me)
      /\ lane = "MPM" => u = Groups[c + 1] /\ x \in Site
  BY FetchFits
<1>2. Usable(me.held, x) /\ Backed(lane, stored, c, me.held, Basis(lane, r))
  BY <1>0, <1>1, FetchDoes DEF Apart, Begun
<1>3. /\ StepsOf(lane, me) \in Nat
      /\ lane \in {"EXECUTIVE", "CORPORATE"} => \A i \in 1 .. Len(r) : Plan(r)[i] = r[i][1]
      /\ lane = "EXPENSE" => Plan(r) = Selected
      /\ lane = "GRAPH" => \A d \in 0 .. Cardinality(Heads(r)) - 1 :
           LET v == Plan(r)[d + 1] IN v \in Heads(r) /\ Below(Heads(r), v) = d
      /\ lane \in Listed => \A i \in 1 .. StepsOf(lane, me) : Plan(r)[i] = i
  BY <1>0, <1>1, StepsAre
<1>4. /\ Len(r) \in Nat /\ DOMAIN r = 1 .. Len(r)
      /\ Heads(r) \subseteq Nat /\ Cardinality(Heads(r)) \in Nat
      /\ \A i \in DOMAIN r : r[i] = <<r[i][1], r[i][2]>> /\ r[i][1] \in Nat /\ r[i][2] \in Kinds
  BY <1>0, HeadsOf, UnitsAssumption
<1>5. \A v \in DOMAIN content : content[v] \in Kinds
  BY <1>0 DEF SiteInv
<1>6. \A i \in DOMAIN r : r[i][1] \in DOMAIN content
  BY <1>0, <1>4 DEF Site
<1>7. CASE lane \in {"EXECUTIVE", "CORPORATE"}
  <2>1. StepsOf(lane, me) = Len(r) /\ Answer(me, u) = content[u]
    BY <1>7 DEF StepsOf, Answer
  <2>2. c + 1 \in DOMAIN r /\ u = r[c + 1][1]
    <3>1. c \in Nat /\ c < Len(r) /\ Len(r) \in Nat /\ DOMAIN r = 1 .. Len(r)
      BY <1>1, <1>4, <2>1
    <3> HIDE DEF c
    <3>2. c + 1 \in 1 .. Len(r)
      BY <3>1
    <3>3. \A i \in 1 .. Len(r) : Plan(r)[i] = r[i][1]
      BY <1>3, <1>7
    <3> QED BY <3>1, <3>2, <3>3
  <2> QED BY <1>4, <1>5, <1>6, <1>7, <2>1, <2>2
<1>8. CASE lane = "EXPENSE"
  <2>1. StepsOf(lane, me) = Len(Selected) /\ u = Selected[c + 1]
    BY <1>3, <1>8 DEF StepsOf
  <2>2. u \in Range(Selected) /\ u \in Nat
    <3>1. c + 1 \in 1 .. Len(Selected) /\ DOMAIN Selected = 1 .. Len(Selected)
      BY <1>1, <1>3, <2>1, NamedOnce
    <3>2. Selected[c + 1] \in Units
      BY <3>1, NamedOnce
    <3> QED BY <2>1, <3>1, <3>2, UnitsAssumption DEF Range
  <2>3. Expenses(r)
    BY <1>2, <1>8 DEF Backed, Basis
  <2>4. PICK i \in DOMAIN r : r[i][1] = u /\ r[i][2] # Empty
    BY <2>2, <2>3 DEF Expenses, Places
  <2>5. r[i][2] \in Contents /\ <<u, r[i][2]>> \in Range(r)
    <3>1. r[i] = <<u, r[i][2]>> /\ r[i][2] \in Contents
      BY <1>4, <2>4 DEF Kinds
    <3> QED BY <3>1 DEF Range
  <2>6. Answer(me, u) = CHOOSE d \in Contents : <<u, d>> \in Range(r)
    BY <1>8 DEF Answer
  <2>7. Answer(me, u) \in Contents /\ x \in Range(r)
    BY <2>5, <2>6
  <2> QED BY <1>8, <2>1, <2>2, <2>7, UnitsAssumption DEF Kinds
<1>9. CASE lane = "MPM"
  <2>1. x[2] # Empty
    BY <1>2, <1>9 DEF Usable, AttachmentUsable
  <2>2. u \in Nat /\ Answer(me, u) \in Kinds
    BY <1>0, <1>1, <1>9, UnitsAssumption DEF SiteInv, Site
  <2> QED BY <1>9, <2>1, <2>2
<1>10. CASE lane = "GRAPH"
  <2>1. StepsOf(lane, me) = Cardinality(Heads(r)) /\ Answer(me, u) = content[u]
    BY <1>10 DEF StepsOf, Answer
  <2>2. u \in Heads(r) /\ Below(Heads(r), u) = c
    <3>1. c \in 0 .. Cardinality(Heads(r)) - 1
      BY <1>1, <1>4, <2>1
    <3> QED BY <1>3, <1>10, <3>1
  <2>3. u \in DOMAIN content /\ u \in Nat
    BY <1>4, <1>6, <2>2 DEF Heads
  <2>4. x[2] # Empty
    BY <1>2, <1>10 DEF Usable, MeetingUsable
  <2> QED BY <1>5, <1>10, <2>1, <2>2, <2>3, <2>4
<1>11. CASE lane \in Listed
  <2>1. Answer(me, u) = Empty /\ Empty \in Kinds
    BY <1>11 DEF Answer, Kinds
  <2>2. u = c + 1 /\ u \in Nat
    BY <1>1, <1>3, <1>11
  <2> QED BY <1>11, <2>1, <2>2
<1> QED
  BY <1>1, <1>7, <1>8, <1>9, <1>10, <1>11 DEF Lanes

LEMMA FetchApart ==
  ASSUME IInv, NEW w \in Workers, Fetch(w)
  PROVE  Apart(lane, stored, worker'[w])
<1> DEFINE me == worker[w]
           new == worker'[w]
           r == me.read
           c == me.cursor
           u == Plan(r)[c + 1]
           x == <<u, Answer(me, u)>>
<1>0. SiteInv /\ Apart(lane, stored, me) /\ r \in Seq(Site) /\ Universe(r)
  BY ReadIs DEF IInv, WorkInv
<1>1. /\ new.phase = "fetched" /\ new.unit = x
      /\ new.read = IF lane = "MPM" THEN Append(r, x) ELSE r
      /\ new.held = IF lane = "GRAPH" THEN Conflicts(me.held, x) ELSE me.held
      /\ Who(new, me) /\ new.prior = me.prior /\ new.cursor = c
      /\ new.total = me.total /\ new.pages = me.pages
  BY <1>0, FetchDoes
<1>2. /\ lane \in Lanes \ Streamed /\ me.phase = "stepping" /\ c \in Nat /\ c < StepsOf(lane, me)
      /\ lane = "MPM" => u = Groups[c + 1] /\ x \in Site
  BY FetchFits
<1>3. /\ u \in Nat /\ x[2] \in Kinds
      /\ lane \in {"EXECUTIVE", "CORPORATE"} => u = r[c + 1][1]
      /\ lane = "EXPENSE" => u = Selected[c + 1] /\ x \in Range(r) /\ x[2] # Empty
      /\ lane = "MPM" => x[2] # Empty
      /\ lane = "GRAPH" => u \in Heads(r) /\ Below(Heads(r), u) = c /\ x[2] # Empty
      /\ lane \in Listed => u = c + 1
  BY AnswerIs
<1>4. x = <<x[1], x[2]>> /\ x[1] = u
  OBVIOUS
<1> HIDE DEF x, u
<1> USE DEF Directed, Listed, Streamed
<1>5. StepsOf(lane, new) = StepsOf(lane, me) /\ StepsOf(lane, me) \in Nat
  BY <1>0, <1>1, <1>2, StepsAre DEF StepsOf
<1>6. Backed(lane, stored, c, me.held, Basis(lane, r)) /\ Covered(lane, stored, me)
  BY <1>0, <1>2 DEF Apart, Begun
<1>7. Backed(lane, stored, new.cursor, new.held, Basis(lane, new.read))
  <2>1. CASE lane = "GRAPH"
    <3>1. me.held \subseteq new.held /\ new.read = r /\ Basis(lane, r) = MeetingsOf(r)
      BY <1>1, <2>1 DEF Conflicts, Basis
    <3>2. /\ \A m, n \in MeetingsOf(r) : m[1] = n[1] => m = n
          /\ Graphed(stored, c, me.held, {m[1] : m \in MeetingsOf(r)})
      BY <1>6, <2>1, <3>1 DEF Backed
    <3>3. Graphed(stored, c, new.held, {m[1] : m \in MeetingsOf(r)})
      BY <3>1, <3>2 DEF Graphed
    <3>4. Backed("GRAPH", stored, c, new.held, MeetingsOf(r))
      BY <3>2, <3>3 DEF Backed
    <3> QED BY <1>1, <2>1, <3>1, <3>4
  <2>2. CASE lane = "MPM"
    <3>1. Manifest(stored, c, me.held, Groups) /\ \A y \in me.held : y[2] # Empty
      BY <1>6, <2>2 DEF Backed
    <3> QED BY <1>1, <2>2, <3>1 DEF Backed
  <2>3. CASE lane \notin {"GRAPH", "MPM"}
    BY <1>1, <1>6, <2>3
  <2> QED BY <2>1, <2>2, <2>3
<1>8. Next1(lane, new)
  <2>1. /\ new.cursor < StepsOf(lane, new) /\ new.unit[1] \in Nat /\ new.unit[2] \in Kinds
        /\ new.unit = <<new.unit[1], new.unit[2]>>
    BY <1>1, <1>2, <1>3, <1>4, <1>5
  <2>2. lane = "GRAPH" /\ x[2] \in Clashing => u \in new.held
    BY <1>1, <1>4 DEF Conflicts
  <2>3. lane # "MPM" => new.read = r
    BY <1>1
  <2> QED BY <1>1, <1>2, <1>3, <1>4, <2>1, <2>2, <2>3 DEF Next1
<1>9. Covered(lane, stored, new)
  <2>1. CASE lane = "MPM"
    <3>1. /\ \A i \in DOMAIN r : r[i][1] = Groups[i] /\ r[i] \in me.held
          /\ Len(r) = c
      BY <1>2, <1>6, <2>1 DEF Covered, Going
    <3>2. /\ Len(new.read) = c + 1 /\ DOMAIN new.read = 1 .. c + 1 /\ DOMAIN r = 1 .. c
          /\ \A i \in 1 .. c : new.read[i] = r[i]
          /\ new.read[c + 1] = x
      <4>1. new.read = Append(r, x) /\ x \in Site
        BY <1>1, <1>2, <2>1
      <4> HIDE DEF r, c, new
      <4> QED BY <1>0, <1>2, <3>1, <4>1
    <3>3. \A i \in 1 .. c + 1 : i \in 1 .. c \/ i = c + 1
      BY <1>2
    <3>4. \A i \in DOMAIN new.read :
            new.read[i][1] = Groups[i] /\ (new.read[i] \in new.held \/ new.read[i] = new.unit)
      BY <1>1, <1>2, <1>4, <2>1, <3>1, <3>2, <3>3
    <3> QED BY <1>1, <2>1, <3>2, <3>4 DEF Covered, Going
  <2>2. CASE lane # "MPM"
    BY <1>1, <1>2, <1>6, <2>2 DEF Covered
  <2> QED BY <2>1, <2>2
<1>10. new.cursor <= StepsOf(lane, new)
  BY <1>1, <1>2, <1>5
<1> QED
  BY <1>0, <1>1, <1>2, <1>7, <1>8, <1>9, <1>10 DEF Apart, Who, Phases, Begun, Going

LEMMA RangeOf ==
  ASSUME NEW S, NEW s \in Seq(S)
  PROVE  Range(s) \subseteq S /\ IsFiniteSet(Range(s))
<1>1. Len(s) \in Nat /\ DOMAIN s = 1 .. Len(s)
  OBVIOUS
<1>2. IsFiniteSet({s[i] : i \in 1 .. Len(s)})
  BY <1>1, PrefixOf
<1>3. Range(s) = {s[i] : i \in 1 .. Len(s)}
  BY <1>1 DEF Range
<1>4. \A i \in 1 .. Len(s) : s[i] \in S
  OBVIOUS
<1> QED
  BY <1>2, <1>3, <1>4

LEMMA SubSeqIn ==
  ASSUME NEW S, NEW s \in Seq(S), NEW a \in Nat \ {0}, NEW b \in 0 .. Len(s)
  PROVE  SubSeq(s, a, b) \in Seq(S)
OBVIOUS

LEMMA TimesIn ==
  ASSUME NEW a \in Nat, NEW b \in Nat
  PROVE  a * b \in Nat
OBVIOUS

LEMMA PageIs ==
  ASSUME SiteInv, NEW c \in Nat, NEW size \in Nat
  PROVE  PageAt(c + 1, size) \in Seq(Site)
<1> DEFINE low == ((c + 1) - 1) * size + 1
           high == Min({(c + 1) * size, Len(listing)})
<1>1. Entries \in Seq(Site) /\ Len(Entries) = Len(listing) /\ Len(listing) \in Nat
  BY ListingIs
<1>2. low \in Nat \ {0}
  <2>1. (c + 1) - 1 = c /\ c * size \in Nat
    BY TimesIn
  <2> QED BY <2>1
<1>3. high \in 0 .. Len(listing)
  <2> DEFINE n == (c + 1) * size
  <2>1. n \in Nat
    BY TimesIn
  <2> HIDE DEF n
  <2>2. {n, Len(listing)} \in SUBSET Nat /\ {n, Len(listing)} # {}
    BY <1>1, <2>1
  <2>3. Min({n, Len(listing)}) \in {n, Len(listing)} /\ Min({n, Len(listing)}) <= Len(listing)
    BY <2>2, MinOf
  <2>4. Min({n, Len(listing)}) \in 0 .. Len(listing)
    BY <1>1, <2>1, <2>3
  <2> QED BY <2>4 DEF n
<1>4. PageAt(c + 1, size) = SubSeq(Entries, low, high)
  BY DEF PageAt
<1> HIDE DEF low, high
<1> QED
  BY <1>1, <1>2, <1>3, <1>4, SubSeqIn

LEMMA FetchPageApart ==
  ASSUME IInv, NEW w \in Workers, FetchPage(w)
  PROVE  Apart(lane, stored, worker'[w])
<1> DEFINE me == worker[w]
           new == worker'[w]
           c == me.cursor
           page == PageAt(c + 1, me.size)
           pages == PagesOf(Len(listing), me.size)
<1>0. SiteInv /\ Apart(lane, stored, me)
  BY DEF IInv, WorkInv
<1>1. /\ lane \in Streamed /\ Left(me) /\ Continues(me, page, Len(listing))
      /\ new.phase = "fetched" /\ new.unit = Range(page)
      /\ new.total = Len(listing) /\ new.pages = pages
      /\ Who(new, me) /\ Where(new, me) /\ new.prior = me.prior /\ new.read = me.read
  BY <1>0, FetchPageDoes
<1>2. /\ me.phase = "stepping" /\ c \in Nat /\ me.size \in Nat \ {0} /\ me.read = <<>>
      /\ Backed(lane, stored, c, me.held, Basis(lane, me.read)) /\ Covered(lane, stored, me)
  BY <1>0, <1>1 DEF Left, Apart, Begun
<1>3. SameScope(me, Len(listing)) /\ Unseen(me, page)
  BY <1>1 DEF Continues, BillsContinue, GazetteContinues, CodesContinue, Streamed
<1>4. page \in Seq(Site)
  BY <1>0, <1>2, PageIs
<1>5. IsFiniteSet(Range(page)) /\ Range(page) \subseteq Units \X Kinds
  <2>1. Site \subseteq Units \X Kinds
    BY <1>0 DEF SiteInv, Site
  <2>2. IsFiniteSet(Range(page)) /\ Range(page) \subseteq Site
    <3> HIDE DEF page
    <3> QED BY <1>4, RangeOf
  <2> QED BY <2>1, <2>2
<1>6. c + 1 <= pages /\ pages \in Nat /\ Len(listing) \in Nat
  <2>1. c + 1 <= pages /\ Len(listing) \in Nat
    BY <1>0, <1>3, ListingIs DEF SameScope
  <2>2. pages \in Int
    BY <1>2, <2>1 DEF PagesOf
  <2> HIDE DEF pages
  <2> QED BY <1>2, <2>1, <2>2
<1> HIDE DEF pages
<1>7. pages # None /\ Len(listing) # None
  BY <1>6, NoneAssumption
<1>8. /\ Range(page) \notin me.held
      /\ \A a, b \in Range(page) : a[1] = b[1] => a = b
      /\ \A a \in Range(page), b \in UNION me.held : a[1] # b[1]
  <2> HIDE DEF page
  <2>1. Distinct(page) /\ Heads(page) \cap {x[1] : x \in UNION me.held} = {} /\ Range(page) \notin me.held
    BY <1>3 DEF Unseen
  <2>2. \A a \in Range(page) : a[1] \in Heads(page)
    BY DEF Range, Heads
  <2>3. \A a, b \in Range(page) : a[1] = b[1] => a = b
    BY <2>1 DEF Range, Distinct
  <2> QED BY <2>1, <2>2, <2>3
<1>9. StepsOf(lane, new) = pages /\ lane \notin Directed \cup Listed \cup {"GRAPH", "MPM"}
  BY <1>1 DEF StepsOf, Streamed, Directed, Listed
<1> HIDE DEF page
<1>10. Next1(lane, new)
  <2>1. new.cursor < StepsOf(lane, new)
    BY <1>1, <1>2, <1>6, <1>9 DEF Where
  <2> QED BY <1>1, <1>5, <1>7, <1>8, <1>9, <2>1 DEF Next1, Where, Directed
<1>11. Covered(lane, stored, new)
  BY <1>1, <1>6, <1>7, <1>9 DEF Covered, Listed
<1>12. Backed(lane, stored, new.cursor, new.held, Basis(lane, new.read))
  BY <1>1, <1>2 DEF Where
<1>13. new.cursor <= StepsOf(lane, new)
  BY <1>1, <1>2, <1>6, <1>9 DEF Where
<1> QED
  BY <1>0, <1>1, <1>2, <1>9, <1>10, <1>11, <1>12, <1>13 DEF Apart, Who, Where, Phases, Begun, Going

LEMMA CommitStepApart ==
  ASSUME IInv, NEW w \in Workers, CommitStep(w)
  PROVE  LET rows == Rows(worker[w].read, worker[w].unit) IN
         Apart(lane, stored \cup rows, worker'[w])
<1> DEFINE me == worker[w]
           new == worker'[w]
           rows == Rows(me.read, me.unit)
           t == stored \cup rows
<1>0. SiteInv /\ Apart(lane, stored, me) /\ Universe(me.read) /\ lane \in Lanes
  BY ReadIs DEF IInv, WorkInv, SiteInv, Lanes
<1>1. /\ me.phase \in {"fetched", "parts"} /\ new.phase = "stepping"
      /\ Backed(lane, t, new.cursor, new.held, Basis(lane, new.read))
      /\ Covered(lane, t, new)
  BY CommitStepFits
<1>2. Stepped(me, new) /\ Who(new, me) /\ new.prior = me.prior
  BY <1>0, CommitStepDoes
<1>3. Next1(lane, me) /\ me.cursor \in Nat /\ Apart(lane, t, me)
  <2>1. stored \subseteq t
    OBVIOUS
  <2>2. Next1(lane, me) /\ me.cursor \in Nat
    BY <1>0, <1>1 DEF Apart
  <2> HIDE DEF t, me
  <2> QED BY <1>0, <2>1, <2>2, ApartGrows
<1>4. StepsOf(lane, new) = StepsOf(lane, me) /\ me.cursor < StepsOf(lane, me)
  BY <1>2, <1>3 DEF StepsOf, Stepped, Next1
<1> HIDE DEF t
<1>5. new.cursor = me.cursor + 1 /\ new.cursor \in Nat
  BY <1>2, <1>3 DEF Stepped
<1>6. StepsOf(lane, new) # None => new.cursor <= StepsOf(lane, new)
  <2>1. CASE lane \in Streamed
    <3>1. Covered(lane, t, me) /\ me.pages # None /\ StepsOf(lane, me) = me.pages
      BY <1>1, <1>3, <2>1 DEF Apart, Begun, Next1, StepsOf, Streamed
    <3>2. me.pages \in Nat
      BY <2>1, <3>1 DEF Covered
    <3> QED BY <1>3, <1>4, <1>5, <3>1, <3>2
  <2>2. CASE lane \notin Streamed
    <3>1. StepsOf(lane, me) \in Nat
      BY <1>0, <2>2, StepsAre
    <3> QED BY <1>3, <1>4, <1>5, <3>1
  <2> QED BY <2>1, <2>2
<1>7. Apart(lane, t, new)
  BY <1>1, <1>2, <1>3, <1>5, <1>6 DEF Apart, Who, Stepped, Phases, Begun, Going
<1> QED
  BY <1>7 DEF t

LEMMA WorkStep ==
  ASSUME IInv, [Next]_vars
  PROVE  WorkInv'
<1>0. SiteInv /\ WorkInv /\ lane \in Lanes
  BY DEF IInv, SiteInv, Lanes
<1>1. CASE UNCHANGED vars \/ Turns
  <2>1. UNCHANGED <<setting, stored, worker>>
    BY <1>1 DEF vars, Turns, Amend, Relist, database
  <2>2. lane' = lane
    BY <2>1 DEF lane
  <2> QED BY <1>0, <2>1, <2>2 DEF WorkInv
<1>2. ASSUME NEW w \in Workers, Steps1(w) PROVE WorkInv'
  <2> DEFINE me == worker[w]
             new == worker'[w]
  <2>0. Apart(lane, stored, me) /\ Universe(me.read)
    BY <1>0, ReadIs DEF WorkInv
  <2>1. CASE \/ ReadCheckpoint(w) \/ ReadRuns(w) \/ StartRun(w) \/ ReadDirectory(w) \/ ReadPage(w)
             \/ Begin(w) \/ BeginStream(w) \/ Verify(w) \/ Fetch(w) \/ FetchPage(w)
    <3>1. UNCHANGED <<setting, stored>>
      BY <2>1 DEF ReadCheckpoint, ReadRuns, StartRun, ReadDirectory, ReadPage, Begin, BeginStream, Verify,
         Fetch, FetchPage, provider, database
    <3>2. Only(w)
      BY <1>0, <2>1, ReadCheckpointDoes, ReadRunsDoes, StartRunDoes, ReadDirectoryDoes, ReadPageDoes,
         BeginDoes, BeginStreamDoes, VerifyDoes, FetchDoes, FetchPageDoes
    <3>3. Apart(lane, stored, new)
      BY <2>1, ReadyApart, ReadingApart, BeginApart, BeginStreamApart, VerifyApart, FetchApart, FetchPageApart
    <3> QED BY <3>1, <3>2, <3>3, WorkFrom
  <2>2. CASE CommitDirectory(w) \/ CommitPart(w) \/ Test(w)
    <3>1. UNCHANGED setting /\ stored' = stored
      BY <2>2 DEF CommitDirectory, CommitPart, Test, Page, provider, database
    <3>2. CASE CommitDirectory(w)
      BY <1>0, <2>0, <3>1, <3>2, WorkFrom, OnwardApart, CommitDirectoryDoes
    <3>3. CASE CommitPart(w)
      BY <1>0, <2>0, <3>1, <3>3, WorkFrom, OnwardApart, CommitPartDoes
    <3>4. CASE Test(w)
      BY <1>0, <2>0, <3>1, <3>4, WorkFrom, OnwardApart, TestDoes, TestFits
    <3> QED BY <2>2, <3>2, <3>3, <3>4
  <2>3. CASE CommitStep(w)
    <3>1. /\ stored' = stored \cup Rows(me.read, me.unit)
      BY <2>3, CommitStepFits DEF Page
    <3>2. UNCHANGED setting /\ Only(w)
      BY <1>0, <2>3, CommitStepDoes DEF CommitStep, provider
    <3>3. Apart(lane, stored', new)
      BY <2>3, <3>1, CommitStepApart
    <3> QED BY <3>1, <3>2, <3>3, WorkFrom
  <2>4. CASE Finish(w)
    <3>1. UNCHANGED <<setting, stored>>
      BY <2>4 DEF Finish, provider
    <3>2. /\ Only(w)
          /\ \/ /\ me.phase = "tested" /\ new.phase = "done"
                /\ Who(new, me) /\ What(new, me) /\ Where(new, me) /\ new.prior = me.prior
             \/ Blank(new)
      BY <1>0, <2>4, FinishDoes
    <3>3. Apart(lane, stored, new)
      <4>1. CASE Blank(new)
        BY <4>1, BlankApart
      <4>2. CASE ~ Blank(new)
        <5>1. /\ StepsOf(lane, me) # None /\ me.cursor = StepsOf(lane, me)
              /\ lane \in Streamed => Cardinality(UNION me.held) = me.total
          BY <2>0, <3>2, <4>2 DEF Apart
        <5> QED BY <1>0, <2>0, <3>2, <4>2, <5>1, OnwardApart
      <4> QED BY <4>1, <4>2
    <3> QED BY <3>1, <3>2, <3>3, WorkFrom
  <2>5. CASE Leaves(w)
    <3>1. UNCHANGED <<setting, stored>>
      BY <2>5 DEF Leaves, Raise, Crash, Exit, provider, database
    <3>2. Only(w) /\ Blank(new)
      BY <1>0, <2>5, LeavesDoes
    <3>3. Apart(lane, stored, new)
      BY <3>2, BlankApart
    <3> QED BY <3>1, <3>2, <3>3, WorkFrom
  <2> QED BY <1>2, <2>1, <2>2, <2>3, <2>4, <2>5 DEF Steps1
<1> QED
  BY <1>1, <1>2, Moves

-----------------------------------------------------------------------------
(* The checkpoint                                                          *)

\* What a process with this cursor writes is a checkpoint.
LEMMA SealOf ==
  ASSUME NEW s, NEW me, lane \in Lanes, Universe(me.read), NEW c, NEW h, NEW k,
         Backed(lane, s, c, h, Basis(lane, me.read)),
         StepsOf(lane, me) \in Nat, c \in 0 .. StepsOf(lane, me),
         lane = "MEETINGS" => Opened(me.read, c) \subseteq s,
         lane \in Streamed => me.total \in Nat,
         k.cursor = c, k.total = Steps(me), k.fingerprint = Known(me), k.held = h
  PROVE  Sealed(lane, s, k)
<1> USE DEF Lanes, Directed, Listed, Streamed
<1> DEFINE r == me.read
           n == StepsOf(lane, me)
<1>1. k.total = n
  BY StepsAre
<1>2. CASE lane \in Directed
  <2>1. k.fingerprint = r /\ Basis(lane, r) = r
    BY <1>2 DEF Known, Fingerprint, Basis
  <2> QED BY <1>1, <1>2, <2>1 DEF Sealed
<1>3. CASE lane = "MPM"
  <2>1. k.fingerprint = Groups
    BY <1>3 DEF Known, Fingerprint
  <2>2. Backed(lane, s, c, h, Groups)
    BY <1>3 DEF Backed
  <2> QED BY <1>1, <1>3, <2>1, <2>2 DEF Sealed
<1>4. CASE lane \in {"GRAPH", "REVIEW"}
  <2>1. k.fingerprint = Basis(lane, r)
    BY <1>4 DEF Known, Fingerprint, Basis, MeetingsOf, PacketsOf
  <2> QED BY <1>1, <1>4, <2>1 DEF Sealed
<1>5. CASE lane = "MEETINGS"
  <2>1. k.fingerprint = MeetingsOf(r)
    BY <1>5 DEF Known, Fingerprint, MeetingsOf
  <2>2. ASSUME c = n PROVE MeetingsOf(r) \subseteq s
    <3>1. \A u \in Heads(r) : Min(Places(r, u)) \in 1 .. Len(r) /\ Len(r) \in Nat
      BY EndsOf, HeadsOf
    <3>2. n = IF r = <<>> THEN 1 ELSE Len(r)
      BY <1>5 DEF StepsOf
    <3>3. \A u \in Heads(r) : Min(Places(r, u)) <= c
      <4>1. r = <<>> => Heads(r) = {}
        BY DEF Heads
      <4> QED BY <2>2, <3>1, <3>2, <4>1
    <3> QED BY <1>5, <3>3 DEF Opened, MeetingsOf
  <2>3. Backed(lane, s, c, h, MeetingsOf(r))
    BY <1>5 DEF Backed
  <2> QED BY <1>1, <1>5, <2>1, <2>2, <2>3 DEF Sealed
<1>6. CASE lane \in {"MEMBERS", "BIOGRAPHY"}
  <2>1. Backed(lane, s, c, h, k.fingerprint)
    BY <1>6 DEF Backed
  <2> QED BY <1>1, <1>6, <2>1 DEF Sealed
<1>7. CASE lane \in Streamed
  <2>1. k.fingerprint = <<me.total, me.size>>
    BY <1>7 DEF Known
  <2>2. Backed(lane, s, c, h, k.fingerprint)
    BY <1>7 DEF Backed
  <2> QED BY <1>1, <1>7, <2>1, <2>2 DEF Sealed
<1> QED
  BY <1>2, <1>3, <1>4, <1>5, <1>6, <1>7

\* The three transactions, and what each leaves in the checkpoint.
Commits(w) == CommitDirectory(w) \/ CommitPart(w) \/ CommitStep(w)

LEMMA CommitsDo ==
  ASSUME IInv, NEW w \in Workers, Commits(w)
  PROVE  LET me == worker[w]
             new == worker'[w] IN
         /\ Only(w) /\ Active(w) /\ me.phase \in Begun /\ new.phase \in {"stepping", "parts"}
         /\ new.run = me.run /\ new.resume = me.resume /\ new.read = me.read /\ new.total = me.total
         /\ new.pages = me.pages
         /\ \E rows : /\ IsFiniteSet(rows) /\ Page(w, rows, new.cursor, new.held)
                      /\ \/ rows = {} /\ new.held = me.held
                         \/ rows = Rows(me.read, me.unit) /\ CommitStep(w)
         /\ StepsOf(lane, new) = StepsOf(lane, me) /\ StepsOf(lane, me) \in Nat
         /\ lane \in Streamed => me.total \in Nat
<1> DEFINE me == worker[w]
           new == worker'[w]
<1>0. SiteInv /\ Apart(lane, stored, me) /\ Universe(me.read) /\ lane \in Lanes
  BY ReadIs DEF IInv, WorkInv, SiteInv, Lanes
<1>1. IsFiniteSet({})
  BY FS_EmptySet
<1>2. /\ Only(w) /\ me.phase \in {"directory", "fetched", "parts"} /\ new.phase \in {"stepping", "parts"}
      /\ new.run = me.run /\ new.resume = me.resume /\ new.read = me.read /\ new.total = me.total
      /\ new.pages = me.pages
      /\ \E rows : /\ IsFiniteSet(rows) /\ Page(w, rows, new.cursor, new.held)
                   /\ \/ rows = {} /\ new.held = me.held
                      \/ rows = Rows(me.read, me.unit) /\ CommitStep(w)
  <2>1. CASE CommitDirectory(w)
    <3>1. /\ me.phase = "directory" /\ Page(w, {}, 0, Nothing) /\ Where(new, me)
      BY <1>0, <2>1, CommitDirectoryDoes
    <3>2. me.cursor = 0 /\ me.held = Nothing
      <4>1. /\ me.cursor = 0 /\ lane \in Directed
            /\ Backed(lane, stored, 0, me.held, Basis(lane, me.read))
        BY <1>0, <3>1 DEF Apart, Begun
      <4>2. CASE lane \in {"EXECUTIVE", "EXPENSE"}
        <5>1. \E p : Manifest(stored, 0, me.held, p)
          BY <4>1, <4>2 DEF Backed
        <5>2. me.held = {}
          BY <5>1, FS_EmptySet DEF Manifest
        <5> QED BY <4>1, <4>2, <5>2 DEF Nothing
      <4>3. CASE lane = "CORPORATE"
        <5>1. \E p : Tally(stored, 0, me.held, p)
          BY <4>1, <4>3 DEF Backed
        <5>2. /\ me.held = [with |-> me.held.with, without |-> me.held.without]
              /\ me.held.with = 0 /\ me.held.without = 0
          BY <5>1 DEF Tally
        <5> QED BY <4>1, <4>3, <5>2 DEF Nothing
      <4> QED BY <4>1, <4>2, <4>3 DEF Directed
    <3> QED BY <1>0, <1>1, <2>1, <3>1, <3>2, CommitDirectoryDoes DEF Who, What, Where
  <2>2. CASE CommitPart(w)
    BY <1>0, <1>1, <2>2, CommitPartDoes DEF Who, What, Where
  <2>3. CASE CommitStep(w)
    <3>1. /\ Only(w) /\ new.run = me.run /\ new.resume = me.resume /\ new.read = me.read /\ new.total = me.total
          /\ new.pages = me.pages /\ new.cursor = me.cursor + 1
      BY <1>0, <2>3, CommitStepDoes DEF Who, Stepped
    <3>2. /\ me.phase \in {"fetched", "parts"} /\ new.phase = "stepping"
          /\ IsFiniteSet(Rows(me.read, me.unit)) /\ Page(w, Rows(me.read, me.unit), me.cursor + 1, new.held)
      BY <2>3, CommitStepFits
    <3> QED BY <2>3, <3>1, <3>2
  <2> QED BY <2>1, <2>2, <2>3 DEF Commits
<1>3. Active(w) /\ me.phase \in Begun
  BY <1>2, Works DEF Begun
<1>4. StepsOf(lane, new) = StepsOf(lane, me)
  BY <1>2 DEF StepsOf
<1>5. StepsOf(lane, me) \in Nat /\ (lane \in Streamed => me.total \in Nat)
  <2>1. CASE lane \in Streamed
    <3>1. Covered(lane, stored, me) /\ me.phase = "fetched" /\ Next1(lane, me) /\ StepsOf(lane, me) = me.pages
      BY <1>0, <1>2, <2>1 DEF Apart, Begun, Covered, StepsOf, Streamed
    <3> QED BY <2>1, <3>1 DEF Covered, Next1
  <2>2. CASE lane \notin Streamed
    BY <1>0, <2>2, StepsAre
  <2> QED BY <2>1, <2>2
<1> QED
  BY <1>2, <1>3, <1>4, <1>5

LEMMA SealStep ==
  ASSUME IInv, [Next]_vars
  PROVE  SealInv'
<1>0. SiteInv /\ SealInv /\ WorkInv' /\ lane \in Lanes
  BY WorkStep DEF IInv, SiteInv, Lanes
<1>1. CASE UNCHANGED vars \/ Turns
  <2>1. UNCHANGED <<setting, stored, checkpoint>>
    BY <1>1 DEF vars, Turns, Amend, Relist, database
  <2>2. lane' = lane
    BY <2>1 DEF lane
  <2> QED BY <1>0, <2>1, <2>2 DEF SealInv
<1>2. ASSUME NEW w \in Workers, Steps1(w) PROVE SealInv'
  <2> DEFINE me == worker[w]
             new == worker'[w]
  <2>1. UNCHANGED setting
    BY <1>2 DEF Steps1, Leaves, ReadCheckpoint, ReadRuns, StartRun, ReadDirectory, ReadPage, Begin, BeginStream,
       CommitDirectory, Verify, Fetch, FetchPage, CommitPart, CommitStep, Test, Finish, Raise, Crash, Exit, provider
  <2>2. lane' = lane
    BY <2>1 DEF lane
  <2>3. CASE ~ Commits(w)
    <3>1. UNCHANGED <<stored, checkpoint>>
      BY <1>2, <2>3 DEF Commits, Steps1, Leaves, ReadCheckpoint, ReadRuns, StartRun, ReadDirectory, ReadPage, Begin,
         BeginStream, Verify, Fetch, FetchPage, Test, Finish, Raise, Crash, Exit, database
    <3> QED BY <1>0, <2>2, <3>1 DEF SealInv
  <2>4. CASE Commits(w)
    <3>1. /\ Active(w) /\ me.phase \in Begun /\ new.phase \in {"stepping", "parts"}
          /\ new.read = me.read /\ new.total = me.total
          /\ StepsOf(lane, new) = StepsOf(lane, me) /\ StepsOf(lane, me) \in Nat
          /\ lane \in Streamed => me.total \in Nat
      BY <2>4, CommitsDo
    <3>2. PICK rows : IsFiniteSet(rows) /\ Page(w, rows, new.cursor, new.held)
      BY <2>4, CommitsDo
    <3>3. /\ checkpoint'.cursor = new.cursor /\ checkpoint'.total = Steps(me)
          /\ checkpoint'.fingerprint = Known(me) /\ checkpoint'.held = new.held
      BY <3>2 DEF Page
    <3>4. Apart(lane, stored', new)
      BY <1>0, <2>2 DEF WorkInv
    <3>5. /\ Backed(lane, stored', new.cursor, new.held, Basis(lane, me.read)) /\ Covered(lane, stored', new)
          /\ new.cursor \in 0 .. StepsOf(lane, me)
      <4>1. /\ new.phase \in Begun \cap Going /\ new.cursor \in Nat
        BY <3>1, <3>4 DEF Apart, Begun, Going
      <4>2. new.cursor <= StepsOf(lane, new)
        BY <3>1, <3>4, <4>1, NoneAssumption DEF Apart
      <4> QED BY <3>1, <3>4, <4>1, <4>2 DEF Apart
    <3>6. lane = "MEETINGS" => Opened(me.read, new.cursor) \subseteq stored'
      BY <3>1, <3>5 DEF Covered
    <3>7. Universe(me.read)
      BY <1>0, ReadIs
    <3>8. Sealed(lane, stored', checkpoint')
      <4> HIDE DEF me, new
      <4> QED BY <1>0, <3>1, <3>3, <3>5, <3>6, <3>7, SealOf
    <3> QED BY <2>2, <3>8 DEF SealInv
  <2> QED BY <2>3, <2>4
<1> QED
  BY <1>1, <1>2, Moves

-----------------------------------------------------------------------------
(* A checkpoint and the process that wrote it last                         *)

LEMMA SameFrom ==
  ASSUME IInv, NEW w \in Workers, Only(w), UNCHANGED <<setting, checkpoint>>,
         \/ worker'[w].run = 0
         \/ worker'[w].phase \in {"idle", "done"}
         \/ checkpoint # None => worker'[w].run # checkpoint.run
         \/ /\ worker'[w].run = worker[w].run /\ Active(w)
            /\ checkpoint # None /\ Same(lane, checkpoint, worker[w]) => Same(lane, checkpoint, worker'[w])
  PROVE  SameInv'
<1>1. lane' = lane
  BY DEF lane
<1>2. \A v \in Workers \ {w} : worker'[v] = worker[v] /\ (Active(v)' <=> Active(v))
  BY DEF Only, Active
<1>3. ASSUME NEW v \in Workers, checkpoint # None, Active(v)', checkpoint.run = worker'[v].run
      PROVE  Same(lane, checkpoint, worker'[v])
  <2>1. CASE v # w
    BY <1>2, <1>3, <2>1 DEF IInv, SameInv
  <2>2. CASE v = w
    <3>1. worker'[w].run # 0 /\ worker'[w].phase \notin {"idle", "done"}
      BY <1>3, <2>2 DEF Active
    <3>2. /\ worker'[w].run = worker[w].run /\ Active(w)
          /\ checkpoint # None /\ Same(lane, checkpoint, worker[w]) => Same(lane, checkpoint, worker'[w])
      BY <1>3, <2>2, <3>1
    <3> QED BY <1>3, <2>2, <3>2 DEF IInv, SameInv
  <2> QED BY <2>1, <2>2
<1> QED
  BY <1>1, <1>3 DEF SameInv

LEMMA SameStep ==
  ASSUME IInv, [Next]_vars
  PROVE  SameInv'
<1>0. SiteInv /\ SameInv /\ OwnInv /\ lane \in Lanes
  BY DEF IInv, SiteInv, Lanes
<1>1. CASE UNCHANGED vars \/ Turns
  <2>1. UNCHANGED <<setting, checkpoint, worker>>
    BY <1>1 DEF vars, Turns, Amend, Relist, database
  <2>2. lane' = lane /\ \A v : Active(v)' <=> Active(v)
    BY <2>1 DEF lane, Active
  <2> QED BY <1>0, <2>1, <2>2 DEF SameInv
<1>2. ASSUME NEW w \in Workers, Steps1(w) PROVE SameInv'
  <2> DEFINE me == worker[w]
             new == worker'[w]
  <2>1. CASE ReadCheckpoint(w) \/ ReadRuns(w) \/ Leaves(w) \/ Finish(w)
    <3>1. UNCHANGED <<setting, checkpoint>>
      BY <2>1 DEF ReadCheckpoint, ReadRuns, Leaves, Raise, Crash, Exit, Finish, provider, database
    <3>2. Only(w)
      BY <1>0, <2>1, ReadCheckpointDoes, ReadRunsDoes, LeavesDoes, FinishDoes
    <3>3. new.run = 0 \/ new.phase \in {"idle", "done"}
      <4>1. CASE ReadRuns(w)
        <5>1. me.phase = "ready" /\ (Blank(new) \/ new.run = me.run)
          BY <1>0, <4>1, ReadRunsDoes DEF Who
        <5> QED BY <1>0, <5>1 DEF OwnInv, Blank
      <4>2. CASE Finish(w)
        BY <1>0, <4>2, FinishDoes DEF Blank
      <4> QED BY <1>0, <2>1, <4>1, <4>2, ReadCheckpointDoes, LeavesDoes DEF Blank
    <3> QED BY <3>1, <3>2, <3>3, SameFrom
  <2>2. CASE StartRun(w)
    <3>1. UNCHANGED <<setting, checkpoint>> /\ Only(w) /\ new.run = Len(runs) + 1
      BY <1>0, <2>2, StartRunDoes DEF StartRun, provider
    <3>2. checkpoint # None => checkpoint.run # new.run
      <4>1. Len(runs) \in Nat /\ DOMAIN runs = 1 .. Len(runs)
        BY <1>0 DEF OwnInv
      <4> QED BY <1>0, <3>1, <4>1 DEF OwnInv
    <3> QED BY <3>1, <3>2, SameFrom
  <2>3. CASE ReadDirectory(w) \/ ReadPage(w) \/ Begin(w) \/ BeginStream(w) \/ Verify(w)
    <3>1. UNCHANGED <<setting, checkpoint>>
      BY <2>3 DEF ReadDirectory, ReadPage, Begin, BeginStream, Verify, provider, database
    <3>2. Only(w) /\ me.phase \in {"reading", "verifying"} /\ new.run = me.run
      BY <1>0, <2>3, ReadDirectoryDoes, ReadPageDoes, BeginDoes, BeginStreamDoes, VerifyDoes DEF Who
    <3>3. Active(w) /\ ~ Same(lane, checkpoint, me)
      BY <3>2, Works DEF Same, Begun, Going
    <3> QED BY <3>1, <3>2, <3>3, SameFrom
  <2>4. CASE Fetch(w)
    <3>1. UNCHANGED <<setting, checkpoint>>
      BY <2>4 DEF Fetch, provider, database
    <3>2. /\ Only(w) /\ lane \notin Streamed /\ me.phase = "stepping"
          /\ new.phase = "fetched" /\ new.run = me.run /\ new.cursor = me.cursor
          /\ (lane # "MPM" => new.read = me.read) /\ (lane # "GRAPH" => new.held = me.held)
      BY <1>0, <2>4, FetchDoes DEF Who, Left
    <3>3. StepsOf(lane, new) = StepsOf(lane, me)
      BY <3>2 DEF StepsOf
    <3>4. Active(w)
      BY <3>2, Works DEF Begun
    <3>5. Same(lane, checkpoint, me) => Same(lane, checkpoint, new)
      BY <3>2, <3>3 DEF Same, Going
    <3> QED BY <3>1, <3>2, <3>4, <3>5, SameFrom
  <2>5. CASE FetchPage(w)
    <3>1. UNCHANGED <<setting, checkpoint>>
      BY <2>5 DEF FetchPage, provider, database
    <3>2. /\ Only(w) /\ lane \in Streamed /\ Left(me)
          /\ Continues(me, PageAt(me.cursor + 1, me.size), Len(listing))
          /\ new.phase = "fetched" /\ new.run = me.run
          /\ new.total = Len(listing) /\ new.pages = PagesOf(Len(listing), me.size)
          /\ new.held = me.held /\ new.cursor = me.cursor
      BY <1>0, <2>5, FetchPageDoes DEF Who, Where
    <3>3. SameScope(me, Len(listing))
      BY <3>2 DEF Continues, BillsContinue, GazetteContinues, CodesContinue, Streamed
    <3>4. Active(w)
      BY <3>2, Works DEF Begun, Left
    <3>5. ASSUME Same(lane, checkpoint, me) PROVE Same(lane, checkpoint, new)
      <4>1. me.total # None
        BY <3>2, <3>5 DEF Same
      <4>2. new.total = me.total /\ new.pages = me.pages
        BY <3>2, <3>3, <4>1 DEF SameScope
      <4>3. StepsOf(lane, new) = StepsOf(lane, me)
        BY <3>2, <4>2 DEF StepsOf, Streamed
      <4>4. lane # "EXECUTIVE"
        BY <3>2 DEF Streamed
      <4> QED BY <3>2, <3>5, <4>2, <4>3, <4>4 DEF Same, Going
    <3> QED BY <3>1, <3>2, <3>4, <3>5, SameFrom
  <2>6. CASE Test(w)
    <3>1. UNCHANGED <<setting, checkpoint>>
      BY <2>6 DEF Test, provider, database
    <3>2. /\ Only(w) /\ me.phase = "stepping" /\ new.phase = "tested" /\ new.run = me.run
          /\ What(new, me) /\ Where(new, me)
      BY <1>0, <2>6, TestDoes DEF Who
    <3>3. StepsOf(lane, new) = StepsOf(lane, me)
      BY <3>2 DEF StepsOf, What
    <3>4. Active(w)
      BY <3>2, Works DEF Begun
    <3>5. Same(lane, checkpoint, me) => Same(lane, checkpoint, new)
      BY <3>2, <3>3 DEF Same, Going, What, Where
    <3> QED BY <3>1, <3>2, <3>4, <3>5, SameFrom
  <2>7. CASE Commits(w)
    <3>1. /\ Only(w) /\ Active(w) /\ new.phase \in {"stepping", "parts"}
          /\ new.run = me.run /\ new.read = me.read /\ new.total = me.total
          /\ StepsOf(lane, new) = StepsOf(lane, me) /\ StepsOf(lane, me) \in Nat
          /\ lane \in Streamed => me.total \in Nat
      BY <2>7, CommitsDo
    <3>2. PICK rows : IsFiniteSet(rows) /\ Page(w, rows, new.cursor, new.held)
      BY <2>7, CommitsDo
    <3>3. /\ checkpoint'.cursor = new.cursor /\ checkpoint'.total = Steps(me)
          /\ checkpoint'.fingerprint = Known(me) /\ checkpoint'.held = new.held
          /\ checkpoint'.run = me.run
      BY <3>2 DEF Page
    <3>4. lane' = lane
      BY <2>7 DEF lane, Commits, CommitDirectory, CommitPart, CommitStep, provider
    <3>5. Steps(me) = StepsOf(lane, me)
      BY <1>0, ReadIs, StepsAre
    <3>6. Same(lane, checkpoint', new)
      <4>1. lane = "EXECUTIVE" => checkpoint'.fingerprint = me.read
        BY <3>3 DEF Known, Fingerprint, Directed, Streamed
      <4>2. lane \in Streamed => checkpoint'.fingerprint[1] = me.total /\ me.total # None
        BY <3>1, <3>3, NoneAssumption DEF Known
      <4> QED BY <3>1, <3>3, <3>5, <4>1, <4>2 DEF Same, Going
    <3>7. \A v \in Workers \ {w} : Active(v)' => worker'[v].run # me.run
      BY <1>0, <3>1 DEF OwnInv, Only, Active
    <3> QED BY <3>3, <3>4, <3>6, <3>7 DEF SameInv
  <2> QED BY <1>2, <2>1, <2>2, <2>3, <2>4, <2>5, <2>6, <2>7 DEF Steps1, Commits
<1> QED
  BY <1>1, <1>2, Moves

-----------------------------------------------------------------------------
(* What a run has seen, and how it ends                                    *)

\* But for a transaction, a run that is there keeps what it has seen, and only
\* the process of an open run closes it.
LEMMA RunsKeep ==
  ASSUME IInv, NEW w \in Workers, Steps1(w), ~ Commits(w)
  PROVE  /\ UNCHANGED <<setting, checkpoint>>
         /\ \A i \in DOMAIN runs :
              /\ runs'[i].seen = runs[i].seen /\ runs'[i].resume = runs[i].resume
              /\ runs'[i].status # runs[i].status => i = worker[w].run /\ Active(w)
              /\ runs'[i].status = "SUCCESS" =>
                   \/ runs[i].status = "SUCCESS"
                   \/ i = worker[w].run /\ worker[w].phase = "tested" /\ Finish(w)
<1> DEFINE me == worker[w]
<1>0. SiteInv /\ OwnInv /\ runs \in Seq(RunRecord) /\ DOMAIN runs = 1 .. Len(runs) /\ Len(runs) \in Nat
  BY DEF IInv, OwnInv
<1>1. UNCHANGED <<setting, checkpoint>>
  BY DEF Commits, Steps1, Leaves, ReadCheckpoint, ReadRuns, StartRun, ReadDirectory, ReadPage, Begin,
     BeginStream, Verify, Fetch, FetchPage, Test, Finish, Raise, Crash, Exit, provider, database
<1>2. CASE StartRun(w)
  <2>1. PICK x : runs' = Append(runs, x)
    BY <1>2 DEF StartRun
  <2>2. \A i \in DOMAIN runs : runs'[i] = runs[i]
    <3> HIDE DEF RunRecord
    <3> QED BY <1>0, <2>1
  <2> QED BY <1>1, <2>2
<1>3. CASE Finish(w)
  <2>1. me.phase \in {"tested", "stepping"}
        /\ \E status \in Statuses : /\ runs' = [runs EXCEPT ![me.run].status = status]
                                    /\ status = "SUCCESS" => me.phase = "tested"
    BY <1>0, <1>3, FinishDoes DEF Statuses
  <2>2. Active(w) /\ me.run \in DOMAIN runs
    BY <2>1, Works DEF Begun
  <2>3. PICK status \in Statuses : /\ runs' = [runs EXCEPT ![me.run].status = status]
                                   /\ status = "SUCCESS" => me.phase = "tested"
    BY <2>1
  <2>4. /\ \A i \in DOMAIN runs : i # me.run => runs'[i] = runs[i]
        /\ runs'[me.run].status = status /\ runs'[me.run].resume = runs[me.run].resume
        /\ runs'[me.run].seen = runs[me.run].seen
    BY <1>0, <2>2, <2>3, RunEnds
  <2> QED BY <1>1, <1>3, <2>2, <2>3, <2>4
<1>4. CASE Raise(w)
  <2>0. Active(w) /\ runs' = [runs EXCEPT ![me.run].status = Closing(me)]
    BY <1>4 DEF Raise
  <2>1. Closing(me) \in Statuses \ {"SUCCESS"}
    BY DEF Closing, Statuses
  <2>2. me.run \in DOMAIN runs
    BY <1>0, <2>0 DEF OwnInv, Active
  <2>3. PICK status \in Statuses \ {"SUCCESS"} : runs' = [runs EXCEPT ![me.run].status = status]
    BY <2>0, <2>1
  <2>4. /\ \A i \in DOMAIN runs : i # me.run => runs'[i] = runs[i]
        /\ runs'[me.run].status = status /\ runs'[me.run].resume = runs[me.run].resume
        /\ runs'[me.run].seen = runs[me.run].seen
    BY <1>0, <2>2, <2>3, RunEnds
  <2> QED BY <1>1, <2>0, <2>2, <2>3, <2>4
<1>5. CASE ~ StartRun(w) /\ ~ Finish(w) /\ ~ Raise(w)
  <2>1. UNCHANGED runs
    BY <1>5 DEF Commits, Steps1, Leaves, ReadCheckpoint, ReadRuns, ReadDirectory, ReadPage, Begin,
       BeginStream, Verify, Fetch, FetchPage, Test, Crash, Exit, database
  <2> QED BY <1>1, <2>1
<1> QED
  BY <1>2, <1>3, <1>4, <1>5

\* The disclosures a step adds are rows of it.
LEMMA SomethingAdds ==
  ASSUME NEW h, IsFiniteSet(h), NEW x
  PROVE  LET rows == {x} \ (Units \X {Empty}) IN
         /\ Cardinality(Something(h)) \in Nat /\ Cardinality(rows) \in Nat /\ IsFiniteSet(rows)
         /\ Cardinality(Something(h \cup {x})) \in Nat
         /\ Cardinality(Something(h \cup {x})) <= Cardinality(Something(h)) + Cardinality(rows)
<1> DEFINE rows == {x} \ (Units \X {Empty})
           a == Something(h)
<1>1. IsFiniteSet(a) /\ IsFiniteSet(rows) /\ Cardinality(a) \in Nat /\ Cardinality(rows) \in Nat
  <2>1. a \subseteq h
    BY DEF Something
  <2>2. rows \subseteq {x} /\ IsFiniteSet({x})
    BY FS_Singleton
  <2> HIDE DEF a, rows
  <2> QED BY <2>1, <2>2, FS_Subset, FS_CardinalityType
<1>2. Something(h \cup {x}) = a \cup rows
  BY DEF Something
<1> HIDE DEF a, rows
<1>3. /\ Cardinality(a \cup rows) = Cardinality(a) + Cardinality(rows) - Cardinality(a \cap rows)
  BY <1>1, FS_Union, Zenon
<1>4. IsFiniteSet(a \cap rows) /\ Cardinality(a \cap rows) \in Nat
  BY <1>1, FS_Intersection, FS_CardinalityType
<1>5. Cardinality(a \cup rows) <= Cardinality(a) + Cardinality(rows)
  BY <1>1, <1>3, <1>4
<1>6. Cardinality(Something(h \cup {x})) <= Cardinality(a) + Cardinality(rows)
  BY <1>2, <1>5
<1>7. Cardinality(Something(h \cup {x})) \in Nat
  BY <1>1, <1>2, <1>3, <1>4, FS_Union, FS_CardinalityType
<1> QED
  BY <1>1, <1>6, <1>7 DEF a, rows

\* A step of a process leaves the other processes where they are.
LEMMA MovesItself ==
  ASSUME SiteInv, NEW w \in Workers, Steps1(w)
  PROVE  Only(w)
<1>1. ReadCheckpoint(w) => Only(w)
  BY ReadCheckpointDoes
<1>2. ReadRuns(w) => Only(w)
  BY ReadRunsDoes
<1>3. StartRun(w) => Only(w)
  BY StartRunDoes
<1>4. ReadDirectory(w) => Only(w)
  BY ReadDirectoryDoes
<1>5. ReadPage(w) => Only(w)
  BY ReadPageDoes
<1>6. Begin(w) => Only(w)
  BY BeginDoes
<1>7. BeginStream(w) => Only(w)
  BY BeginStreamDoes
<1>8. CommitDirectory(w) => Only(w)
  BY CommitDirectoryDoes
<1>9. Verify(w) => Only(w)
  BY VerifyDoes
<1>10. Fetch(w) => Only(w)
  BY FetchDoes
<1>11. FetchPage(w) => Only(w)
  BY FetchPageDoes
<1>12. CommitPart(w) => Only(w)
  BY CommitPartDoes
<1>13. CommitStep(w) => Only(w)
  BY CommitStepDoes
<1>14. Test(w) => Only(w)
  BY TestDoes
<1>15. Finish(w) => Only(w)
  BY FinishDoes
<1>16. Leaves(w) => Only(w)
  BY LeavesDoes
<1> QED
  BY <1>1, <1>2, <1>3, <1>4, <1>5, <1>6, <1>7, <1>8,
     <1>9, <1>10, <1>11, <1>12, <1>13, <1>14, <1>15, <1>16 DEF Steps1

LEMMA SeenStep ==
  ASSUME IInv, [Next]_vars
  PROVE  SeenInv'
<1>0. SiteInv /\ SeenInv /\ OwnInv /\ WorkInv /\ lane \in Lanes
  BY DEF IInv, SiteInv, Lanes
<1>1. CASE UNCHANGED vars \/ Turns
  <2>1. UNCHANGED <<setting, runs, worker>>
    BY <1>1 DEF vars, Turns, Amend, Relist, database
  <2>2. lane' = lane /\ \A v : Active(v)' <=> Active(v)
    BY <2>1 DEF lane, Active
  <2> QED BY <1>0, <2>1, <2>2 DEF SeenInv
<1>2. ASSUME NEW w \in Workers, Steps1(w) PROVE SeenInv'
  <2> DEFINE me == worker[w]
             new == worker'[w]
             Seen(i, h) == runs'[i].seen >= Cardinality(Something(h))
  <2>1. lane' = lane
    BY <1>2, RunsKeep DEF lane, Commits, CommitDirectory, CommitPart, CommitStep, provider
  <2>2. Only(w)
    BY <1>0, <1>2, MovesItself
  <2> SUFFICES ASSUME lane = "EXECUTIVE", NEW v \in Workers, Active(v)', worker'[v].phase \in Begun,
                      ~ worker'[v].resume
               PROVE  Seen(worker'[v].run, worker'[v].held)
    BY <2>1 DEF SeenInv
  <2>3. \A u \in Workers : Active(u) => worker[u].run \in DOMAIN runs
    BY <1>0 DEF OwnInv, Active
  <2>4. CASE v # w
    <3>1. worker'[v] = worker[v] /\ Active(v)
      BY <2>2, <2>4 DEF Only, Active
    <3>2. runs[worker[v].run].seen >= Cardinality(Something(worker[v].held))
      BY <1>0, <3>1 DEF SeenInv
    <3>3. runs'[worker[v].run].seen = runs[worker[v].run].seen
      <4>1. CASE Commits(w)
        <5>1. Active(w) /\ \E rows, c, h : IsFiniteSet(rows) /\ Page(w, rows, c, h)
          BY <4>1, CommitsDo
        <5>2. worker[v].run # me.run
          BY <1>0, <2>4, <3>1, <5>1 DEF OwnInv
        <5>3. me.phase \in (Begun \cup {"reading"}) \ {"done"}
          BY <4>1, <5>1, CommitsDo DEF Active
        <5> QED BY <2>3, <3>1, <5>1, <5>2, <5>3, PageDoes
      <4>2. CASE ~ Commits(w)
        BY <1>2, <2>3, <3>1, <4>2, RunsKeep
      <4> QED BY <4>1, <4>2
    <3> QED BY <3>1, <3>2, <3>3
  <2>5. CASE v = w
    <3>0. new.phase \in Begun \ {"done"} /\ new.run # 0 /\ ~ new.resume
      BY <2>5 DEF Active
    <3>1. CASE Commits(w)
      <4>1. Active(w) /\ me.phase \in Begun /\ new.run = me.run /\ new.resume = me.resume /\ new.read = me.read
        BY <3>1, CommitsDo
      <4>2. me.phase \in (Begun \cup {"reading"}) \ {"done"}
        BY <4>1 DEF Active
      <4>3. runs[me.run].seen >= Cardinality(Something(me.held))
        BY <1>0, <3>0, <4>1 DEF SeenInv
      <4>4. PICK rows : /\ IsFiniteSet(rows) /\ Page(w, rows, new.cursor, new.held)
                        /\ \/ rows = {} /\ new.held = me.held
                           \/ rows = Rows(me.read, me.unit) /\ CommitStep(w)
        BY <3>1, CommitsDo
      <4>5. /\ runs[me.run].seen \in Nat /\ runs'[me.run].seen = runs[me.run].seen + Cardinality(rows)
        BY <4>2, <4>4, PageDoes
      <4>6. CASE rows = {} /\ new.held = me.held
        <5>1. Cardinality(rows) = 0
          BY <4>6, FS_EmptySet
        <5> QED BY <2>5, <4>1, <4>3, <4>5, <4>6, <5>1
      <4>7. CASE rows = Rows(me.read, me.unit) /\ CommitStep(w)
        <5>1. /\ rows = {me.unit} \ (Units \X {Empty})
          BY <4>7 DEF Rows, Streamed
        <5>0. new.held = Held(me.held, me.unit, Rows(me.read, me.unit))
          BY <1>0, <4>7, CommitStepDoes DEF Stepped
        <5>10. ASSUME NEW h, NEW x, NEW q PROVE Held(h, x, q) = h \cup {x}
          BY DEF Held, Disclosure, Streamed
        <5>2. new.held = me.held \cup {me.unit}
          BY <5>0, <5>10
        <5>3. IsFiniteSet(me.held)
          BY <1>0, <4>1 DEF WorkInv, Apart, Backed, Manifest
        <5>4. /\ Cardinality(Something(me.held)) \in Nat /\ Cardinality(rows) \in Nat
              /\ Cardinality(Something(new.held)) \in Nat
              /\ Cardinality(Something(new.held)) <= Cardinality(Something(me.held)) + Cardinality(rows)
          BY <5>1, <5>2, <5>3, SomethingAdds
        <5> HIDE DEF new, me
        <5> QED BY <2>5, <4>1, <4>3, <4>5, <5>4 DEF new
      <4> QED BY <4>4, <4>6, <4>7
    <3>2. CASE ~ Commits(w)
      <4>1. \A i \in DOMAIN runs : runs'[i].seen = runs[i].seen
        BY <1>2, <3>2, RunsKeep
      <4>2. CASE Begin(w)
        <5>1. /\ me.phase = "reading" /\ new.run = me.run /\ new.resume = me.resume
              /\ (me.resume \/ new.held = Nothing)
          BY <1>0, <4>2, BeginDoes DEF Who
        <5>2. new.held = {}
          BY <3>0, <5>1 DEF Nothing
        <5>3. Something(new.held) = {} /\ Cardinality({}) = 0
          BY <5>2, FS_EmptySet DEF Something
        <5>4. me.run \in DOMAIN runs /\ runs \in Seq(RunRecord)
          BY <5>1, Works
        <5>5. runs[me.run].seen \in Nat
          <6>1. runs[me.run] \in RunRecord
            BY <5>4
          <6> QED BY <6>1 DEF RunRecord
        <5> QED BY <2>5, <4>1, <5>1, <5>3, <5>4, <5>5
      <4>3. CASE Fetch(w) \/ Test(w)
        <5>1. me.phase = "stepping" /\ new.run = me.run /\ new.resume = me.resume /\ new.held = me.held
          BY <1>0, <4>3, FetchDoes, TestDoes DEF Who, Where, Left
        <5>2. Active(w) /\ me.phase \in Begun
          BY <5>1, Works DEF Begun
        <5>3. runs[me.run].seen >= Cardinality(Something(me.held))
          BY <1>0, <3>0, <5>1, <5>2 DEF SeenInv
        <5> QED BY <2>3, <2>5, <4>1, <5>1, <5>2, <5>3
      <4>4. ~ (\/ ReadCheckpoint(w) \/ ReadRuns(w) \/ StartRun(w) \/ ReadDirectory(w) \/ ReadPage(w)
               \/ BeginStream(w) \/ Verify(w) \/ FetchPage(w) \/ Finish(w) \/ Leaves(w))
        <5>1. ~ BeginStream(w) /\ ~ FetchPage(w)
          BY DEF BeginStream, FetchPage, Streamed
        <5>2. ~ Verify(w)
          BY <1>0 DEF Verify, WorkInv, Apart
        <5>3. ~ (ReadCheckpoint(w) \/ StartRun(w) \/ ReadDirectory(w) \/ ReadPage(w))
          BY <1>0, <3>0, ReadCheckpointDoes, StartRunDoes, ReadDirectoryDoes, ReadPageDoes DEF Begun
        <5>4. ~ ReadRuns(w)
          BY DEF ReadRuns
        <5>5. ~ Finish(w)
          BY <1>0, <3>0, FinishDoes DEF Blank
        <5>6. ~ Leaves(w)
          BY <1>0, <3>0, LeavesDoes DEF Blank
        <5> QED BY <5>1, <5>2, <5>3, <5>4, <5>5, <5>6
      <4> QED BY <1>2, <3>2, <4>2, <4>3, <4>4 DEF Steps1, Commits
    <3> QED BY <3>1, <3>2
  <2> QED BY <2>4, <2>5
<1> QED
  BY <1>1, <1>2, Moves

LEMMA EndStep ==
  ASSUME IInv, [Next]_vars
  PROVE  EndInv'
<1>0. SiteInv /\ EndInv /\ OwnInv /\ WorkInv /\ SameInv /\ SeenInv
  BY DEF IInv
<1>1. CASE UNCHANGED vars \/ Turns
  <2>1. UNCHANGED <<setting, runs, stored, checkpoint>>
    BY <1>1 DEF vars, Turns, Amend, Relist, database
  <2>2. lane' = lane
    BY <2>1 DEF lane
  <2> QED BY <1>0, <2>1, <2>2 DEF EndInv
<1>2. ASSUME NEW w \in Workers, Steps1(w) PROVE EndInv'
  <2> DEFINE me == worker[w]
             k == checkpoint
             run == runs'[k.run]
  <2>1. CASE Commits(w)
    <3>1. me.phase \in (Begun \cup {"reading"}) \ {"done"}
      BY <2>1, CommitsDo DEF Active
    <3>2. \E rows, c, h : IsFiniteSet(rows) /\ Page(w, rows, c, h)
      BY <2>1, CommitsDo
    <3>3. /\ checkpoint'.run = me.run /\ me.run \in DOMAIN runs
          /\ runs'[me.run].status = runs[me.run].status /\ runs[me.run].status = "RUNNING"
      BY <3>1, <3>2, PageDoes
    <3> QED BY <3>3 DEF EndInv
  <2>2. CASE ~ Commits(w)
    <3>1. UNCHANGED <<setting, checkpoint>> /\ lane' = lane
      BY <1>2, <2>2, RunsKeep DEF lane
    <3> SUFFICES ASSUME k # None, run.status = "SUCCESS" PROVE Accepted(lane, stored', k, run)
      BY <3>1 DEF EndInv
    <3>2. k.run \in DOMAIN runs
      BY <1>0 DEF OwnInv
    <3>3. /\ run.seen = runs[k.run].seen /\ run.resume = runs[k.run].resume
          /\ \/ runs[k.run].status = "SUCCESS"
             \/ k.run = me.run /\ me.phase = "tested"
      BY <1>2, <2>2, <3>2, RunsKeep
    <3>4. CASE runs[k.run].status = "SUCCESS"
      BY <1>0, <3>3, <3>4 DEF EndInv, Accepted
    <3>5. CASE k.run = me.run /\ me.phase = "tested"
      <4>1. Active(w) /\ runs[me.run].resume = me.resume
        BY <3>5, Works DEF Begun
      <4>2. Same(lane, k, me)
        BY <1>0, <3>5, <4>1 DEF SameInv
      <4>3. /\ StepsOf(lane, me) # None /\ me.cursor = StepsOf(lane, me)
            /\ lane \in Streamed => Cardinality(UNION me.held) = me.total
        BY <1>0, <3>5 DEF WorkInv, Apart
      <4>4. k.cursor = k.total
        BY <4>2, <4>3 DEF Same
      <4>5. ASSUME lane = "EXECUTIVE" PROVE k.total = Len(k.fingerprint)
        <5>1. StepsOf(lane, me) = Len(me.read)
          BY <4>5 DEF StepsOf, Streamed
        <5>2. k.total = StepsOf(lane, me) /\ k.fingerprint = me.read
          BY <4>2, <4>5 DEF Same
        <5> QED BY <5>1, <5>2
      <4>6. ASSUME lane = "EXECUTIVE", ~ run.resume
            PROVE  run.seen >= Cardinality(Something(k.held))
        <5>1. me.phase \in Begun /\ ~ me.resume /\ k.held = me.held
          BY <3>3, <3>5, <4>1, <4>2, <4>6 DEF Begun, Same
        <5>2. runs[me.run].seen >= Cardinality(Something(me.held))
          BY <1>0, <4>1, <4>6, <5>1 DEF SeenInv
        <5> QED BY <3>3, <3>5, <5>1, <5>2
      <4>7. lane = "BILLS" => Cardinality(UNION k.held) = k.fingerprint[1]
        BY <4>2, <4>3 DEF Same, Streamed
      <4> QED BY <4>4, <4>5, <4>6, <4>7 DEF Accepted
    <3> QED BY <3>3, <3>4, <3>5
  <2> QED BY <2>1, <2>2
<1> QED
  BY <1>1, <1>2, Moves

-----------------------------------------------------------------------------
(* The invariant                                                           *)

LEMMA Begins ==
  ASSUME Init
  PROVE  IInv
<1>1. PICK i \in Installations :
        /\ setting = [lane |-> i.lane, relists |-> i.relists, budgets |-> i.budgets,
                      sizes |-> i.sizes, workers |-> i.workers, bounds |-> i.bounds]
        /\ listing = i.listing /\ content = i.content
  BY DEF Init
<1>2. /\ drifts = 0 /\ crashes = 0 /\ runs = <<>> /\ checkpoint = None
      /\ worker = [w \in Workers |-> Idle]
  BY DEF Init
<1>3. \A w \in Workers : worker[w] = Idle /\ Blank(worker[w]) /\ ~ Active(w)
  BY <1>2, IdleIs DEF Active, Idle
<1>4. SiteInv
  <2>1. /\ lane = i.lane /\ setting.relists = i.relists /\ setting.sizes = i.sizes
        /\ setting.bounds = i.bounds
    BY <1>1 DEF lane
  <2>2. \A w \in Workers : DOMAIN worker[w] = Fields /\ worker[w].read \in Seq((DOMAIN content) \X Kinds)
    <3> DEFINE S == (DOMAIN content) \X Kinds
    <3>1. <<>> \in Seq(S)
      <4> HIDE DEF S
      <4> QED OBVIOUS
    <3> HIDE DEF S
    <3>2. \A w \in Workers : DOMAIN worker[w] = Fields /\ worker[w].read \in Seq(S)
      BY <1>3, <3>1 DEF Blank
    <3> QED BY <3>2 DEF S
  <2>3. DOMAIN worker = Workers
    BY <1>2
  <2> QED BY <1>1, <1>2, <2>1, <2>2, <2>3, InstallationsAssumption DEF SiteInv
<1>5. OwnInv
  <2>1. runs \in Seq(RunRecord) /\ Len(runs) = 0
    BY <1>2
  <2>2. \A w \in Workers : worker[w].run = 0 /\ worker[w].phase = "idle"
    BY <1>3 DEF Blank
  <2> QED BY <1>2, <1>3, <2>1, <2>2 DEF OwnInv, Begun
<1>6. WorkInv
  BY <1>3, BlankApart DEF WorkInv
<1>7. SealInv /\ SameInv /\ SeenInv /\ EndInv
  BY <1>2, <1>3 DEF SealInv, SameInv, SeenInv, EndInv
<1> QED
  BY <1>4, <1>5, <1>6, <1>7 DEF IInv

LEMMA Goes ==
  ASSUME IInv, [Next]_vars
  PROVE  IInv'
BY SiteStep, OwnStep, WorkStep, SealStep, SameStep, SeenStep, EndStep DEF IInv

-----------------------------------------------------------------------------
(* What it says                                                            *)

LEMMA Typed ==
  ASSUME IInv
  PROVE  TypeOK
<1>0. SiteInv /\ OwnInv /\ WorkInv /\ SealInv /\ lane \in Lanes
  BY DEF IInv, SiteInv, Lanes
<1>1. /\ content \in [DOMAIN content -> Contents \cup {Empty}] /\ Range(listing) \subseteq DOMAIN content
      /\ drifts \in 0 .. setting.bounds.drifts /\ crashes \in 0 .. setting.bounds.crashes
  <2>1. listing \in Seq(DOMAIN content)
    BY <1>0 DEF SiteInv
  <2>2. Range(listing) \subseteq DOMAIN content
    BY <2>1, RangeOf
  <2> QED BY <1>0, <2>2 DEF SiteInv, Kinds
<1>2. runs \in Seq([status : {"RUNNING", "SUCCESS", "PARTIAL", "FAILED"}, resume : BOOLEAN, seen : Nat])
  BY <1>0 DEF OwnInv, RunRecord
<1>3. checkpoint = None \/ (checkpoint.cursor \in 0 .. checkpoint.total /\ checkpoint.run \in DOMAIN runs)
  BY <1>0 DEF OwnInv, SealInv, Sealed
<1>4. ASSUME NEW w \in Workers
      PROVE  LET me == worker[w] IN
             /\ Active(w) => runs[me.run].status = "RUNNING"
             /\ me.phase \in {"fetched", "parts"} => me.unit # None
             /\ me.phase \in {"fetched", "parts", "tested", "done"} => me.cursor <= Steps(me)
  <2> DEFINE me == worker[w]
  <2>1. Active(w) => runs[me.run].status = "RUNNING"
    BY <1>0 DEF OwnInv
  <2>2. Apart(lane, stored, me) /\ Universe(me.read)
    BY <1>0, ReadIs DEF WorkInv
  <2>3. me.phase \in {"fetched", "parts"} => Next1(lane, me)
    BY <2>2 DEF Apart
  <2>4. Steps(me) = StepsOf(lane, me) /\ (lane \notin Streamed => StepsOf(lane, me) \in Nat)
    BY <1>0, <2>2, StepsAre
  <2>5. ASSUME me.phase \in {"fetched", "parts"}
        PROVE  me.unit # None /\ StepsOf(lane, me) # None
    <3>1. CASE lane \in Streamed
      <4>1. me.unit \in SUBSET (Units \X Kinds) /\ me.pages # None
        BY <2>3, <2>5, <3>1 DEF Next1
      <4>2. StepsOf(lane, me) = me.pages
        BY <3>1 DEF StepsOf, Streamed
      <4> QED BY <4>1, <4>2, NoneAssumption
    <3>2. CASE lane \notin Streamed
      <4>1. me.unit \in Nat \X Kinds
        BY <2>3, <2>5, <3>2 DEF Next1
      <4> QED BY <2>4, <3>2, <4>1, NoneAssumption
    <3> QED BY <3>1, <3>2
  <2>6. me.phase \in {"tested", "done"} => StepsOf(lane, me) # None
    BY <2>2 DEF Apart
  <2>7. me.phase \in Going /\ StepsOf(lane, me) # None => me.cursor <= StepsOf(lane, me)
    BY <2>2 DEF Apart
  <2> QED BY <2>1, <2>4, <2>5, <2>6, <2>7 DEF Going
<1> QED
  BY <1>1, <1>2, <1>3, <1>4 DEF TypeOK

\* Of meetings that differ in their numbers as many are before one as numbers are.
LEMMA MeetingsBelow ==
  ASSUME NEW f, \A m, n \in f : m[1] = n[1] => m = n,
         {m[1] : m \in f} \subseteq Nat, IsFiniteSet({m[1] : m \in f}), NEW n \in f
  PROVE  Cardinality({o \in f : o[1] < n[1]}) = Below({m[1] : m \in f}, n[1])
<1> DEFINE us == {m[1] : m \in f}
           b == {v \in us : v < n[1]}
           t == {o \in f : o[1] < n[1]}
           g == [u \in b |-> CHOOSE m \in f : m[1] = u]
<1>1. IsFiniteSet(b)
  <2> HIDE DEF us
  <2>1. IsFiniteSet(us)
    BY DEF us
  <2> QED BY <2>1, FS_Subset
<1>2. \A u \in b : g[u] \in f /\ g[u][1] = u
  OBVIOUS
<1>3. \A u, v \in b : g[u] = g[v] => u = v
  BY <1>2
<1>4. {g[u] : u \in b} = t
  <2>1. \A o \in t : o[1] \in b /\ g[o[1]] = o
    BY <1>2
  <2>2. \A u \in b : g[u] \in t
    BY <1>2
  <2> HIDE DEF g, b, t
  <2> QED BY <2>1, <2>2
<1>5. Cardinality({g[u] : u \in b}) = Cardinality(b)
  <2>1. DOMAIN g = b
    OBVIOUS
  <2> HIDE DEF g, b
  <2> QED BY <1>1, <1>3, <2>1, ImageOf
<1> QED
  BY <1>4, <1>5 DEF Below

LEMMA IsBacked ==
  ASSUME IInv
  PROVE  CheckpointBacked
<1> DEFINE k == checkpoint
<1> SUFFICES ASSUME checkpoint # None PROVE CheckpointBacked
  BY DEF CheckpointBacked
<1>0. lane \in Lanes /\ Sealed(lane, stored, k) /\ Backed(lane, stored, k.cursor, k.held, k.fingerprint)
  BY DEF IInv, SiteInv, Lanes, SealInv, Sealed
<1> USE DEF Lanes, Directed, Listed, Streamed
<1>1. CASE lane \in {"EXECUTIVE", "EXPENSE", "MPM"}
  <2> DEFINE p == Plan(k.fingerprint)
  <2>1. Manifest(stored, k.cursor, k.held, p)
    <3>1. lane = "EXECUTIVE" => p = Names(k.fingerprint)
      BY DEF Plan, Names
    <3>2. lane = "EXPENSE" => p = Selected
      BY DEF Plan
    <3>3. lane = "MPM" => p = Groups
      BY DEF Plan
    <3> HIDE DEF p
    <3> QED BY <1>0, <1>1, <3>1, <3>2, <3>3 DEF Backed
  <2>2. Passed(k) = {p[i] : i \in 1 .. k.cursor}
    BY <1>1 DEF Passed
  <2>3. /\ {x[1] : x \in k.held} = Passed(k) /\ Cardinality(k.held) = k.cursor
        /\ \A x \in k.held : x[2] = Empty \/ x \in stored
    <3> HIDE DEF p
    <3> QED BY <2>1, <2>2 DEF Manifest
  <2> QED BY <1>1, <2>3 DEF CheckpointBacked
<1>2. CASE lane = "CORPORATE"
  <2>1. Tally(stored, k.cursor, k.held, Names(k.fingerprint))
    BY <1>0, <1>2 DEF Backed
  <2>2. Plan(k.fingerprint) = Names(k.fingerprint)
    BY <1>2 DEF Plan, Names
  <2>3. Passed(k) = {Names(k.fingerprint)[i] : i \in 1 .. k.cursor}
    BY <1>2, <2>2 DEF Passed
  <2>4. {u \in Passed(k) : Stored(u)} = {u \in {Names(k.fingerprint)[i] : i \in 1 .. k.cursor} : In(stored, u)}
    BY <2>3 DEF Stored, In
  <2>5. /\ k.held.with + k.held.without = k.cursor
        /\ k.held.with <= Cardinality({u \in Passed(k) : Stored(u)})
    BY <2>1, <2>4 DEF Tally
  <2> QED BY <1>2, <2>5 DEF CheckpointBacked
<1>3. CASE lane = "GRAPH"
  <2> DEFINE f == k.fingerprint
             us == {m[1] : m \in f}
  <2>1. (\A m, n \in f : m[1] = n[1] => m = n) /\ Graphed(stored, k.cursor, k.held, us)
    BY <1>0, <1>3 DEF Backed
  <2>2. us \subseteq Nat /\ IsFiniteSet(us)
    BY <2>1 DEF Graphed
  <2>3. ASSUME NEW u \in Passed(k)
        PROVE  Stored(u) /\ (u \in k.held \/ Clean(u))
    <3>1. PICK n \in f : n[1] = u /\ Cardinality({o \in f : o[1] < n[1]}) < k.cursor
      BY <1>3 DEF Passed
    <3>2. Below(us, u) < k.cursor /\ u \in us
      BY <2>1, <2>2, <3>1, MeetingsBelow
    <3>3. In(stored, u) /\ (u \in k.held \/ CleanIn(stored, u))
      BY <2>1, <3>2 DEF Graphed
    <3> QED BY <3>3 DEF In, CleanIn, Stored, Clean
  <2> QED BY <1>3, <2>3 DEF CheckpointBacked
<1>4. CASE lane = "REVIEW"
  <2>1. Reviewed(stored, k.cursor, k.held, k.fingerprint)
    BY <1>0, <1>4 DEF Backed
  <2> QED BY <1>4, <2>1 DEF CheckpointBacked, Reviewed
<1>5. CASE lane = "MEETINGS"
  BY <1>0, <1>5 DEF CheckpointBacked, Sealed
<1>6. CASE lane \in Streamed
  <2>1. Streams(stored, k.cursor, k.held)
    BY <1>0, <1>6 DEF Backed
  <2>2. /\ UNION k.held \subseteq stored /\ Cardinality(k.held) = k.cursor
        /\ \A x, y \in UNION k.held : x[1] = y[1] => x = y
    BY <2>1 DEF Streams
  <2> QED BY <1>6, <2>2 DEF CheckpointBacked
<1>7. CASE lane \in {"MEMBERS", "BIOGRAPHY"}
  <2>1. Kept(stored, k.cursor, k.held)
    BY <1>0, <1>7 DEF Backed
  <2>2. k.held \subseteq stored /\ Cardinality(k.held) = k.cursor
    BY <2>1 DEF Kept
  <2> QED BY <1>7, <2>2 DEF CheckpointBacked
<1> QED
  BY <1>0, <1>1, <1>2, <1>3, <1>4, <1>5, <1>6, <1>7

\* Of a manifest that is complete each unit has a row or is noted with none.
LEMMA Manifested ==
  ASSUME NEW s, NEW c, NEW h, NEW p, Manifest(s, c, h, p), c = Len(p), Len(p) \in Nat, NEW i \in 1 .. Len(p)
  PROVE  \E x \in h : x[1] = p[i] /\ x = <<x[1], x[2]>> /\ (x[2] = Empty \/ x \in s)
<1>1. p[i] \in {p[j] : j \in 1 .. c}
  OBVIOUS
<1>2. p[i] \in {x[1] : x \in h}
  BY <1>1 DEF Manifest
<1> QED
  BY <1>2 DEF Manifest

LEMMA CoversAll ==
  ASSUME IInv
  PROVE  RunCovers
<1> SUFFICES ASSUME NEW w \in Workers, worker[w].phase = "done"
             PROVE  LET r == worker[w].read
                        h == worker[w].held IN
      CASE lane = "EXECUTIVE" -> \A u \in Heads(r) : Stored(u) \/ <<u, Empty>> \in h
        [] lane = "CORPORATE" -> Cardinality({u \in Heads(r) : Stored(u)}) >= Len(r) - h.without
        [] lane = "EXPENSE" -> {x \in Range(r) : x[1] \in Range(Selected)} \subseteq stored
        [] lane = "GRAPH" -> \A u \in Heads(r) : Stored(u) /\ (u \in h \/ Clean(u))
        [] lane = "MPM" -> Range(r) \subseteq stored /\ Heads(r) = Range(Groups)
        [] lane \in {"REVIEW", "MEETINGS"} -> Fingerprint(r) \subseteq stored
        [] lane \in Streamed -> /\ UNION h \subseteq stored
                                /\ Cardinality({x[1] : x \in UNION h}) = worker[w].total
        [] OTHER -> Range(r) \subseteq stored
  BY DEF RunCovers
<1> DEFINE me == worker[w]
           r == me.read
           h == me.held
           c == me.cursor
<1>0. /\ lane \in Lanes /\ Apart(lane, stored, me) /\ Universe(r)
      /\ Backed(lane, stored, c, h, Basis(lane, r)) /\ Covered(lane, stored, me)
      /\ c = StepsOf(lane, me) /\ c \in Nat
      /\ lane \in Streamed => Cardinality(UNION h) = me.total
  <2>1. SiteInv /\ Apart(lane, stored, me) /\ lane \in Lanes
    BY DEF IInv, SiteInv, Lanes, WorkInv
  <2>2. Universe(r)
    BY <2>1, ReadIs
  <2> QED BY <2>1, <2>2 DEF Apart, Begun
<1>00. Len(r) \in Nat /\ DOMAIN r = 1 .. Len(r) /\ IsFiniteSet(Heads(r)) /\ Heads(r) \subseteq Nat
  BY <1>0, HeadsOf
<1> USE DEF Lanes, Directed, Listed, Streamed
<1>1. CASE lane = "EXECUTIVE"
  <2>1. Manifest(stored, c, h, Names(r)) /\ c = Len(r)
    BY <1>0, <1>1 DEF Backed, Basis, StepsOf
  <2>2. ASSUME NEW u \in Heads(r)
        PROVE  Stored(u) \/ <<u, Empty>> \in h
    <3>1. PICK i \in 1 .. Len(r) : u = Names(r)[i]
      BY <1>0, NamesOf
    <3>2. Len(Names(r)) = Len(r)
      BY <1>0, NamesOf
    <3>3. PICK x \in h : x[1] = u /\ x = <<x[1], x[2]>> /\ (x[2] = Empty \/ x \in stored)
      BY <1>00, <2>1, <3>1, <3>2, Manifested
    <3> QED BY <3>3 DEF Stored
  <2> QED BY <1>1, <2>2
<1>2. CASE lane = "CORPORATE"
  <2>1. Tally(stored, c, h, Names(r)) /\ c = Len(r)
    BY <1>0, <1>2 DEF Backed, Basis, StepsOf
  <2>2. Heads(r) = {Names(r)[i] : i \in 1 .. c}
    BY <1>0, <2>1, NamesOf
  <2> DEFINE there == {u \in Heads(r) : Stored(u)}
  <2>3. there = {u \in {Names(r)[i] : i \in 1 .. c} : In(stored, u)}
    BY <2>2 DEF Stored, In
  <2>4. h.with <= Cardinality(there) /\ h.with + h.without = c /\ h.with \in Nat /\ h.without \in Nat
    BY <2>1, <2>3 DEF Tally
  <2>5. Cardinality(there) \in Nat
    <3>1. IsFiniteSet(there)
      BY <1>00, FS_Subset
    <3> QED BY <3>1, FS_CardinalityType
  <2>6. Cardinality(there) >= Len(r) - h.without
    <3> HIDE DEF there
    <3> QED BY <2>1, <2>4, <2>5
  <2> QED BY <1>2, <2>6
<1>3. CASE lane = "EXPENSE"
  <2>1. /\ Manifest(stored, c, h, Selected) /\ c = Len(Selected) /\ Distinct(r)
        /\ h \subseteq Range(r) /\ \A x \in h : x[2] # Empty
    BY <1>0, <1>3 DEF Backed, Basis, StepsOf, Expenses, ExpenseDirectory
  <2>2. Len(Selected) \in Nat /\ DOMAIN Selected = 1 .. Len(Selected)
    BY NamedOnce
  <2>3. ASSUME NEW x \in Range(r), x[1] \in Range(Selected)
        PROVE  x \in stored
    <3>1. PICK i \in 1 .. Len(Selected) : x[1] = Selected[i]
      BY <2>2, <2>3 DEF Range
    <3>2. PICK y \in h : y[1] = x[1] /\ (y[2] = Empty \/ y \in stored)
      BY <2>1, <2>2, <3>1, Manifested
    <3>3. y \in stored /\ y \in Range(r)
      BY <2>1, <3>2
    <3>4. PICK a \in DOMAIN r, b \in DOMAIN r : x = r[a] /\ y = r[b]
      BY <3>3 DEF Range
    <3>5. a = b
      BY <2>1, <3>2, <3>4 DEF Distinct
    <3> QED BY <3>3, <3>4, <3>5
  <2> QED BY <1>3, <2>3
<1>4. CASE lane = "GRAPH"
  <2>1. {m[1] : m \in MeetingsOf(r)} = Heads(r)
    BY MeetingNames
  <2>2. Graphed(stored, c, h, Heads(r)) /\ c = Cardinality(Heads(r))
    BY <1>0, <1>4, <2>1 DEF Backed, Basis, StepsOf
  <2>3. ASSUME NEW u \in Heads(r)
        PROVE  Stored(u) /\ (u \in h \/ Clean(u))
    <3>1. Below(Heads(r), u) \in 0 .. c - 1
      BY <1>00, <2>2, Ranks
    <3>2. Below(Heads(r), u) < c
      BY <1>0, <3>1
    <3>3. In(stored, u) /\ (u \in h \/ CleanIn(stored, u))
      BY <2>2, <3>2 DEF Graphed
    <3> QED BY <3>3 DEF In, CleanIn, Stored, Clean
  <2> QED BY <1>4, <2>3
<1>5. CASE lane = "MPM"
  <2>1. /\ Manifest(stored, c, h, Groups) /\ c = Len(Groups) /\ \A x \in h : x[2] # Empty
    BY <1>0, <1>5 DEF Backed, Basis, StepsOf
  <2>2. /\ \A i \in DOMAIN r : r[i][1] = Groups[i] /\ r[i] \in h
        /\ Len(r) = Len(Groups)
    BY <1>0, <1>5, <2>1 DEF Covered, Going
  <2>3. DOMAIN Groups = 1 .. Len(Groups)
    BY NamedOnce
  <2>4. Range(r) \subseteq stored
    BY <2>1, <2>2 DEF Range, Manifest
  <2>5. Heads(r) = Range(Groups)
    BY <1>00, <2>2, <2>3 DEF Heads, Range
  <2> QED BY <1>5, <2>4, <2>5
<1>6. CASE lane \in {"REVIEW", "MEETINGS"}
  <2>1. Len(r) <= c
    BY <1>0, <1>00, <1>6 DEF StepsOf
  <2>2. \A u \in Heads(r) : Max(Places(r, u)) <= c /\ Min(Places(r, u)) <= c
    <3>1. \A u \in Heads(r) : Max(Places(r, u)) \in 1 .. Len(r) /\ Min(Places(r, u)) \in 1 .. Len(r)
      BY <1>0, EndsOf
    <3> QED BY <1>0, <1>00, <2>1, <3>1
  <2>3. CASE lane = "REVIEW"
    <3>1. Fingerprint(r) = PacketsOf(r)
      BY <2>3 DEF Fingerprint, PacketsOf
    <3>2. Reviewed(stored, c, h, PacketsOf(r))
      BY <1>0, <2>3 DEF Backed, Basis
    <3>3. \A x \in PacketsOf(r) : Max(x[3]) <= c
      BY <2>2 DEF PacketsOf, Packet
    <3> QED BY <2>3, <3>1, <3>2, <3>3 DEF Reviewed
  <2>4. CASE lane = "MEETINGS"
    <3>1. Fingerprint(r) = MeetingsOf(r)
      BY <2>4 DEF Fingerprint, MeetingsOf
    <3>2. Opened(r, c) \subseteq stored
      BY <1>0, <2>4 DEF Covered
    <3>3. MeetingsOf(r) \subseteq Opened(r, c)
      BY <2>2 DEF MeetingsOf, Opened
    <3> QED BY <2>4, <3>1, <3>2, <3>3
  <2> QED BY <1>6, <2>3, <2>4
<1>7. CASE lane \in Streamed
  <2>1. Streams(stored, c, h) /\ Cardinality(UNION h) = me.total
    BY <1>0, <1>7 DEF Backed
  <2> DEFINE all == UNION h
             g == [x \in all |-> x[1]]
  <2>2. IsFiniteSet(all) /\ DOMAIN g = all /\ \A x, y \in all : g[x] = g[y] => x = y
    BY <2>1 DEF Streams
  <2>3. Cardinality({g[x] : x \in all}) = Cardinality(all)
    <3> HIDE DEF all, g
    <3> QED BY <2>2, ImageOf
  <2>4. {g[x] : x \in all} = {x[1] : x \in UNION h}
    OBVIOUS
  <2>5. UNION h \subseteq stored /\ Cardinality({x[1] : x \in UNION h}) = me.total
    BY <2>1, <2>3, <2>4 DEF Streams
  <2> QED BY <1>7, <2>5
<1>8. CASE lane \in {"MEMBERS", "BIOGRAPHY"}
  <2>1. Kept(stored, c, h) /\ h = First(r, c) /\ r # <<>>
    BY <1>0, <1>8 DEF Backed, Covered
  <2>2. c = Len(r)
    BY <1>0, <1>8, <2>1 DEF StepsOf
  <2>3. Range(r) \subseteq stored
    BY <1>00, <2>1, <2>2 DEF Range, First, Kept
  <2> QED BY <1>8, <2>3
<1> QED
  BY <1>0, <1>1, <1>2, <1>3, <1>4, <1>5, <1>6, <1>7, <1>8

LEMMA WholeAtEnd ==
  ASSUME IInv
  PROVE  SuccessIsWhole
<1> DEFINE k == checkpoint
           f == k.fingerprint
<1> SUFFICES ASSUME checkpoint # None, runs[checkpoint.run].status = "SUCCESS" PROVE SuccessIsWhole
  BY DEF SuccessIsWhole
<1>0. /\ Backed(lane, stored, k.cursor, k.held, f)
      /\ Accepted(lane, stored, k, runs[k.run])
  BY DEF IInv, SealInv, Sealed, EndInv
<1>1. k.cursor = k.total
  BY <1>0 DEF Accepted
<1>2. ASSUME lane = "EXECUTIVE"
      PROVE  /\ ImportAccepts(k)
             /\ ~ runs[k.run].resume /\ (\E x \in k.held : x[2] # Empty) => BatchAccepts(k)
  <2>1. /\ Universe(f) /\ f # <<>> /\ Distinct(f) /\ Manifest(stored, k.cursor, k.held, Names(f))
        /\ k.cursor = Len(f)
    BY <1>0, <1>1, <1>2 DEF Backed, Accepted, Executives, ExecutiveDirectory
  <2>2. {x[1] : x \in k.held} = Heads(f)
    BY <2>1, NamesOf DEF Manifest
  <2>3. \A x, y \in k.held : x[1] = y[1] => x = y
    BY <2>1 DEF Manifest
  <2>4. ASSUME ~ runs[k.run].resume, NEW x \in k.held, x[2] # Empty
        PROVE  BatchAccepts(k)
    <3>1. runs[k.run].seen >= Cardinality(k.held \ (Units \X {Empty}))
      BY <1>0, <1>2, <2>4 DEF Accepted, Something
    <3>2. k.held \ (Units \X {Empty}) # {}
      <4>1. x \notin Units \X {Empty}
        BY <2>4
      <4> QED BY <4>1
    <3> QED BY <2>1, <2>2, <2>3, <3>1, <3>2 DEF BatchAccepts
  <2> QED BY <2>1, <2>2, <2>3, <2>4 DEF ImportAccepts
<1>3. lane = "MEMBERS" => RolesAccept(k)
  BY <1>0, <1>1 DEF Backed, Kept, RolesAccept
<1>4. lane = "BIOGRAPHY" => BiographiesAccept(k)
  BY <1>0, <1>1 DEF Backed, Kept, BiographiesAccept
<1>5. lane = "BILLS" => ActivityAccepts(k)
  BY <1>0, <1>1 DEF Backed, Accepted, Streamed, Streams, ActivityAccepts
<1> QED
  BY <1>1, <1>2, <1>3, <1>4, <1>5 DEF SuccessIsWhole

-----------------------------------------------------------------------------
(* The invariant holds of every behaviour, and with it what is asked of    *)
(* a collection.                                                           *)

\* What the steps before a cursor stored is there for whoever goes on from it.
THEOREM Invariance == Spec => []IInv
<1>1. Init => IInv
  BY Begins
<1>2. IInv /\ [Next]_vars => IInv'
  BY Goes
<1> QED
  BY <1>1, <1>2, PTL DEF Spec

(* Runs, checkpoint and processes have their types, and no process goes on *)
(* with a run that is closed (repository.py, commit_batch_page and         *)
(* finish_source_run).                                                     *)
THEOREM CollectionTypes == Spec => []TypeOK
BY Invariance, Typed, PTL

(* Whatever run it was resumed from, the checkpoint that an enumerator     *)
(* leaves tells nothing that is not stored: a unit before its cursor is    *)
(* fetched by no later run.                                                *)
THEOREM CheckpointsAreBacked == Spec => []CheckpointBacked
BY Invariance, IsBacked, PTL

(* An enumerator that comes to its end has stored the universe it read,    *)
(* the part that an earlier run stored included.                           *)
THEOREM RunsCover == Spec => []RunCovers
BY Invariance, CoversAll, PTL

(* The importer, the batch and the publishers accept the checkpoint of a   *)
(* run that succeeded.                                                     *)
THEOREM SuccessesAreWhole == Spec => []SuccessIsWhole
BY Invariance, WholeAtEnd, PTL
=============================================================================
