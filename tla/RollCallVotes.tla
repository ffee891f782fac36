---------------------------- MODULE RollCallVotes ----------------------------
(***************************************************************************)
(* The plenary votes of one Assembly term, from the provider to the public *)
(* claims.  A collector (workers/assembly_roll_call_votes.py) fetches the  *)
(* universe of bills that were voted on, and then the member rows of one   *)
(* bill after the other, each in a transaction that also moves the cursor; *)
(* a bill whose rows do not add up to its published tally is listed as an  *)
(* exception.  The publisher (verification/assembly_plenary_votes.py)      *)
(* makes the newest row of every member and bill a claim, member by member.*)
(* Collectors run under the scheduler's lock or by hand, die, and resume;  *)
(* the provider amends rows; operators withdraw and correct claims and cut *)
(* a member's link.                                                        *)
(*                                                                         *)
(* A universe page that fails its own checks, and any conflict on policy,  *)
(* Source or snapshot rows, is a step that raises (Fail).                  *)
(***************************************************************************)
EXTENDS ScheduledAcquisition, Sequences

CONSTANTS
  Bills,         \* bill ids, in their order: 1 .. the number of bills
  Members,       \* member codes, in their order: numbers
  Responses,     \* [rows : [Members -> votes or None], yes, no, abstain, members]
  Scenarios,     \* initial settings: what there is at first, and the bounds
  MaxKills       \* bound on collectors and schedulers that are killed

ASSUME BillsAssumption == Bills \subseteq Nat /\ IsFiniteSet(Bills)
ASSUME NoneIsNothing == None \notin Responses /\ None \notin Members
ASSUME ScenariosAssumption == \A s \in Scenarios : s.provider \in [Bills -> Responses \cup {None}]

VARIABLES
  setting,       \* the scenario: what may happen, how often
  provider,      \* [Bills -> a response, or None before the vote]
  run,           \* the stored runs, in order: their status
  checkpoint,    \* the scope's checkpoint, or None
  observations,  \* the stored member rows
  captured,      \* [Bills -> newest stored document, or None]
  work,          \* [Workers -> what a running collector holds, or None]
  linked,        \* members whose code is linked to a resolved person
  stored,        \* the vote claims
  withheld,      \* those an operator withdrew
  replaced,      \* those superseded by a published correction
  pub,           \* what a running publication holds, or None
  kills, changes, edits, publications   \* counters of the bounds

collectionVars == <<run, checkpoint, observations, captured>>
claimVars == <<linked, stored, withheld, replaced, pub>>
counters == <<kills, changes, edits, publications>>
vars == <<scheduleVars, setting, provider, collectionVars, work, claimVars, counters>>

-----------------------------------------------------------------------------
(* What the provider publishes, and how the rows of a bill are held against *)
(* the tally of the universe.                                               *)

Tally(r) == [yes |-> r.yes, no |-> r.no, abstain |-> r.abstain, members |-> r.members]
Voted == {b \in Bills : provider[b] # None}

\* The summaries of the bills voted on, sorted by bill.
Summary(i) ==
  LET b == CHOOSE c \in Voted : Cardinality({d \in Voted : d <= c}) = i
  IN [bill |-> b, tally |-> Tally(provider[b])]
Universe == [i \in 1 .. Cardinality(Voted) |-> Summary(i)]

Voters(r) == {m \in Members : r.rows[m] # None}
Votes(r, v) == Cardinality({m \in Voters(r) : r.rows[m] = v})
Counted(r) == [yes |-> Votes(r, "YES"), no |-> Votes(r, "NO"), abstain |-> Votes(r, "ABSTAIN"),
               members |-> Cardinality(Voters(r))]

\* The content of a member row: a row of an unreconciled bill carries both tallies.
Clash(tally, r) == IF Counted(r) = tally THEN {} ELSE {[published |-> tally, rows |-> Counted(r)]}
Row(tally, r, m) == [vote |-> r.rows[m], clash |-> Clash(tally, r)]

Rows(b, tally, r, at) ==
  {[bill |-> b, member |-> m, row |-> Row(tally, r, m), at |-> at] : m \in Voters(r)}

-----------------------------------------------------------------------------
(* The stored observations                                                  *)

About(b, m) == {o \in observations : o.bill = b /\ o.member = m}

\* Ordered by recorded_at, a later version replaces an earlier one.
Latest(b, m) == CHOOSE o \in About(b, m) : \A p \in About(b, m) : p.at <= o.at

\* A version that is already stored stays as it is, with its first recorded_at.
Fresh(rows) ==
  {o \in rows : \A p \in observations :
     <<p.bill, p.member, p.row>> # <<o.bill, o.member, o.row>>}

\* The bill a collector has come to.
Bill(w) == work[w].universe[work[w].position + 1]

\* recorded_at is set when a row is built, before its transaction.
Now(b) ==
  LET held == {work[w].at : w \in {v \in live : work[v].got # None /\ Bill(v).bill = b}}
      used == {0} \cup held \cup {o.at : o \in {p \in observations : p.bill = b}}
  IN 1 + (CHOOSE x \in used : \A y \in used : y <= x)

-----------------------------------------------------------------------------
(* The collector                                                            *)

NewRun == Len(run) + 1
RunsLeft ==
  NewRun + Cardinality({w \in live : work[w].step = "read"}) <= setting.runs

\* A collector begins by reading the checkpoint, which only a resume uses.
Begun(w, again, budget) ==
  [work EXCEPT ![w] =
    [step |-> "read", prior |-> IF again THEN checkpoint ELSE None, left |-> budget,
     run |-> 0, universe |-> <<>>, position |-> 0, exceptions |-> {}, committed |-> FALSE,
     got |-> None, at |-> 0]]

Ended(w) == [work EXCEPT ![w] = None]

\* The scheduler's collector has no budget.
Launch(s, w) ==
  /\ s \in setting.schedulers /\ RunsLeft
  /\ Spawn(s, w)
  /\ work' = Begun(w, resume[s], Cardinality(Bills))
  /\ UNCHANGED <<setting, provider, collectionVars, claimVars, counters>>

\* From the command line: fresh or resumed, perhaps with --max-bills.
Start(w, again, budget) ==
  /\ w \in setting.hands /\ RunsLeft
  /\ StartByHand(w)
  /\ work' = Begun(w, again, budget)
  /\ UNCHANGED <<setting, provider, collectionVars, claimVars, counters>>

\* start_source_run
OpenRun(w) ==
  /\ work[w].step = "read"
  /\ run' = Append(run, "RUNNING")
  /\ work' = [work EXCEPT ![w].step = "universe", ![w].run = NewRun]
  /\ UNCHANGED <<scheduleVars, setting, provider, checkpoint, observations, captured,
                 claimVars, counters>>

\* The same number of bills will do.
ResumableByCount(prior, U) == Len(prior.universe) = Len(U) /\ prior.cursor < Len(U)

\* `_resume_position`: the same bills with the same tallies, and some bill is left.
Resumable(prior, U) == prior.universe = U /\ prior.cursor < Len(U)

\* `_fetch_universe`; a resume without a checkpoint starts afresh.
FetchUniverse(w) ==
  /\ work[w].step = "universe"
  /\ LET prior == work[w].prior IN
     IF prior = None
     THEN work' = [work EXCEPT ![w].step = "pages", ![w].universe = Universe]
     ELSE /\ Resumable(prior, Universe)
          /\ work' = [work EXCEPT ![w].step = "bills", ![w].universe = Universe,
                                  ![w].prior = None,
                                  ![w].position = prior.cursor,
                                  ![w].exceptions = prior.exceptions]
  /\ UNCHANGED <<scheduleVars, setting, provider, collectionVars, claimVars, counters>>

\* The summary pages of a fresh run put the cursor back to 0.
CommitPages(w) ==
  /\ work[w].step = "pages"
  /\ checkpoint' = [run |-> work[w].run, universe |-> work[w].universe, cursor |-> 0,
                    exceptions |-> {}]
  /\ work' = [work EXCEPT ![w].step = "bills", ![w].committed = TRUE]
  /\ UNCHANGED <<scheduleVars, setting, provider, run, observations, captured,
                 claimVars, counters>>

\* `_fetch_bill_votes`, and the observations built from it.
FetchBill(w) ==
  /\ work[w].step = "bills"
  /\ work[w].position < Len(work[w].universe) /\ work[w].left > 0
  /\ work' = [work EXCEPT ![w].step = "fetched",
                          ![w].got = provider[Bill(w).bill], ![w].at = Now(Bill(w).bill)]
  /\ UNCHANGED <<scheduleVars, setting, provider, collectionVars, claimVars, counters>>

ExceptionsWith(w) ==
  work[w].exceptions \cup
    (IF Clash(Bill(w).tally, work[w].got) = {} THEN {} ELSE {Bill(w).bill})

\* commit_source_page with the rows of one bill.
CommitBill(w) ==
  /\ work[w].step = "fetched"
  /\ LET b == Bill(w).bill
         tally == Bill(w).tally
         exceptions == ExceptionsWith(w)
     IN /\ observations' = observations \cup Fresh(Rows(b, tally, work[w].got, work[w].at))
        /\ captured' = [captured EXCEPT ![b] = work[w].got]
        /\ checkpoint' = [run |-> work[w].run, universe |-> work[w].universe,
                          cursor |-> work[w].position + 1, exceptions |-> exceptions]
        /\ work' = [work EXCEPT ![w].step = "bills", ![w].position = @ + 1, ![w].left = @ - 1,
                                ![w].exceptions = exceptions, ![w].committed = TRUE,
                                ![w].got = None, ![w].at = 0]
  /\ UNCHANGED <<scheduleVars, setting, provider, run, claimVars, counters>>

\* finish_source_run: SUCCESS at the last bill, PARTIAL when the budget is used up.
Finish(w) ==
  /\ work[w].step = "bills"
  /\ \/ /\ work[w].position = Len(work[w].universe)
        /\ run' = [run EXCEPT ![work[w].run] = "SUCCESS"]
     \/ /\ work[w].position < Len(work[w].universe) /\ work[w].left = 0
        /\ run' = [run EXCEPT ![work[w].run] = "PARTIAL"]
  /\ Exit(w)
  /\ work' = Ended(w)
  /\ UNCHANGED <<setting, provider, checkpoint, observations, captured, claimVars, counters>>

\* A step raises: what was committed stays, and the run is closed accordingly.
Fail(w) ==
  /\ run' = IF work[w].step = "read" THEN run
            ELSE [run EXCEPT ![work[w].run] = IF work[w].committed THEN "PARTIAL" ELSE "FAILED"]
  /\ Exit(w)
  /\ work' = Ended(w)
  /\ UNCHANGED <<setting, provider, checkpoint, observations, captured, claimVars, counters>>

\* The process dies and its run stays RUNNING.
Die(w) ==
  /\ kills < MaxKills
  /\ Exit(w)
  /\ work' = Ended(w)
  /\ kills' = kills + 1
  /\ UNCHANGED <<setting, provider, collectionVars, claimVars, changes, edits, publications>>

\* So does the run of a collector that is timed out.
KillChild(s) ==
  /\ Timeout(s)
  /\ work' = [w \in Workers |-> IF w \in live' THEN work[w] ELSE None]
  /\ UNCHANGED <<setting, provider, collectionVars, claimVars, counters>>

\* The steps of a scheduler that do not touch its collector.
Schedule(s) ==
  /\ s \in setting.schedulers
  /\ \/ /\ \/ Refuse(s) \/ Block(s) \/ Reap(s) \/ Leave(s) \/ RemoveLock(s)
           \/ \E again \in BOOLEAN : Acquire(s, again)
        /\ UNCHANGED kills
     \/ kills < MaxKills /\ Kill(s) /\ kills' = kills + 1
  /\ UNCHANGED <<setting, provider, collectionVars, work, claimVars, changes, edits, publications>>

-----------------------------------------------------------------------------
(* The provider and the operators                                           *)

\* A bill is put to the vote, or its rows or its tally are amended.
Amend(b, r) ==
  /\ changes < setting.changes
  /\ provider[b] # r
  /\ provider' = [provider EXCEPT ![b] = r]
  /\ changes' = changes + 1
  /\ UNCHANGED <<scheduleVars, setting, collectionVars, work, claimVars, kills, edits, publications>>

Current == stored \ replaced
Published == Current \ withheld

Edit ==
  /\ edits < setting.edits
  /\ edits' = edits + 1
  /\ UNCHANGED <<scheduleVars, setting, provider, collectionVars, work, stored, pub, kills,
                 changes, publications>>

Withdraw(c) ==
  /\ Edit /\ c \in Published
  /\ withheld' = withheld \cup {c}
  /\ UNCHANGED <<linked, replaced>>

Restore(c) ==
  /\ Edit /\ c \in Current \cap withheld
  /\ withheld' = withheld \ {c}
  /\ UNCHANGED <<linked, replaced>>

\* The original stays published beside its correction.
ReplaceShown(c) ==
  /\ Edit /\ c \in Current
  /\ replaced' = replaced \cup {c}
  /\ UNCHANGED <<linked, withheld>>

\* A correction is published: it has a predicate of its own and no bill among its qualifiers.
Replace(c) ==
  /\ Edit /\ c \in Current
  /\ withheld' = withheld \cup {c} /\ replaced' = replaced \cup {c}
  /\ UNCHANGED linked

\* The link on a member's roster row is superseded, or the person is no longer current.
Unlink(m) ==
  /\ Edit /\ m \in linked
  /\ linked' = linked \ {m}
  /\ UNCHANGED <<withheld, replaced>>

-----------------------------------------------------------------------------
(* The publisher                                                            *)

\* `_complete_run`
Accepts ==
  /\ checkpoint # None
  /\ run[checkpoint.run] = "SUCCESS"
  /\ checkpoint.cursor = Len(checkpoint.universe)

StartPublication ==
  /\ pub = None /\ publications < setting.publications
  /\ Accepts
  /\ pub' = [point |-> checkpoint, people |-> linked, left |-> linked, member |-> None, claims |-> {}]
  /\ publications' = publications + 1
  /\ UNCHANGED <<scheduleVars, setting, provider, collectionVars, work, linked, stored, withheld,
                 replaced, kills, changes, edits>>

\* The first version of a row is kept.
OldestOf(m, excluded) ==
  {CHOOSE o \in About(b, m) : \A p \in About(b, m) : o.at <= p.at :
     b \in {c \in Bills \ excluded : About(c, m) # {}}}

\* The newest version of each of a member's rows, without the listed exceptions.
NewestOf(m, excluded) == {Latest(b, m) : b \in {c \in Bills \ excluded : About(c, m) # {}}}

VoteClaim(o) == [member |-> o.member, bill |-> o.bill, row |-> o.row]

\* The list of exceptions is trusted.
PublishableUnlisted(rows) == TRUE

\* One row of an unreconciled bill that is not listed stops the publication.
Publishable(rows) == \A o \in rows : o.row.clash = {}

\* Members come in the order of their codes.
ReadMember(m) ==
  /\ pub # None /\ pub.member = None
  /\ m \in pub.left /\ \A n \in pub.left : m <= n
  /\ LET rows == NewestOf(m, pub.point.exceptions) IN
     /\ Publishable(rows)
     /\ pub' = [pub EXCEPT !.left = @ \ {m},
                           !.member = IF rows = {} THEN None ELSE m,
                           !.claims = {VoteClaim(o) : o \in rows}]
  /\ UNCHANGED <<scheduleVars, setting, provider, collectionVars, work, linked, stored, withheld,
                 replaced, counters>>

Matching(c) == {d \in Current : d.member = c.member /\ d.bill = c.bill}

\* Any row without a claim of its own id is imported.
ImportableById(c) == c \in stored => c \in Published

\* Another version, a withdrawn claim, and an id that was corrected away are conflicts.
Importable(c) == IF Matching(c) = {} THEN c \notin stored ELSE Matching(c) = {c} /\ c \in Published

\* import_assembly_member_claims_batch: all of a member's rows or none.
ImportMember ==
  /\ pub # None /\ pub.member # None
  /\ pub.member \in linked
  /\ \A c \in pub.claims : Importable(c)
  /\ stored' = stored \cup pub.claims
  /\ pub' = [pub EXCEPT !.member = None, !.claims = {}]
  /\ UNCHANGED <<scheduleVars, setting, provider, collectionVars, work, linked, withheld,
                 replaced, counters>>

Report ==
  /\ pub # None /\ pub.left = {} /\ pub.member = None
  /\ pub' = None
  /\ UNCHANGED <<scheduleVars, setting, provider, collectionVars, work, linked, stored, withheld,
                 replaced, counters>>

\* The publisher raises, or dies; the members it has imported stay.
StopPublication ==
  /\ pub # None
  /\ pub' = None
  /\ UNCHANGED <<scheduleVars, setting, provider, collectionVars, work, linked, stored, withheld,
                 replaced, counters>>

-----------------------------------------------------------------------------
Init ==
  /\ ScheduleInit
  /\ setting \in Scenarios
  /\ provider = setting.provider
  /\ run = <<>> /\ checkpoint = None /\ observations = {}
  /\ captured = [b \in Bills |-> None]
  /\ work = [w \in Workers |-> None]
  /\ linked = Members /\ stored = {} /\ withheld = {} /\ replaced = {} /\ pub = None
  /\ kills = 0 /\ changes = 0 /\ edits = 0 /\ publications = 0

Collector(w) ==
  OpenRun(w) \/ FetchUniverse(w) \/ CommitPages(w) \/ FetchBill(w) \/ CommitBill(w)
  \/ Finish(w) \/ Fail(w) \/ Die(w)

Next ==
  \/ \E s \in Schedulers : Schedule(s) \/ KillChild(s) \/ (\E w \in Workers : Launch(s, w))
  \/ \E w \in Workers, again \in BOOLEAN, budget \in {1, Cardinality(Bills)} : Start(w, again, budget)
  \/ \E w \in live : Collector(w)
  \/ \E b \in Bills, r \in Responses : Amend(b, r)
  \/ \E c \in stored : Withdraw(c) \/ Restore(c) \/ Replace(c)
  \/ \E m \in Members : Unlink(m) \/ ReadMember(m)
  \/ StartPublication \/ ImportMember \/ Report \/ StopPublication

Spec == Init /\ [][Next]_vars

\* A scheduler goes on; its wait for the child is bounded by the timeout.
Job(s) ==
  \/ Schedule(s) /\ (Refuse(s) \/ Block(s))
  \/ \E w \in Workers : Launch(s, w)

FairSpec ==
  /\ Spec
  /\ \A s \in Schedulers :
       /\ WF_vars(Job(s))
       /\ WF_vars(KillChild(s) \/ (Schedule(s) /\ Reap(s)))
       /\ WF_vars(Schedule(s) /\ Leave(s))

-----------------------------------------------------------------------------
(* Properties                                                               *)

Tallies == {Tally(r) : r \in Responses}
Listings == [bill : Bills, tally : Tallies]
ClaimIds == [member : Members, bill : Bills,
             row : [vote : UNION {{r.rows[m] : m \in Voters(r)} : r \in Responses},
                    clash : SUBSET [published : Tallies, rows : {Counted(r) : r \in Responses}]]]
Points(runs) == [run : runs, universe : Seq(Listings), cursor : Nat, exceptions : SUBSET Bills]
Statuses == {"RUNNING", "SUCCESS", "PARTIAL", "FAILED"}
Steps == {"read", "universe", "pages", "bills", "fetched"}
Collectors ==
  [step : Steps, prior : Points(Nat) \cup {None}, left : Nat, run : Nat, universe : Seq(Listings),
   position : Nat, exceptions : SUBSET Bills, committed : BOOLEAN, got : Responses \cup {None}, at : Nat]

\* Every variable holds what its declaration says; a collector has a record while it is live.
TypeOK ==
  /\ ScheduleTypeOK
  /\ provider \in [Bills -> Responses \cup {None}]
  /\ run \in Seq(Statuses)
  /\ checkpoint \in Points(1 .. Len(run)) \cup {None}
  /\ \A o \in observations : VoteClaim(o) \in ClaimIds /\ o.at \in Nat
  /\ captured \in [Bills -> Responses \cup {None}]
  /\ \A w \in Workers : IF w \in live THEN work[w] \in Collectors ELSE work[w] = None
  /\ linked \subseteq Members
  /\ stored \subseteq ClaimIds /\ withheld \subseteq stored /\ replaced \subseteq withheld

\* At most one collector at a time, by the scheduler's lock or because one was started by hand.
Solo == ~overridden \/ (setting.schedulers = {} /\ \A v, w \in setting.hands : v = w)

\* What the publisher takes for complete is complete, also when collectors race, die and
\* resume: every bill of the universe was stored.  And where collectors did not overlap,
\* the exceptions are exactly the bills whose stored document contradicts its tally.
AcceptedCovers ==
  Accepts => \A i \in 1 .. Len(checkpoint.universe) :
    LET u == checkpoint.universe[i] IN
    /\ captured[u.bill] # None
    /\ Solo => (u.bill \in checkpoint.exceptions <=> Clash(u.tally, captured[u.bill]) # {})

\* One current claim for a member and a bill.
OneCurrentVote ==
  \A c, d \in Current : c.member = d.member /\ c.bill = d.bill => c = d

\* No vote of a bill that did not add up is ever published.
ClaimsReconciled == \A c \in stored : c.row.clash = {}

\* Amended rows, withdrawn and corrected claims, publications that stopped half-way and
\* collections in any order leave no vote that does not add up and no two current votes.
ClaimsSound == ClaimsReconciled /\ OneCurrentVote

\* A publication that reports success leaves a published claim of the newest version of
\* every row that is not excluded, unless somebody came between.
PublicationComplete ==
  [][Report /\ checkpoint = pub.point /\ edits = 0 =>
       \A m \in pub.people, b \in Bills \ pub.point.exceptions :
         About(b, m) # {} => VoteClaim(Latest(b, m)) \in Published]_vars

\* "Publish vote Claims per current-roster member from the latest complete term run."
PublishedFromLatestRun ==
  [][\A c \in stored' \ stored : Solo /\ checkpoint = pub.point =>
       captured[c.bill].rows[c.member] = c.row.vote]_vars
=============================================================================
