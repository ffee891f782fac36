--------------------------- MODULE AdminWorkflow ---------------------------
(***************************************************************************)
(* The operator workflow of packages/persistence/admin_workflow.py: an     *)
(* operator previews a command, which reads rows and shows the changes it  *)
(* would make, and commits it later, when the same rows must still read    *)
(* the same.  A commit is one serialised transaction (advisory lock or     *)
(* BEGIN IMMEDIATE); other operators commit, and the source-context batch  *)
(* creates people, between a preview and its commit.                       *)
(*                                                                         *)
(* A plan is built from the committed rows only: what one target of a      *)
(* batch is about to change, the next one does not see.                    *)
(*                                                                         *)
(* Evidence rows are immutable and stand behind the claims; source policies*)
(* and checkpoints are taken to hold throughout, since they only add       *)
(* reasons to reject a command.                                            *)
(***************************************************************************)
EXTENDS AdminRecords

CONSTANTS
  Actors,        \* operators
  Requests,      \* request ids; what a command creates is named after its own
  Offices        \* where a behaviour may start: [db, actors, requests, actions, batch]

VARIABLES
  office,    \* bounds: who works, on how many requests, with which actions (MATERIALIZE for
             \* the batch), and how many records to a command (25 in the code)
  db,        \* the committed rows: claim, person, link, review
  receipt,   \* admin_operations: the receipts, by the request that was committed
  desk       \* the preview each operator is looking at, or None

vars == <<office, db, receipt, desk>>

-----------------------------------------------------------------------------
(* What a plan reads: Plan.query records every row it returns, so a row    *)
(* that comes to match a query, or changes, changes the fingerprint.       *)

ClaimsRead(d, cmd, x) ==
  CASE cmd.action \in {"SUBMIT_REVIEW", "CORRECT_CLAIM"} -> {x}
    [] cmd.action = "WITHDRAW" -> {x} \cup Restating(d, x)
    [] cmd.action = "PUBLISH" ->
         {x} \cup Replaced(d, x)
             \cup (IF d.claim[x].kind \in {"ROLE", "LINKED"}
                   THEN ClaimsAt(d, d.claim[x].row) ELSE {})
    [] cmd.action = "REGISTER_PERSON" -> ClaimsAt(d, x)
    [] cmd.action = "LINK_PERSON" -> ClaimsAt(d, x) \cup ({cmd.bridge} \ {None})
    [] cmd.action = "RESOLVE_PERSON" ->
         (UNION {ClaimsAt(d, l.row) : l \in ContextOf(d, x)}) \cup
         {c \in ClaimsOf(d, x) : d.claim[c].kind = "ROLE"}
    [] cmd.action \in {"DEACTIVATE_PERSON", "MERGE_PERSON"} -> ClaimsOf(d, x)
    [] OTHER -> {}

PeopleRead(d, cmd, x) ==
  CASE cmd.action = "PUBLISH" -> {d.claim[x].subject} \ {Org}
    [] cmd.action = "REGISTER_PERSON" ->
         {p \in Active(d) : NameOf[x] \in CalledBy(d, p)}
    [] cmd.action = "LINK_PERSON" -> {cmd.person}
    [] cmd.action = "RENAME_PERSON" ->
         {x} \cup {p \in Active(d) : d.person[p].name = cmd.name}
    [] cmd.action = "MERGE_PERSON" -> {x, cmd.person}
    [] cmd.action \in {"RESOLVE_PERSON", "DEACTIVATE_PERSON"} -> {x}
    [] OTHER -> {}

LinksRead(d, cmd, x) ==
  CASE cmd.action = "PUBLISH" ->
         {l \in LinksOn(d, d.claim[x].row) :
            d.claim[x].kind \in {"ROLE", "LINKED"} /\ l.person = d.claim[x].subject}
    [] cmd.action \in Reviewing \cup {"REGISTER_PERSON", "LINK_PERSON"} -> LinksOn(d, x)
    [] cmd.action \in {"RESOLVE_PERSON", "DEACTIVATE_PERSON"} -> LinksOf(d, x)
    [] cmd.action = "MERGE_PERSON" ->
         LinksOf(d, x) \cup
         {l \in LinksOf(d, cmd.person) : \E m \in LinksOf(d, x) : m.row = l.row}
    [] OTHER -> {}

ReviewsRead(d, cmd, x) ==
  CASE cmd.action \in Reviewing \cup {"REGISTER_PERSON", "LINK_PERSON"} -> {x}
    [] cmd.action = "DEACTIVATE_PERSON" -> {l.row : l \in LinksOf(d, x)}
    [] OTHER -> {}

ReadsSelected(d, cmd) ==
  [claim |-> Restrict(d.claim, Range(cmd.targets) \cap DOMAIN d.claim)]
Reads(d, cmd) ==
  LET all(R(_, _, _)) == UNION {R(d, cmd, x) : x \in Range(cmd.targets)} IN
  [claim  |-> Restrict(d.claim, all(ClaimsRead)),
   person |-> Restrict(d.person, all(PeopleRead)),
   link   |-> all(LinksRead),
   review |-> Restrict(d.review, all(ReviewsRead))]

(* The rows one database has that another had not, or had otherwise.       *)
Altered(f, g) ==
  {<<x, g[x]>> : x \in {y \in DOMAIN g : y \in DOMAIN f => f[y] # g[y]}}

Changes(d, a) ==
  [claim  |-> Altered(d.claim, a.claim),
   person |-> Altered(d.person, a.person),
   link   |-> a.link \ d.link,
   review |-> Altered(d.review, a.review)]

-----------------------------------------------------------------------------

Init == /\ \E o \in Offices :
             /\ db = o.db
             /\ office = [actors |-> o.actors, requests |-> o.requests, actions |-> o.actions,
                          batch |-> o.batch]
        /\ receipt = <<>>
        /\ desk = [a \in Actors |-> None]

Requested == {r \in Requests : \/ r \in DOMAIN receipt
                              \/ \E a \in Actors : desk[a] # None /\ desk[a].request = r}

(* Request ids are all alike: the next one is any that is not in use.      *)
NextRequest == CHOOSE r \in Requests : r \notin Requested

(* preview: build the plan, write nothing, sign the fingerprint it read.   *)
Preview(a) ==
  /\ a \in office.actors /\ desk[a] = None
  /\ Cardinality(Requested) < office.requests
  /\ \E act \in office.actions \ {"MATERIALIZE"} : \E cmd \in Commands(db, act, office.batch) :
       /\ Permitted(db, cmd)
       /\ desk' = [desk EXCEPT ![a] =
            [request |-> NextRequest, cmd |-> cmd, reads |-> Reads(db, cmd),
             shown |-> Changes(db, Planned(db, NextRequest, cmd))]]
  /\ UNCHANGED <<office, db, receipt>>

(* An operator cancels a preview, or its five minutes run out.             *)
Close(a) == /\ desk[a] # None
            /\ desk' = [desk EXCEPT ![a] = None]
            /\ UNCHANGED <<office, db, receipt>>

(* The plan built again under the lock has read what the preview read.     *)
CurrentAsShown(d, p) == TRUE
Current(d, p) == Permitted(d, p.cmd) /\ Reads(d, p.cmd) = p.reads

(* The answer may be lost, and then the operator still has the preview.    *)
Commit(a) ==
  /\ desk[a] # None
  /\ desk[a].request \notin DOMAIN receipt
  /\ Current(db, desk[a])
  /\ db' = Planned(db, desk[a].request, desk[a].cmd)
  /\ receipt' = Put(receipt, desk[a].request, [actor |-> a, cmd |-> desk[a].cmd])
  /\ \/ desk' = [desk EXCEPT ![a] = None]
     \/ UNCHANGED desk
  /\ UNCHANGED office

(* The same request again: the receipt is the answer, nothing is written.  *)
Replay(a) ==
  /\ desk[a] # None
  /\ desk[a].request \in DOMAIN receipt
  /\ receipt[desk[a].request] = [actor |-> a, cmd |-> desk[a].cmd]
  /\ Close(a)

(* prepare and commit_alio_person_materialization, under the people lock:  *)
(* a person to review for every listed, unlinked row with a fresh name.    *)
Creatable(d) ==
  {row \in AlioRows : /\ Listed(d, row)
                      /\ <<Batch, row>> \notin DOMAIN d.person
                      /\ LinksOn(d, row) = {}
                      /\ \A other \in AlioRows \ {row} : NameOf[other] # NameOf[row]
                      /\ ~ Collides(d, NameOf[row])}

Materialize ==
  /\ "MATERIALIZE" \in office.actions
  /\ LET rows == Creatable(db)
         ids == {<<Batch, row>> : row \in rows} IN
     /\ rows # {}
     /\ db' = [db EXCEPT
          !.person = PutAll(@, [i \in ids |-> [name |-> NameOf[i[2]], aliases |-> {},
                                                status |-> "REVIEW", active |-> TRUE]]),
          !.claim = PutAll(@, [i \in ids |-> Draft("ROLE", i, i[2], None)]),
          !.link = @ \cup {Link(i, i, i[2], "CONTEXT") : i \in ids}]
  /\ UNCHANGED <<office, receipt, desk>>

Next == \/ \E a \in Actors : Preview(a) \/ Close(a) \/ Commit(a) \/ Replay(a)
        \/ Materialize

Spec == Init /\ [][Next]_vars

-----------------------------------------------------------------------------
(* Properties                                                              *)

Statuses == {"DRAFT", "REVIEW", "PUBLISHED", "WITHHELD"}

(* The tables of a database d refer to rows that exist.                    *)
Typed(d) ==
  /\ DOMAIN d = {"claim", "person", "link", "review"}
  /\ d.claim \in [DOMAIN d.claim ->
       [kind : {"LIST", "ROLE", "LINKED", "CORRECTION"}, subject : DOMAIN d.person \cup {Org},
        row : Rows, origin : DOMAIN d.claim \cup {None}, status : Statuses, live : BOOLEAN]]
  /\ d.person \in [DOMAIN d.person ->
       [name : Names, aliases : SUBSET Names, status : {"REVIEW", "RESOLVED"}, active : BOOLEAN]]
  /\ \A l \in d.link : /\ DOMAIN l = {"id", "person", "row", "how", "live"}
                       /\ l.person \in DOMAIN d.person /\ l.row \in Rows
                       /\ l.how \in {"CONTEXT", "REVIEWED"} /\ l.live \in BOOLEAN
  /\ d.review \in [Rows -> {None, "OPEN", "REJECTED", "RESOLVED"}]

(* Every table refers to rows that exist, and every receipt and preview is *)
(* of a known operator.                                                    *)
TypeOK ==
  /\ Typed(db)
  /\ DOMAIN receipt \subseteq Requests
  /\ \A r \in DOMAIN receipt : receipt[r].actor \in Actors
  /\ \A a \in Actors : desk[a] # None => desk[a].request \in Requests

Backed(d) ==
  \A c \in Public(d) : LET k == d.claim[c] IN
    k.subject # Org =>
      /\ k.subject \in Resolved(d)
      /\ k.kind \in {"ROLE", "LINKED"} => Linked(d, k.subject, k.row)

(* A claim in public about a person is about a current, confirmed person,  *)
(* and one drawn from a source row still has that row linked to them:      *)
(* whatever resolves, links, merges or deactivates people in between keeps *)
(* what _publication_gate checked at publication.                          *)
PublishedIsBacked == Backed(db)

(* A source row belongs to one person at a time, whoever links it: two     *)
(* operators, a merge or the batch.                                        *)
OneOwnerPerRow(d) ==
  \A l, m \in d.link : l.live /\ m.live /\ l.row = m.row => l = m

(* No two current people carry one canonical name: registration, rename    *)
(* and the batch each look for it, and what they saw is rechecked.         *)
NamesDistinct(d) ==
  \A p, q \in Active(d) : d.person[p].name = d.person[q].name => p = q

(* So a source row, like a name, leads to one person.                      *)
IdentitiesDistinct == OneOwnerPerRow(db) /\ NamesDistinct(db)

(* A person witness claim is in public only with the list claim it         *)
(* restates: "it cannot outlive its source".                               *)
LinkedHasSource ==
  \A c \in Public(db) :
    db.claim[c].kind = "LINKED" => db.claim[c].origin \in Public(db)

SourcesStand(d) ==
  \A c \in Public(d) : LET o == d.claim[c].origin IN
    d.claim[c].kind = "LINKED" /\ d.claim[o].live => o \in Public(d)

(* No person witness claim stays in public, or gets there, when the list   *)
(* claim it restates has been withdrawn: the cascade takes every copy,     *)
(* those a merge made and those published beside it.                       *)
SourceNotWithdrawn == SourcesStand(db)

(* Whatever operators write is what one of them was shown and confirmed,   *)
(* once, under a new receipt; only the batch writes without one.           *)
PreviewHonored ==
  [][db' # db =>
       \/ /\ receipt' = receipt
          /\ \A p \in DOMAIN db'.person \ DOMAIN db.person : p[1] = Batch
          /\ DOMAIN db.person # DOMAIN db'.person
       \/ \E a \in Actors :
            /\ desk[a] # None
            /\ desk[a].request \notin DOMAIN receipt
            /\ receipt' = Put(receipt, desk[a].request, [actor |-> a, cmd |-> desk[a].cmd])
            /\ Changes(db, db') = desk[a].shown]_vars

Corrections(d) == {c \in Public(d) : d.claim[c].kind = "CORRECTION"}
OriginalsReplaced(d) ==
  \A c \in Corrections(d) : ~ d.claim[d.claim[c].origin].live

(* Behind a correction in public its original is not in public, nor current*)
(* again; and no command adds to the corrections in public another of the  *)
(* same original.  What one batch publishes it publishes beside each other:*)
(* two drafts of one original, when it holds both.                         *)
CorrectionReplaces ==
  [][/\ OriginalsReplaced(db')
     /\ \A c \in Corrections(db') \ Corrections(db) :
          \A k \in Corrections(db) \cap Corrections(db') :
            db'.claim[c].origin # db.claim[k].origin]_vars

(* A merge loses nothing that was public: each published claim of the      *)
(* merged person is, after it, a published claim of the survivor, and the  *)
(* person who went keeps no current claim and no link.                     *)
MergeKeepsPublic ==
  [][\A r \in DOMAIN receipt' \ DOMAIN receipt :
       LET cmd == receipt'[r].cmd IN
       cmd.action = "MERGE_PERSON" =>
         LET p == cmd.targets[1] IN
         /\ \A c \in Public(db) \cap ClaimsOf(db, p) :
              \E k \in Public(db') :
                db'.claim[k] = [db.claim[c] EXCEPT !.subject = cmd.person]
         /\ ClaimsOf(db', p) = {} /\ LinksOf(db', p) = {}]_vars

-----------------------------------------------------------------------------
(* What is taken for granted of the constants                              *)

(* The ids of a database: pairs, of what made the row and of what.         *)
Ids(d) == DOMAIN d.claim \cup DOMAIN d.person \cup {l.id : l \in d.link}

(* What the importers, the batch and the operators write of an origin: a   *)
(* listing is of an organization, a witness claim restates one of a witness*)
(* row, and a correction replaces a claim. The batch makes a person with   *)
(* its first claim and link.                                               *)
Grounded(d) ==
  /\ Org \notin DOMAIN d.person
  /\ \A c \in DOMAIN d.claim : LET k == d.claim[c] IN
       /\ k.kind = "LIST" => k.subject = Org /\ k.row \notin NecRows
       /\ k.kind \in {"LINKED", "CORRECTION"} => k.origin \in DOMAIN d.claim
       /\ k.kind = "LINKED" => d.claim[k.origin].kind = "LIST" /\ d.claim[k.origin].row \in WitnessRows
  /\ \A l, m \in d.link : l.id = m.id => l = m
  /\ \A row \in AlioRows : <<Batch, row>> \in Ids(d) => <<Batch, row>> \in DOMAIN d.person

Consistent(d) ==
  /\ Typed(d) /\ Grounded(d)
  /\ OneOwnerPerRow(d) /\ NamesDistinct(d) /\ Backed(d) /\ SourcesStand(d)

(* The current versions of one claim, and the claim while it is current,   *)
(* are of one subject: who corrects a claim keeps its subject.             *)
VersionsAlike(d) ==
  \A c, k \in {x \in Live(d) : d.claim[x].kind = "CORRECTION"} :
    LET o == d.claim[c].origin IN
    /\ o \in Live(d) => d.claim[o].subject = d.claim[c].subject
    /\ d.claim[k].origin = o => d.claim[k].subject = d.claim[c].subject

Versioned(d) == OriginalsReplaced(d) /\ VersionsAlike(d)

ASSUME NamesAssumption == NameOf \in [Rows -> Names]

ASSUME IdsAssumption ==
  /\ IsFiniteSet(Requests) /\ Batch \notin Requests
  /\ \A r \in Requests \cup {Batch}, row \in Rows : Org # <<r, row>>

(* A behaviour starts in a database the program could have made, in which  *)
(* none of its requests has been committed.                                *)
ASSUME OfficesAssumption ==
  \A o \in Offices :
    /\ o.actions \subseteq Actions \cup {"MATERIALIZE"}
    /\ o.requests \in 0 .. Cardinality(Requests) /\ o.batch \in Nat
    /\ Consistent(o.db) /\ Versioned(o.db)
    /\ \A i \in Ids(o.db) : i[1] \notin Requests
=============================================================================
