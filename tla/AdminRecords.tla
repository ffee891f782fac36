---------------------------- MODULE AdminRecords ----------------------------
(***************************************************************************)
(* The records operators decide over, and what each action of              *)
(* packages/persistence/admin_workflow.py accepts and writes.  A database d*)
(* has the fields claim, person, link and review; "live" is "not           *)
(* superseded".  Every operator here is a function of databases: who calls *)
(* it, and when, is up to the modules that extend this one.                *)
(***************************************************************************)
EXTENDS Naturals, Sequences, FiniteSets, SequencesExt, TLC

CONSTANTS
  Names,         \* personal names
  AlioRows,      \* ALIO executive observations
  WitnessRows,   \* committee witness observations
  NecRows,       \* NEC candidate observations
  NameOf,        \* the name an observation lists
  Org,           \* the organizations, as the subject of a claim
  Batch,         \* names what the source-context batch creates
  None

Rows == AlioRows \cup WitnessRows \cup NecRows

Batched == {"HOLD", "EXCLUDE", "REOPEN", "REGISTER_PERSON",
            "SUBMIT_REVIEW", "PUBLISH", "WITHDRAW"}
Reviewing == {"HOLD", "EXCLUDE", "REOPEN"}
Actions == Batched \cup {"LINK_PERSON", "CORRECT_CLAIM", "RESOLVE_PERSON", "RENAME_PERSON",
                         "DEACTIVATE_PERSON", "MERGE_PERSON"}

-----------------------------------------------------------------------------
(* Rows *)

Put(f, x, v) == [y \in DOMAIN f \cup {x} |-> IF y = x THEN v ELSE f[y]]
PutAll(f, g) == [y \in DOMAIN f \cup DOMAIN g |-> IF y \in DOMAIN g THEN g[y] ELSE f[y]]

Live(d) == {c \in DOMAIN d.claim : d.claim[c].live}
ClaimsOf(d, p) == {c \in Live(d) : d.claim[c].subject = p}
LinksOn(d, row) == {l \in d.link : l.live /\ l.row = row}
LinksOf(d, p) == {l \in d.link : l.live /\ l.person = p}
Active(d) == {p \in DOMAIN d.person : d.person[p].active}
Resolved(d) == {p \in Active(d) : d.person[p].status = "RESOLVED"}
CalledBy(d, p) == {d.person[p].name} \cup d.person[p].aliases

ClaimsAt(d, row) == {c \in DOMAIN d.claim : d.claim[c].row = row}

(* The published organization claims that carry a source row.              *)
Listing(d, row) == {c \in Live(d) \cap ClaimsAt(d, row) :
                      d.claim[c].kind = "LIST" /\ d.claim[c].status = "PUBLISHED"}
Public(d) == {c \in Live(d) : d.claim[c].status = "PUBLISHED"}
Listed(d, row) == Cardinality(Listing(d, row)) = 1

Linked(d, p, row) == \E l \in LinksOn(d, row) : l.person = p

-----------------------------------------------------------------------------
(* Which commands a plan accepts.  Every guard reads committed rows.       *)

MayReview(d, row) == row \in AlioRows /\ LinksOn(d, row) = {}

MaySubmit(d, c) == c \in Live(d) /\ d.claim[c].status \in {"DRAFT", "WITHHELD"}
MayWithdraw(d, c) == c \in Live(d) /\ d.claim[c].status # "WITHHELD"
MayCorrect(d, c) == c \in Live(d)

(* A correction replaces its original only while that is current.          *)
MayReplaceAgain(d, c) ==
  LET k == d.claim[c] IN d.claim[k.origin].subject = k.subject
MayReplace(d, c) ==
  LET k == d.claim[c] IN
  k.origin \in Live(d) /\ d.claim[k.origin].subject = k.subject

(* The reviewed link behind a person claim and the one published listing of*)
(* its row are rechecked; for a witness, that it is still the same listing.*)
BindingHolds(d, c) ==
  LET k == d.claim[c] IN
  /\ Linked(d, k.subject, k.row)
  /\ Listed(d, k.row)
  /\ k.kind = "LINKED" => k.origin \in Listing(d, k.row)

MayPublish(d, c) ==
  /\ c \in Live(d)
  /\ d.claim[c].status # "PUBLISHED"
  /\ d.claim[c].kind \in {"ROLE", "LINKED"} => BindingHolds(d, c)
  /\ d.claim[c].subject # Org => d.claim[c].subject \in Resolved(d)
  /\ d.claim[c].kind = "CORRECTION" => MayReplace(d, c)

NameFree(d, name) == \A p \in Active(d) : name \notin CalledBy(d, p)

MayRegister(d, row) == /\ row \in AlioRows
                       /\ Listed(d, row)
                       /\ LinksOn(d, row) = {}
                       /\ NameFree(d, NameOf[row])

(* A witness row is linked on the strength of a current institutional      *)
(* record of the target itself, the bridge; an ALIO row, of any official   *)
(* evidence.                                                               *)
MayLink(d, row, p, bridge) ==
  /\ Listed(d, row)
  /\ LinksOn(d, row) = {}
  /\ p \in Resolved(d)
  /\ NameOf[row] \in CalledBy(d, p)
  /\ IF row \in WitnessRows
     THEN bridge \in ClaimsOf(d, p) /\ d.claim[bridge].kind = "ROLE"
     ELSE bridge = None

(* A person made by the source-context batch is confirmed from its one     *)
(* source link and the draft that came with it.                            *)
ContextOf(d, p) == {l \in LinksOf(d, p) : l.how = "CONTEXT"}
MayResolve(d, p) ==
  /\ p \in Active(d)
  /\ d.person[p].status = "REVIEW"
  /\ \E l \in LinksOf(d, p) :
       /\ ContextOf(d, p) = {l}
       /\ IF l.row \in NecRows THEN d.person[p].name = NameOf[l.row]
                             ELSE Listed(d, l.row)
       /\ Cardinality({c \in ClaimsOf(d, p) \cap ClaimsAt(d, l.row) :
                         /\ d.claim[c].kind \in {"ROLE", "CANDIDACY"}
                         /\ d.claim[c].status = "DRAFT"}) = 1

MayRenameFreely(d, p, name) == p \in Active(d) /\ name # d.person[p].name
MayRename(d, p, name) ==
  /\ p \in Active(d)
  /\ name # d.person[p].name
  /\ \A q \in Active(d) \ {p} : d.person[q].name # name

MayMerge(d, p, t) ==
  /\ p \in Active(d)
  /\ t \in Resolved(d) \ {p}
  /\ d.person[p].name \in CalledBy(d, t)

Accepts(d, cmd, x) ==
  CASE cmd.action \in Reviewing         -> MayReview(d, x)
    [] cmd.action = "REGISTER_PERSON"   -> MayRegister(d, x)
    [] cmd.action = "LINK_PERSON"       -> MayLink(d, x, cmd.person, cmd.bridge)
    [] cmd.action = "SUBMIT_REVIEW"     -> MaySubmit(d, x)
    [] cmd.action = "PUBLISH"           -> MayPublish(d, x)
    [] cmd.action = "WITHDRAW"          -> MayWithdraw(d, x)
    [] cmd.action = "CORRECT_CLAIM"     -> MayCorrect(d, x)
    [] cmd.action = "RESOLVE_PERSON"    -> MayResolve(d, x)
    [] cmd.action = "RENAME_PERSON"     -> MayRename(d, x, cmd.name)
    [] cmd.action = "DEACTIVATE_PERSON" -> x \in Active(d)
    [] cmd.action = "MERGE_PERSON"      -> MayMerge(d, x, cmd.person)

(* Every target is accepted, and one batch registers a name once.          *)
Permitted(d, cmd) ==
  /\ \A x \in Range(cmd.targets) : Accepts(d, cmd, x)
  /\ cmd.action = "REGISTER_PERSON" =>
       IsInjective([i \in DOMAIN cmd.targets |-> NameOf[cmd.targets[i]]])

-----------------------------------------------------------------------------
(* What a command writes.  d is the committed database the plan reads, a   *)
(* the one the plan has written so far, r the request that names new rows. *)

Marked(a, cs, status) ==
  [a EXCEPT !.claim = [c \in DOMAIN a.claim |->
     IF c \in cs THEN [a.claim[c] EXCEPT !.status = status] ELSE a.claim[c]]]

Superseded(a, cs) ==
  [a EXCEPT !.claim = [c \in DOMAIN a.claim |->
     IF c \in cs THEN [a.claim[c] EXCEPT !.live = FALSE] ELSE a.claim[c]]]

Unlinked(a, ls) ==
  [a EXCEPT !.link = (@ \ ls) \cup {[l EXCEPT !.live = FALSE] : l \in ls}]

Reviewed(a, rows, state) ==
  [a EXCEPT !.review = [row \in Rows |->
     IF row \in rows THEN state ELSE a.review[row]]]

(* The person claims that restate a witness list claim and are, or are     *)
(* about to be, public.                                                    *)
Restating(d, c) ==
  {k \in Live(d) : /\ d.claim[c].kind = "LIST" /\ d.claim[c].row \in WitnessRows
                   /\ d.claim[k].kind = "LINKED" /\ d.claim[k].origin = c
                   /\ d.claim[k].status \in {"PUBLISHED", "REVIEW"}}

Replaced(d, c) ==
  IF d.claim[c].kind = "CORRECTION" THEN {d.claim[c].origin} ELSE {}

PublishBeside(d, a, c) == Marked(a, {c}, "PUBLISHED")
Publish(d, a, c) ==
  Marked(Superseded(Marked(a, Replaced(d, c), "WITHHELD"), Replaced(d, c)),
         {c}, "PUBLISHED")

WithdrawAlone(d, a, c) == Marked(a, {c}, "WITHHELD")
Withdraw(d, a, c) == Marked(a, {c} \cup Restating(d, c), "WITHHELD")

Draft(kind, p, row, origin) ==
  [kind |-> kind, subject |-> p, row |-> row, origin |-> origin,
   status |-> "DRAFT", live |-> TRUE]

Correct(d, a, c, r) ==
  [a EXCEPT !.claim = Put(@, <<r, c>>,
     Draft("CORRECTION", d.claim[c].subject, d.claim[c].row, c))]

Link(id, p, row, how) ==
  [id |-> id, person |-> p, row |-> row, how |-> how, live |-> TRUE]

(* _create_link_and_claim, with the review it resolves.                    *)
Attributed(a, row, p, r, how, claim) ==
  [Reviewed(a, {row}, "RESOLVED") EXCEPT
     !.link = @ \cup {Link(<<r, row>>, p, row, how)},
     !.claim = Put(@, <<r, row>>, claim)]

Register(a, row, r) ==
  [Attributed(a, row, <<r, row>>, r, "REVIEWED",
              Draft("ROLE", <<r, row>>, row, None)) EXCEPT
     !.person = Put(@, <<r, row>>,
       [name |-> NameOf[row], aliases |-> {}, status |-> "RESOLVED", active |-> TRUE])]

LinkPerson(d, a, row, p, r) ==
  Attributed(a, row, p, r, "REVIEWED",
    IF row \in AlioRows
    THEN Draft("ROLE", p, row, None)
    ELSE Draft("LINKED", p, row, CHOOSE c \in Listing(d, row) : TRUE))

Rename(d, a, p, name) ==
  [a EXCEPT !.person[p].name = name,
            !.person[p].aliases = @ \cup {d.person[p].name}]

DeactivateDeletes(d, a, p) ==
  [Unlinked(a, LinksOf(d, p)) EXCEPT !.person = Restrict(@, DOMAIN @ \ {p})]
DeactivateInPublic(d, a, p) ==
  [Unlinked(a, LinksOf(d, p)) EXCEPT !.person[p].active = FALSE]
Deactivate(d, a, p) ==
  [Reviewed(Unlinked(Marked(a, ClaimsOf(d, p), "WITHHELD"), LinksOf(d, p)),
            {l.row : l \in LinksOf(d, p)}, "REJECTED")
     EXCEPT !.person[p].active = FALSE]

(* The survivor gets a copy of every current claim, in the status it had,  *)
(* the links it has not already, and the aliases.                          *)
CopiesAsDrafts(d, p, t, r) ==
  [k \in {<<r, c>> : c \in ClaimsOf(d, p)} |->
     [d.claim[k[2]] EXCEPT !.subject = t, !.status = "DRAFT"]]
Copies(d, p, t, r) ==
  [k \in {<<r, c>> : c \in ClaimsOf(d, p)} |-> [d.claim[k[2]] EXCEPT !.subject = t]]

Merge(d, a, p, t, r) ==
  [Unlinked(Superseded(a, ClaimsOf(d, p)), LinksOf(d, p)) EXCEPT
     !.claim = PutAll(@, Copies(d, p, t, r)),
     !.link = @ \cup {Link(<<r, l.id>>, t, l.row, "REVIEWED") :
                        l \in {m \in LinksOf(d, p) : ~ Linked(d, t, m.row)}},
     !.person[t].aliases = @ \cup d.person[p].aliases,
     !.person[p].aliases = {},
     !.person[p].active = FALSE]

Effect(d, a, x, r, cmd) ==
  CASE cmd.action \in {"HOLD", "REOPEN"} -> Reviewed(a, {x}, "OPEN")
    [] cmd.action = "EXCLUDE"           -> Reviewed(a, {x}, "REJECTED")
    [] cmd.action = "REGISTER_PERSON"   -> Register(a, x, r)
    [] cmd.action = "LINK_PERSON"       -> LinkPerson(d, a, x, cmd.person, r)
    [] cmd.action = "SUBMIT_REVIEW"     -> Marked(a, {x}, "REVIEW")
    [] cmd.action = "PUBLISH"           -> Publish(d, a, x)
    [] cmd.action = "WITHDRAW"          -> Withdraw(d, a, x)
    [] cmd.action = "CORRECT_CLAIM"     -> Correct(d, a, x, r)
    [] cmd.action = "RESOLVE_PERSON"    -> [a EXCEPT !.person[x].status = "RESOLVED"]
    [] cmd.action = "RENAME_PERSON"     -> Rename(d, a, x, cmd.name)
    [] cmd.action = "DEACTIVATE_PERSON" -> Deactivate(d, a, x)
    [] cmd.action = "MERGE_PERSON"      -> Merge(d, a, x, cmd.person, r)

(* build_plan: the targets in the order of their ids, whatever that is.    *)
Planned(d, r, cmd) ==
  LET after[i \in 0 .. Len(cmd.targets)] ==
        IF i = 0 THEN d ELSE Effect(d, after[i - 1], cmd.targets[i], r, cmd)
  IN  after[Len(cmd.targets)]

-----------------------------------------------------------------------------
(* The commands an operator can put together from what the desk lists, n   *)
(* records to a command at most.                                           *)

Selections(act, S, n) ==
  UNION {{q \in [1 .. k -> S] : IsInjective(q)} :
           k \in 1 .. (IF act \in Batched THEN n ELSE 1)}

Selectable(d, act) ==
  IF act \in Reviewing \cup {"REGISTER_PERSON", "LINK_PERSON"} THEN Rows
  ELSE IF act \in {"SUBMIT_REVIEW", "PUBLISH", "WITHDRAW", "CORRECT_CLAIM"}
       THEN DOMAIN d.claim
       ELSE DOMAIN d.person

Commands(d, act, n) ==
  [action  : {act},
   targets : Selections(act, Selectable(d, act), n),
   person  : IF act \in {"LINK_PERSON", "MERGE_PERSON"} THEN DOMAIN d.person ELSE {None},
   bridge  : IF act = "LINK_PERSON" THEN DOMAIN d.claim \cup {None} ELSE {None},
   name    : IF act = "RENAME_PERSON" THEN Names ELSE {None}]

-----------------------------------------------------------------------------

(* A name is taken by a current person, or by a current alias of anybody.  *)
Collides(d, name) == \/ \E p \in Active(d) : d.person[p].name = name
                     \/ \E p \in DOMAIN d.person : name \in d.person[p].aliases
=============================================================================
