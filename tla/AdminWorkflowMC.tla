-------------------------- MODULE AdminWorkflowMC --------------------------
(* Small instances of AdminWorkflow: the databases a behaviour starts from *)
(* are ones its own operations lead to.                                    *)
EXTENDS AdminWorkflow

CONSTANTS a1, a2, w1, n1, n2, n3, hong, kim, rp, rq, kq, cq, op1, op2

MCNameOf == a1 :> n3 @@ a2 :> n1 @@ w1 :> n1

(* Rows that were there before the first request.                          *)
Old(x) == <<Org, x>>

List(row) == [kind |-> "LIST", subject |-> Org, row |-> row, origin |-> None,
              status |-> "PUBLISHED", live |-> TRUE]
Told(kind, who, row, origin) ==
  [Draft(kind, who, row, origin) EXCEPT !.status = "PUBLISHED"]
Bond(who, row) == Link(Old(row), who, row, "REVIEWED")
Human(name, aliases) ==
  [name |-> name, aliases |-> aliases, status |-> "RESOLVED", active |-> TRUE]

Imported == Old(a1) :> List(a1) @@ Old(a2) :> List(a2) @@ Old(w1) :> List(w1)

(* The organization claims have been imported and nobody is known yet.     *)
Fresh == [claim |-> Imported, person |-> <<>>, link |-> {},
          review |-> [row \in Rows |-> None]]

(* kim, registered from a2, has a published role, and a published witness  *)
(* claim linked on it.                                                     *)
Known == [claim |-> Imported @@ Old(rq) :> Told("ROLE", Old(kim), a2, None)
                             @@ Old(kq) :> Told("LINKED", Old(kim), w1, Old(w1)),
          person |-> Old(kim) :> Human(n1, {}),
          link |-> {Bond(Old(kim), a2), Bond(Old(kim), w1)},
          review |-> [row \in Rows |-> IF row = a1 THEN None ELSE "RESOLVED"]]

(* And hong, registered from a1, turned out to be kim under an earlier     *)
(* name: kim was renamed to n2, then hong to n1.                           *)
Twins == [claim |-> Known.claim @@ Old(rp) :> Told("ROLE", Old(hong), a1, None),
          person |-> Old(hong) :> Human(n1, {n3}) @@ Old(kim) :> Human(n2, {n1}),
          link |-> Known.link \cup {Bond(Old(hong), a1)},
          review |-> [row \in Rows |-> "RESOLVED"]]

(* A correction of kim's role has been drafted.                            *)
Revised == [Twins EXCEPT !.claim = Old(cq) :> Draft("CORRECTION", Old(kim), a2, Old(rq)) @@ @]

Confirming == {"REGISTER_PERSON", "LINK_PERSON", "RESOLVE_PERSON", "RENAME_PERSON",
               "DEACTIVATE_PERSON", "MERGE_PERSON"}
Publishing == {"PUBLISH", "WITHDRAW", "CORRECT_CLAIM"}

Office(seed, actors, requests, actions, batch) ==
  [db |-> seed, actors |-> actors, requests |-> requests, actions |-> actions, batch |-> batch]

(* One operator decides who people are; two work on what is published.     *)
OfficesSteady ==
  {Office(Fresh, {op1}, 5, Confirming \cup {"EXCLUDE", "PUBLISH", "MATERIALIZE"}, 1),
   Office(Twins, {op1}, 5, Reviewing \cup Confirming \cup {"PUBLISH", "MATERIALIZE"}, 1)}
  \cup {Office(Revised, {op1, op2}, 3, Publishing \cup {"DEACTIVATE_PERSON", "MERGE_PERSON"}, 1),
        Office(Revised, {op1}, 3, Publishing \cup {"MERGE_PERSON"}, 2)}

Racing == {"REGISTER_PERSON", "LINK_PERSON", "SUBMIT_REVIEW", "PUBLISH", "WITHDRAW", "MATERIALIZE"}
OfficesRacing == {Office(Known, {op1, op2}, 3, Racing, 1),
                  Office(Known, {op1, op2}, 2, {"PUBLISH", "WITHDRAW"}, 2),
                  Office(Known, {op1}, 3, Racing \ {"REGISTER_PERSON", "SUBMIT_REVIEW"}, 2)}
OfficesAll == OfficesSteady \cup OfficesRacing
OfficesCascade == {Office(Known, {op1}, 2, {"PUBLISH", "CORRECT_CLAIM"}, 1)}

(* No database names an operator. *)
Symmetry == Permutations(Actors)
=============================================================================
