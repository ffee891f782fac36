------------------------ MODULE SourceContextBatchMC ------------------------
(* Small instances of SourceContextBatch.  c1, c2 and b1 are candidates of  *)
(* one name; c1 and b1 have one candidate id, in two elections' scopes;     *)
(* a1 and a9 are two versions of an executive who has that name too.        *)
EXTENDS SourceContextBatch

CONSTANTS a1, a2, a3, a9, b1, c1, c2, c3, s0, s3, s4, k1, k2, k3, n1, n2, w1, w2

kim == <<None, a2>>

MCNameOf == a1 :> n1 @@ a2 :> n2 @@ a3 :> n2 @@ a9 :> n1 @@ b1 :> n1 @@ c1 :> n1 @@ c2 :> n1 @@ c3 :> n2
MCScopeOf == [row \in {a1, a2, a3, a9} |-> s0] @@ [row \in {c1, c2, c3} |-> s3] @@ b1 :> s4
MCKeyOf == a1 :> k1 @@ a2 :> k2 @@ a3 :> k3 @@ a9 :> k1 @@ b1 :> k1 @@ c1 :> k1 @@ c2 :> k2 @@ c3 :> k3

(* The first listings are imported and nobody is known yet.                *)
Imported == [k \in {<<Org, row>> : row \in {a1, a2, a3}} |->
               [Draft("LIST", Org, k[2], None) EXCEPT !.status = "PUBLISHED"]]

Strangers == [claim |-> Imported, person |-> <<>>, link |-> {},
              review |-> [row \in Rows |-> None]]

(* kim was registered from a2, and had the name of a1 before.              *)
Known == [Strangers EXCEPT
  !.person = kim :> [name |-> n2, aliases |-> {n1}, status |-> "RESOLVED", active |-> TRUE],
  !.link = {Link(kim, kim, a2, "REVIEWED")},
  !.claim = kim :> Draft("ROLE", kim, a2, None) @@ @]

(* A batch has made one of them.                                           *)
Made(row) == Persisted(Strangers, {row})

Lists(alio, nec3, nec4) == s0 :> alio @@ s3 :> nec3 @@ s4 :> nec4
Nothing == Lists({}, {}, {})

Site(seed, listed, listings, actions, asked, processes, jobs, commands, runs) ==
  [db |-> seed, roster |-> listed, listings |-> listings, actions |-> actions,
   asked |-> asked, processes |-> processes, jobs |-> jobs, commands |-> commands, runs |-> runs]

(* Both lanes at once, about one name.                                     *)
TwoLanes == Site(Strangers, Lists({a1, a2, a3}, {c1, c2, c3}, {}), Nothing,
                 {}, {{s0}, {s3}}, 2, 4, 0, 0)

(* A name that an operator registers beside them.                          *)
Beside == [TwoLanes EXCEPT !.actions = {"REGISTER_PERSON"}, !.jobs = 3, !.commands = 1]

(* Operators on what a batch made.                                         *)
Offices == Site(Known, Lists({a1, a2, a3}, {c1}, {}), Nothing,
                {"RENAME_PERSON", "RESOLVE_PERSON", "DEACTIVATE_PERSON", "MERGE_PERSON",
                 "PUBLISH", "WITHDRAW"}, {{s0}, {s3}}, 1, 2, 3, 0)

(* A candidate in two scopes, first of one roster, then of rosters that    *)
(* change.                                                                 *)
Ballots == Site(Strangers, Lists({a1, a2, a3}, {c1, c3}, {b1}), Nothing,
                {}, {{s3}, {s4}, {s3, s4}}, 2, 3, 0, 0)
BallotsAgain == [Ballots EXCEPT !.db = Made(c1)]

Rosters == Site(Strangers, Lists({a1, a2, a3}, {c1, c3}, {b1}),
                Lists({}, {{c1, c2}, {c2}}, {}),
                {}, {{s3}, {s4}, {s3, s4}}, 1, 3, 0, 2)
RostersOfTwo == [Rosters EXCEPT !.asked = {{s3}, {s3, s4}}, !.processes = 2, !.runs = 1]

(* An executive whose record changes after the person was made, and taken  *)
(* down, or confirmed: operators may then ask to link the other version.   *)
Versions == Site(Made(a1), Lists({a1, a2, a3}, {}, {}), Lists({{a9, a2, a3}}, {}, {}),
                 {"DEACTIVATE_PERSON", "RENAME_PERSON", "RESOLVE_PERSON", "LINK_PERSON",
                  "MERGE_PERSON"}, {{s0}}, 1, 2, 2, 1)

MCSites == {TwoLanes, Beside, Offices, Ballots, BallotsAgain, Rosters, RostersOfTwo, Versions}

Symmetry == Permutations(Workers)
=============================================================================
