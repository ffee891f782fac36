-------------------------- MODULE UnitCollectionMC --------------------------
(* Installations of each lane, with the changes of its provider that meet  *)
(* the lane's tests: units that come, go, are repeated or change places.   *)
(* One process starts three times and may be killed, or two run at once.   *)
EXTENDS UnitCollection

CONSTANTS w1, w2, c1, c2, c3

Install(l, list, cs, relists, budgets) ==
  [lane |-> l, listing |-> list, content |-> cs, relists |-> relists, budgets |-> budgets, sizes |-> {None}]
Stream(l, list, cs, relists, sizes) ==
  [lane |-> l, listing |-> list, content |-> cs, relists |-> relists, budgets |-> {None}, sizes |-> sizes]

One == [workers |-> {w1}, bounds |-> [runs |-> 3, crashes |-> 1, drifts |-> 1]]
Back == [workers |-> {w1}, bounds |-> [runs |-> 3, crashes |-> 0, drifts |-> 2]]
Two == [workers |-> {w1, w2}, bounds |-> [runs |-> 2, crashes |-> 0, drifts |-> 1]]

Free == {None}

Lanes == {
  Install("EXECUTIVE", <<1, 2>>, <<c1, Empty, c1>>, {<<1, 2>>, <<1, 3>>, <<3, 2>>, <<>>}, Free),
  Install("CORPORATE", <<1, 2>>, <<c1, Empty, c1>>, {<<1, 2>>, <<1, 2, 3>>, <<2>>}, Free),
  Install("EXPENSE", <<1, 2, 3>>, <<c1, Empty, c2>>, {<<1, 2, 3>>, <<2, 1>>}, Free),
  Install("GRAPH", <<2, 1, 2>>, <<c1, c3>>, {<<2, 1, 2>>, <<1, 2>>, <<2>>, <<>>}, {None, 1}),
  Install("REVIEW", <<1, 2, 1>>, <<c1, c2>>, {<<1, 2, 1>>, <<1, 1, 2>>, <<>>}, {None, 1}),
  Install("MPM", <<>>, <<c1, c2>>, {<<>>}, Free),
  Install("MEETINGS", <<1, 2, 1>>, <<c1, c2>>, {<<1, 2, 1>>, <<2, 1, 1>>, <<>>}, Free),
  Install("MEMBERS", <<1, 2>>, <<c1, c2, c1>>, {<<1, 2>>, <<2, 1>>, <<1, 3>>, <<>>}, Free),
  Install("BIOGRAPHY", <<1, 2>>, <<c1, c2, c1>>, {<<1, 2>>, <<1, 1>>, <<2, 3>>}, Free),
  Stream("BILLS", <<1, 2, 3>>, <<c1, c1, c2>>, {<<1, 2, 3>>, <<1, 3, 2>>, <<>>}, {2}),
  Stream("GAZETTE", <<1, 2>>, <<c1, c2>>, {<<1, 2>>, <<2, 1>>, <<1>>}, {1, 2}),
  Stream("CODES", <<1, 2, 3>>, <<c1, c1, c2>>, {<<1, 2, 3>>, <<1, 2, 1>>}, {2})}

MCInstallations ==
  {l @@ b : l \in Lanes, b \in {One, Two}} \cup
  {l @@ Back : l \in {m \in Lanes : m.lane \in Resumable}}

MCSelected == <<3, 1>>
MCGroups == <<1, 2>>
=============================================================================
