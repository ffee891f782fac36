------------------------- MODULE OrganizationImportMC -------------------------
(* Three small installations for OrganizationImport, with and without overlap. *)
EXTENDS OrganizationImport, TLC

CONSTANTS i1, i2, v1, v2

MCNames == {"n", "m", "pm"}
MCFullName == [n \in MCNames |-> IF n = "m" THEN "pm" ELSE n]

\* e1, e2: yearly expense records; t1: an audit occurrence; a1, a2: disclosures of
\* item 4; w1: a witness list of the committee m.
MCKeys == {"e1", "e2", "t1", "a1", "a2", "w1"}
MCNameOf == [k \in MCKeys |-> IF k = "w1" THEN "m" ELSE "n"]

MCJobs == {"mois", "orggo", "expense", "target", "targets", "alio", "witness"}
MCLane ==
  [j \in MCJobs |->
     CASE j = "mois" -> "MOIS" [] j = "orggo" -> "ORGGO" [] j = "expense" -> "EXPENSE"
       [] j = "target" -> "TARGET" [] j = "targets" -> "TARGETS"
       [] j = "alio" -> "ALIO" [] j = "witness" -> "WITNESS"]
MCNamespace == [j \in MCJobs |-> IF j = "mois" THEN "MOIS" ELSE "ORGGO"]
MCNamesOf == [j \in MCJobs |-> CASE j = "mois" -> {"n"} [] j = "orggo" -> {"m"} [] OTHER -> {}]
MCKeysOf ==
  [j \in MCJobs |->
     CASE j = "expense" -> {"e1", "e2"} [] j = "target" -> {"t1"} [] j = "targets" -> {"t1", "e1"}
       [] j = "alio" -> {"a1", "a2"} [] j = "witness" -> {"w1"} [] OTHER -> {}]

Existing == {[ns |-> "MOIS", name |-> "n"]}
Setting(js, os, obs) ==
  {[jobs |-> js, overlap |-> o, orgs |-> os, observations |-> obs] : o \in BOOLEAN}

MCScenarios ==
  UNION {Setting({"mois", "alio"}, {}, {}),
         Setting({"expense", "target", "targets"}, Existing,
                 {<<"e1", v1>>, <<"e2", v1>>, <<"t1", v1>>}),
         Setting({"orggo", "witness"}, {}, {<<"w1", v1>>})}

ClassificationScenarios == {s \in Setting({"mois", "alio"}, {}, {}) : ~s.overlap}

Symmetric == Permutations({i1, i2})
=============================================================================
