----------------------------- MODULE RecordLedger -----------------------------
(***************************************************************************)
(* What the importers of organization claims promise of one import key: an *)
(* organization, a predicate, a source contract and a provider record.     *)
(* A key is entered once, in one version, and published.  From then on only*)
(* an operator changes the entry: it is withheld, shown again, or replaced *)
(* for good by a correction.  No import ever touches an entered key.       *)
(***************************************************************************)

CONSTANTS
  LedgerKeys,   \* the import keys
  LedgerVersions

VARIABLE
  entry         \* the entries made so far

Standings == {"PUBLISHED", "WITHHELD", "REPLACED"}
Entries == [key : LedgerKeys, ver : LedgerVersions, st : Standings]

Init == entry = {}

\* One import enters any number of keys, none of which was known.
Enter ==
  /\ entry' \in SUBSET Entries
  /\ entry \subseteq entry'
  /\ \A e \in entry' \ entry :
       /\ e.st = "PUBLISHED"
       /\ \A f \in entry' : f.key = e.key => f = e

\* An operator moves one entry; a replaced one is never moved again.
Move(from, to) ==
  \E e \in entry :
    /\ e.st = from
    /\ entry' = (entry \ {e}) \cup {[e EXCEPT !.st = to]}

Next ==
  \/ Enter
  \/ Move("PUBLISHED", "WITHHELD")
  \/ Move("WITHHELD", "PUBLISHED")
  \/ Move("PUBLISHED", "REPLACED")
  \/ Move("WITHHELD", "REPLACED")

Spec == Init /\ [][Next]_entry
=============================================================================
