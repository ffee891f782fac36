--------------------------- MODULE RosterArchive ---------------------------
(***************************************************************************)
(* What the batch-ingestion layer promises its consumers, without runs,    *)
(* pages, cursors or workers: an append-only archive of the record         *)
(* versions seen so far, and, from time to time, one roster that consumers *)
(* may trust.  A trusted roster was archived before it was trusted, lists  *)
(* each provider key once, and any further page revokes the trust.         *)
(***************************************************************************)
CONSTANTS Keys, Hashes

VARIABLES archive,    \* the record versions stored so far
          trusted     \* {} or {m}: the roster m consumers may rely on

vars == <<archive, trusted>>

Row == [key : Keys, hash : Hashes]

OneVersionPerKey(m) == \A r, q \in m : r.key = q.key => r = q

Init == archive = {} /\ trusted = {}

(* A page of record versions is archived; no roster is trusted until the   *)
(* enumeration it belongs to has covered its scope.                        *)
Record == /\ \E page \in SUBSET Row : archive' = archive \cup page
          /\ trusted' = {}

(* An enumeration ends with a complete scope.                              *)
Trust == /\ \E m \in SUBSET archive :
              /\ OneVersionPerKey(m)
              /\ trusted' = {m}
         /\ UNCHANGED archive

Next == Record \/ Trust

Spec == Init /\ [][Next]_vars
=============================================================================
