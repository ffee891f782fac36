--------------------------- MODULE RollCallVotesMC ---------------------------
(* Small instances of RollCallVotes. *)
EXTENDS RollCallVotes

CONSTANTS s1, s2, w1, w2

Doc(v1, v2, yes, no) ==
  [rows |-> <<v1, v2>>, yes |-> yes, no |-> no, abstain |-> 0, members |-> 2]

Agreed == Doc("YES", "NO", 1, 1)
Amended == Doc("YES", "YES", 2, 0)   \* a vote and the tally are corrected
Short == Doc("YES", None, 1, 1)      \* a member row is missing
MCResponses == {Agreed, Amended, Short}

\* Two schedulers that time out, are killed and lose their lock.
Scheduled == [schedulers |-> {s1, s2}, hands |-> {}, provider |-> <<Agreed, Short>>,
              runs |-> 2, changes |-> 0, edits |-> 0, publications |-> 1]
\* One collector from the command line: budgets, failures, crashes, resumes.
ByHand == [schedulers |-> {}, hands |-> {w1}, provider |-> <<Agreed, Amended>>,
           runs |-> 2, changes |-> 1, edits |-> 1, publications |-> 2]
\* Two of them at once, and a bill that is voted on meanwhile.
Racing == [schedulers |-> {}, hands |-> {w1, w2}, provider |-> <<Agreed, None>>,
           runs |-> 2, changes |-> 1, edits |-> 0, publications |-> 1]
\* Operators withdraw, restore and correct between two publications.
Edited == [schedulers |-> {}, hands |-> {w1}, provider |-> <<Agreed, None>>,
           runs |-> 1, changes |-> 0, edits |-> 2, publications |-> 2]
MCScenarios == {Scheduled, ByHand, Racing, Edited}
\* One collector, one bill, amended and amended back.
MCBackAndForth == {[ByHand EXCEPT !.provider = <<Agreed, None>>, !.runs = 3, !.changes = 2, !.edits = 0,
                            !.publications = 1]}
MCScheduled == {Scheduled}
=============================================================================
