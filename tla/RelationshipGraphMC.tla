----------------------- MODULE RelationshipGraphMC -----------------------
(***************************************************************************)
(* Three people, years of two months of two days.  Four installations: a   *)
(* committee with its witnesses beside operators and importers; sources    *)
(* that state periods in days, months and years; careers and schools that  *)
(* are named in free text; chains of affiliations.                         *)
(***************************************************************************)
EXTENDS RelationshipGraph

MCPeople == 1 .. 3
Span(a, b) == [from |-> a, till |-> b]

Line(lane, at, held) ==
  [lane |-> lane, at |-> at, held |-> held, name |-> None, unit |-> None, endUnit |-> None,
   ongoing |-> FALSE, listed |-> None, capture |-> None, category |-> None,
   spans |-> <<>>, department |-> None, level |-> None]

Seat(code, day, run) ==
  [Line("COMMITTEE", code, Span(day - 1, day + 1))
     EXCEPT !.name = "Budget", !.listed = day, !.capture = run]
School(name, at, held, unit, endUnit, level) ==
  [Line("EDUCATION", at, held)
     EXCEPT !.name = name, !.unit = unit, !.endUnit = endUnit, !.level = level]
Career(category, spans, held, unit, endUnit, ongoing) ==
  [Line("CAREER", "line", held)
     EXCEPT !.category = category, !.spans = spans, !.unit = unit, !.endUnit = endUnit,
            !.ongoing = ongoing, !.listed = 9]

MCTextOf ==
  [seat      |-> Seat("C1", 9, "run2"),
   oldSeat   |-> Seat("C2", 5, "run1"),
   witness   |-> [Line("WITNESS", "K1", Span(9, 9)) EXCEPT !.name = "Budget", !.listed = 9],
   party     |-> [Line("PARTY", "P", Span(8, 10)) EXCEPT !.listed = 9, !.capture = "run2"],
   alio      |-> [Line("ALIO", "institute", Span(8, 10)) EXCEPT !.listed = 9, !.capture = "alio9"],
   oldAlio   |-> [Line("ALIO", "institute", Span(4, 6)) EXCEPT !.listed = 5, !.capture = "alio5"],
   adviser   |-> [Line("ALIO", "agency", Span(8, 10)) EXCEPT !.listed = 9, !.capture = "agency9"],
   dart      |-> [Line("DART", "corp1", Span(6, 10))
                    EXCEPT !.unit = "DAY", !.listed = 9, !.capture = "receipt"],
   term      |-> [Line("TERM", "20", Span(0, 3)) EXCEPT !.name = "P"],
   lateTerm  |-> [Line("TERM", "20", Span(3, 3)) EXCEPT !.name = "Q"],
   bill1     |-> Line("BILL", "bill1", None),
   bill2     |-> Line("BILL", "bill2", None),
   anchor    |-> Line("ANCHOR", None, None),
   early     |-> School("Univ", "Univ", Span(0, 1), "DAY", "MONTH", "UNIVERSITY"),
   late      |-> School("Univ", "Univ", Span(3, 9), "YEAR", "YEAR", "GRADUATE_SCHOOL"),
   long      |-> School("Univ", "Univ", Span(0, 5), "DAY", "YEAR", "UNIVERSITY"),
   high      |-> [School(None, "High", Span(0, 1), None, None, "HIGH_SCHOOL")
                    EXCEPT !.department = "Arts"],
   office    |-> Career("GOVERNMENT", <<{"Ministry"}>>, Span(0, 3), "MONTH", "MONTH", FALSE),
   official  |-> Career("GOVERNMENT", <<{"Ministry"}>>, Span(1, 6), "MONTH", "YEAR", FALSE),
   company   |-> Career("BUSINESS", <<{"Corp Unit"}, {"Corp", "Unit"}>>, Span(4, 11), "MONTH",
                        None, TRUE),
   former    |-> Career("BUSINESS", <<{"Corp"}>>, Span(1, 2), None, None, FALSE),
   owner     |-> Career("BUSINESS", <<{"Corp"}>>, Span(1, 4), "DAY", "DAY", FALSE),
   agency    |-> Career("PUBLIC", <<{"Institute"}>>, Span(4, 5), "MONTH", "MONTH", FALSE),
   twins     |-> Career("BUSINESS", <<{"Twin"}>>, Span(4, 5), "DAY", "DAY", FALSE),
   lecturer  |-> Career("ACADEMIA", <<{"Univ"}>>, Span(8, 11), "MONTH", None, TRUE),
   panel     |-> Career("GOVERNMENT_COMMITTEE", <<{"Ministry"}>>, Span(8, 9), "DAY", "DAY", FALSE),
   campaign  |-> [Career("CAMPAIGN", <<>>, Span(6, 7), "MONTH", "MONTH", FALSE)
                    EXCEPT !.name = "E20"],
   canvass   |-> Career("CAMPAIGN", <<>>, Span(6, 7), None, None, FALSE),
   partyLine |-> Career("PARTY", <<>>, Span(6, 7), None, None, FALSE)]

MCOrgName == [budget |-> "Budget", budget2 |-> "Budget", institute |-> None, agency |-> None]
MCInstitutionName == [budget |-> None, budget2 |-> None, institute |-> "Institute", agency |-> None]
MCListOrg == [K1 |-> "budget"]
MCTargets == {[org |-> "institute", name |-> "Budget"], [org |-> "agency", name |-> "Budget"]}

Row(table, code, name, kind) ==
  [table |-> table, code |-> code, name |-> name, kind |-> kind, short |-> FALSE]
MCOfficialRows ==
  {Row("OPENDART", "corp1", "Corp", "COMPANY"), Row("OPENDART", "corp2", "Twin", "COMPANY"),
   Row("OPENDART", "corp3", "Twin", "COMPANY"), Row("MOIS", "m1", "Ministry", "GOVERNMENT_BODY"),
   Row("MOIS", "m2", "Institute", "PUBLIC_INSTITUTION"), Row("MOIS", "m3", "Univ", "UNIVERSITY"),
   Row("MOIS", "m4", "Corp", None), Row("MOIS_UNIT", "m5", "Ministry", "GOVERNMENT_BODY"),
   [Row("MOIS_UNIT", "m6", "Unit", "GOVERNMENT_BODY") EXCEPT !.short = TRUE]}

Request(kind, who, candidates, max, extra) ==
  [kind |-> kind, who |-> who, candidates |-> candidates, max |-> max, extra |-> extra]
PersonOf(p, candidates) == Request("PERSON", <<p>>, candidates, 0, {})
Compare(p, q) == Request("COMPARE", <<p, q>>, FALSE, 8, {})
Path(p, q, max, extra) == Request("PATH", <<p, q>>, FALSE, max, extra)

Installed(claims, orgs) ==
  [claims |-> claims, active |-> MCPeople, linked |-> {}, orgs |-> orgs, lists |-> {"K1"},
   targets |-> {}, classified |-> {}]

Of3(t1, t2, t3) == (t1 \X {1}) \cup (t2 \X {2}) \cup (t3 \X {3})

(* A committee, its witnesses, and bills, beside one or two commits.       *)
Overseen(claims, requests, edits) ==
  [db |-> [Installed(claims, {"budget", "institute"})
             EXCEPT !.linked = {2} \cap {c[2] : c \in {x \in claims : x[1] = "anchor"}},
                    !.targets = {t \in MCTargets : t.org = "institute"}],
   requests |-> requests, edits |-> edits, drafts |-> {<<"oldSeat", 3>>, <<"alio", 3>>, <<"bill1", 3>>}]
Oversight(requests, edits) ==
  Overseen(Of3({"seat", "bill1", "bill2"}, {"seat", "alio", "bill1", "anchor"},
               {"witness", "bill2"}), requests, edits)
Committee == Of3({"seat"}, {"seat", "alio", "anchor"}, {"witness"})
Bills == Of3({"bill1", "bill2"}, {"bill1"}, {"bill2"})

(* Stated periods: which texts the three people have varies.               *)
Dated == {"early", "late", "long", "term", "lateTerm", "dart", "alio", "oldAlio", "party"}
Named == {"office", "official", "company", "former", "owner", "agency", "lecturer", "twins",
          "panel", "campaign", "canvass", "partyLine", "high"}
Periods(pool, candidates) ==
  {[db |-> Installed(Of3({a, b}, {c}, {}), {"institute", "budget"}),
    requests |-> {r}, edits |-> 0, drafts |-> {}] :
      a, b, c \in pool, r \in {PersonOf(1, candidates), Compare(2, 1)}}

(* Chains of one to three people and the audited institution.              *)
Chains ==
  {[db |-> [Installed(Of3(a, {"dart", "oldAlio"}, c), {"budget", "institute", "agency"})
              EXCEPT !.targets = t],
    requests |-> {Path(1, 3, n, e)}, edits |-> 0, drafts |-> {}] :
      a \in {{"seat"}, {"company"}, {"party"}},
      c \in {{"witness"}, {"alio"}, {"adviser"}, {"dart", "party"}},
      t \in {{}, MCTargets}, n \in 1 .. 8, e \in {{}, {"PARTY"}}}

MCStarts == {Overseen(cs, {PersonOf(1, FALSE)}, 2) : cs \in {Committee, Bills}}
            \cup {Overseen(Committee, {Path(2, 3, 4, {})}, 2),
                  Oversight({Compare(1, 3), Path(3, 1, 2, {})}, 1)}
            \cup Periods(Dated, FALSE) \cup Periods(Named, TRUE) \cup Chains
=============================================================================
