------------------------------ MODULE MCMemories ------------------------------
EXTENDS HeadquartersMemory, TLC

Policies == {"CURRENT", "CURRENT_APPROVED"}
Keys     == {"songwriting", "other"}
Two      == 2
Shares   == {1, 2}

Symmetry == Permutations(Song) \cup Permutations(Person)

\* The rows an instance has room for; those it does not name are not there, but
\* for the chronology, which has a bound of its own.
Room(rows, limit, length) ==
  /\ \A table \in DOMAIN rows \ {"events"} :
       rows[table] <= IF table \in DOMAIN limit THEN limit[table] ELSE 0
  /\ rows.events <= length

\* What an instance starts from is there before the rest, in one order.
First(rows, some, rest) ==
  (\E table \in rest : rows[table] > 0) => \A table \in DOMAIN some : rows[table] >= some[table]

PeopleOnly(rows) ==
  /\ Room(rows, [songs |-> 1, people |-> 2, followups |-> 1, reviews |-> 3, accounts |-> 1], 14)
  /\ First(rows, [people |-> 2], {"songs", "accounts", "followups"})
  /\ First(rows, [accounts |-> 1], {"songs"})
  /\ rows.songs = 0 \/ rows.reviews = 0

CollaborationOnly(rows) ==
  /\ Room(rows, [songs |-> 1, versions |-> 2, assets |-> 1, people |-> 1,
                 packages |-> 2, feedback |-> 2], 13)
  /\ First(rows, [songs |-> 1, assets |-> 1, people |-> 1], {"versions"})
  /\ First(rows, [songs |-> 1, assets |-> 1], {"people"})

ProfessionalOnly(rows) ==
  Room(rows, [songs |-> 1, versions |-> 2, moves |-> 5, handoffs |-> 2], 10)

CreditsOnly(rows) ==
  /\ Room(rows, [songs |-> 1, people |-> 2, sheets |-> 1, forms |-> 2, saves |-> 2], 8)
  /\ First(rows, [songs |-> 1], {"people"})
  /\ First(rows, [people |-> 1], {"sheets", "forms"})

RightsOnly(rows) ==
  /\ Room(rows, [songs |-> 1, people |-> 1, credits |-> 1, sheets |-> 1, forms |-> 1, claims |-> 2,
                 saves |-> 1], 8)
  /\ First(rows, [songs |-> 1], {"people"})
  /\ First(rows, [people |-> 1], {"credits", "sheets", "claims", "forms"})
  /\ rows.credits = 0 \/ rows.sheets = 0
  /\ rows.sheets = 0 \/ rows.claims <= 1

ObligationsOnly(rows) ==
  /\ Room(rows, [songs |-> 1, claims |-> 2, followups |-> 1, people |-> 1, obligations |-> 1,
                 statuses |-> 3], 8)
  /\ First(rows, [people |-> 1], {"songs", "claims", "followups"})
  /\ First(rows, [claims |-> 1], {"songs", "followups"})

NotesOnly(rows) ==
  /\ Room(rows, [songs |-> 1, versions |-> 1, moves |-> 1, assets |-> 1, sessions |-> 1,
                 items |-> 2, derivations |-> 1], 10)
  /\ First(rows, [songs |-> 1, sessions |-> 1], {"items", "derivations"})
  /\ rows.items = 0 \/ rows.derivations = 0

SuggestionsOnly(rows) ==
  Room(rows, [songs |-> 2, sessions |-> 1, deferrals |-> 3, opinions |-> 1, prompts |-> 1], 10)

TransactionsOnly(rows) ==
  /\ Room(rows, [songs |-> 2, versions |-> 2, moves |-> 3, operations |-> 1, runs |-> 2, bindings |-> 2], 9)
  /\ First(rows, [songs |-> 1], {"operations"})
  /\ First(rows, [operations |-> 1], {"bindings"})
  /\ rows.songs = 2 => rows.versions <= 1 /\ rows.moves <= 1

LearningOnly(rows) ==
  /\ Room(rows, [songs |-> 1, sessions |-> 1, claims |-> 1, episodes |-> 1, bound |-> 1,
                 assessments |-> 2], 9)
  /\ First(rows, [songs |-> 1, sessions |-> 1], {"claims", "assessments", "episodes"})
  /\ rows.episodes = 0 \/ rows.assessments + rows.claims = 0

FactsOnly(rows) ==
  /\ Room(rows, [songs |-> 1, versions |-> 1, moves |-> 1, claims |-> 2, imports |-> 1, views |-> 1], 6)
  /\ First(rows, [songs |-> 1], {"claims", "views", "imports"})

ViewsOnly(rows) ==
  /\ Room(rows, [songs |-> 2, sessions |-> 2, episodes |-> 2, frictions |-> 2, captures |-> 1,
                 views |-> 1], 9)
  /\ First(rows, [songs |-> 1, sessions |-> 1, episodes |-> 1], {"frictions", "captures"})
  /\ First(rows, [episodes |-> 2], {"views"})
  /\ rows.songs = 1 \/ rows.sessions <= 1

TemplatesOnly(rows) ==
  Room(rows, [songs |-> 2, templates |-> 2, choices |-> 2, starts |-> 2], 5)

CareerOnly(rows) == Room(rows, [seasons |-> 3, reviewed |-> 2], 3)

FansOnly(rows) ==
  /\ Room(rows, [songs |-> 2, people |-> 1, claims |-> 5, plans |-> 1], 11)
  /\ First(rows, [songs |-> 1, people |-> 1], {"claims"})
  /\ rows.songs <= 1 \/ rows.claims <= 3

ReferencesOnly(rows) ==
  /\ Room(rows, [songs |-> 1, versions |-> 1, moves |-> 1, claims |-> 4], 8)
  /\ First(rows, [songs |-> 1], {"claims"})
  /\ rows.versions = 0 \/ rows.claims <= 2

\* What is used with what, and how far.
Bounded(inUse, rows) ==
  CASE "collaboration" \in inUse -> CollaborationOnly(rows)
    [] "handoffs" \in inUse -> ProfessionalOnly(rows)
    [] "rights" \in inUse -> RightsOnly(rows)
    [] "credits" \in inUse -> CreditsOnly(rows)
    [] "obligations" \in inUse -> ObligationsOnly(rows)
    [] "notes" \in inUse -> NotesOnly(rows)
    [] "suggestions" \in inUse -> SuggestionsOnly(rows)
    [] "transactions" \in inUse -> TransactionsOnly(rows)
    [] "facts" \in inUse -> FactsOnly(rows)
    [] "views" \in inUse -> ViewsOnly(rows)
    [] "learning" \in inUse -> LearningOnly(rows)
    [] "templates" \in inUse -> TemplatesOnly(rows)
    [] "career" \in inUse -> CareerOnly(rows)
    [] "fans" \in inUse -> FansOnly(rows)
    [] "references" \in inUse -> ReferencesOnly(rows)
    [] OTHER                    -> PeopleOnly(rows)

Uses ==
  {{"lineage", "people"}, {"lineage", "people", "collaboration"}, {"lineage", "handoffs"},
   {"lineage", "people", "credits"}, {"lineage", "people", "claims", "credits", "rights"},
   {"lineage", "people", "claims", "obligations"}, {"lineage", "sessions", "suggestions"},
   {"lineage", "transactions"}, {"lineage", "sessions", "claims", "learning"},
   {"lineage", "facts", "views"}, {"lineage", "sessions", "learning", "friction", "views"},
   {"lineage", "templates"}, {"career"}, {"lineage", "people", "fans"},
   {"lineage", "references"}, {"lineage", "sessions", "notes"}}

\* The whole, the bodies of the facts left out, and what is asked for at times.
Sections ==
  {{"DURABLE_FACTS", "IMPORTED_CONTEXT", "SESSIONS", "LEARNING", "FRICTION", "SKILLS"},
   {"LEARNING", "FRICTION"}, {"IMPORTED_CONTEXT"}}

One == 1
=============================================================================
