---------------------------- MODULE SongRetention ----------------------------
(***************************************************************************)
(* n0te2/context.py, retention.py and context_lifecycle.py: what was brought in *)
(* from outside, what a profile remembers of a Song, and the bounded views of   *)
(* it that are handed out.                                                   *)
(*                                                                         *)
(* A view keeps a limited number of items of the sections it was asked for,     *)
(* says whether what is held true contradicts itself, and carries a digest of   *)
(* the memory it was made from.  Items are the places of rows in their tables.  *)
(***************************************************************************)
EXTENDS LearningMemory

CONSTANTS Limit  \* the items a view keeps of a section

\* ContextBudget: a number, above zero.
ASSUME LimitAssumption == Limit \in Nat \ {0}

VARIABLES
  imports,  \* table context_imports: the scope of each, in order
  view      \* a view that was handed out, None before

retentionVars == <<imports, view>>

-----------------------------------------------------------------------------
(* ContextIsolationService *)

ImportScopes == {<<"ARTIST", None>>} \cup {<<"SONG", s>> : s \in Known}

ImportContext(scope) ==
  /\ scope \in ImportScopes
  /\ imports' = Append(imports, scope)
  /\ UNCHANGED view

ImportsFor(s) == {i \in DOMAIN imports : imports[i] \in {<<"ARTIST", None>>, <<"SONG", s>>}}

\* _validate_existing.
ImportsReadable == \A i \in DOMAIN imports : imports[i] \in ImportScopes

-----------------------------------------------------------------------------
(* SongRetentionService *)

\* What is held true of the artist, of the Song and of its current Version.
ScopesOf(s) ==
  {<<"ARTIST", None>>, <<"SONG", s>>}
    \cup (IF songs[s].current = None THEN {} ELSE {<<"VERSION", songs[s].current>>})

DurableFacts(s) == {c \in DOMAIN claims \ Superseded : claims[c].scope \in ScopesOf(s)}

SkillsAssessed == {k \in Skill : skills[k] # <<>>}

\* brief_for_song: the items of each section.
Items(section, s) ==
  CASE section = "DURABLE_FACTS"    -> DurableFacts(s)
    [] section = "IMPORTED_CONTEXT" -> ImportsFor(s)
    [] section = "SESSIONS"         -> SessionsOf(s)
    [] section = "LEARNING"         -> {e \in DOMAIN episodes : SongOfEpisode(e) = s}
    [] section = "FRICTION"         -> Observations(s)
    [] section = "SKILLS"           -> SkillsAssessed

RecurringCount(i, s) ==
  IF frictions[i].key \in Recurring(s) THEN Cardinality(SessionsWith(frictions[i].key, s)) ELSE 0

\* What is said of an item: its text and never its id.
Content(section, i, s) ==
  CASE section = "DURABLE_FACTS" ->
         [scope |-> claims[i].scope[1], key |-> claims[i].key,
          value |-> claims[i].value, source |-> claims[i].source]
    [] section = "FRICTION" ->
         <<frictions[i].key, frictions[i].source, RecurringCount(i, s)>>
    [] section = "SESSIONS" -> <<i, sessions[i]>>
    [] section = "LEARNING" -> <<i, episodes[i].observed, IsDecided(i)>>
    [] section = "SKILLS"   -> <<i, skills[i][Latest(i)]>>
    [] OTHER                -> imports[i]

\* Claims are listed by how near they are to the work, rows in their order.
Before(section, i, j) ==
  LET level == [ARTIST |-> 1, SONG |-> 2, VERSION |-> 3] IN
  CASE section = "SKILLS" -> FALSE
    [] section = "DURABLE_FACTS" ->
         \/ level[claims[i].scope[1]] < level[claims[j].scope[1]]
         \/ claims[i].scope = claims[j].scope /\ i < j
    [] OTHER -> i < j

\* How many items of the section are listed before this one.
Place(section, i, s) == Cardinality({j \in Items(section, s) : Before(section, j, i)})

\* context_packet_for_song: the whole of the sections selected, each as a list: what is
\* said of its items and where.
Packet(s, sections) ==
  [section \in sections |->
     {<<Place(section, i, s), Content(section, i, s)>> : i \in Items(section, s)}]

-----------------------------------------------------------------------------
(* ContextProjectionService *)

SourceRank == [PROVIDER_VERIFIED |-> 6, OBSERVED |-> 4, USER_DECLARED |-> 3]

\* _rank_section: what stays before what else; what is left equal stays as it is listed.
Ahead(section, i, j, s) ==
  LET more(f, g) == f > g \/ (f = g /\ Before(section, i, j)) IN
  CASE section = "DURABLE_FACTS" -> more(SourceRank[claims[i].source], SourceRank[claims[j].source])
    [] section = "LEARNING" ->
         IF IsDecided(i) = IsDecided(j) THEN i > j ELSE IsDecided(j)
    [] section = "SESSIONS" -> i > j
    [] section = "FRICTION" -> more(RecurringCount(i, s), RecurringCount(j, s))
    [] OTHER -> Before(section, i, j)

\* _bounded_items: what of a section stays within the limit.
BoundedItems(section, s) ==
  {i \in Items(section, s) :
     Cardinality({j \in Items(section, s) : j # i /\ Ahead(section, j, i, s)}) < Limit}

\* The things that two facts of the packet say differently.
Disputed(facts) ==
  LET differ(x, y) == x.scope = y.scope /\ x.key = y.key /\ x.value # y.value IN
  {<<f[2].scope, f[2].key>> : f \in {g \in facts : \E h \in facts : differ(g[2], h[2])}}

Facts == {"DURABLE_FACTS"}

\* _durable_contradictions: of the facts, whether or not they were asked for.
Contradictions(s, sections) == Disputed(Packet(s, sections \cup Facts)["DURABLE_FACTS"])

\* A bug: the digest is of the sections that were asked for.
DigestOfSelected(s, sections) == <<songs[s], Packet(s, sections)>>

\* The digest is taken before anything is left out, and of the facts too.
SourceDigest(s, sections) == <<songs[s], Packet(s, sections), Packet(s, Facts)>>

\* projection_for_song.
ProjectionForSong(s, sections) ==
  /\ s \in Known
  /\ view' = [song |-> s, sections |-> sections, digest |-> SourceDigest(s, sections),
              contradictions |-> Contradictions(s, sections),
              context |-> [section \in sections |->
                             {Content(section, i, s) : i \in BoundedItems(section, s)}]]
  /\ UNCHANGED imports

RetentionInit == imports = <<>> /\ view = None
=============================================================================
