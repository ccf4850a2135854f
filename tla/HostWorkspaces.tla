--------------------------- MODULE HostWorkspaces ---------------------------
(***************************************************************************)
(* n0te2/workspace.py, shadow.py, capability_evidence.py and                *)
(* host_observation.py: what a profile knows of its projects in host         *)
(* programs.                                                               *)
(*                                                                         *)
(* The tables only grow, so the place of a row in its table is its id.  A    *)
(* session asks a host about a project: begin() binds it to the project's    *)
(* current observation, the host answers in its own time, and observe()      *)
(* records the answers, one transaction each.  The shadow is read for one    *)
(* field of one object; a batch says something of it, or only of others.     *)
(***************************************************************************)
EXTENDS Naturals, Sequences, FiniteSets

CONSTANTS
  Workspace, Song, Location,
  Runtime, FamilyOf,     \* runtimes of host programs, and the family of each
  Route, RouteKind,      \* routes to the one capability asked about
  Scalar, Map,           \* JSON values a host reports
  Session, MaxTime, Removed, None

Value == Scalar \cup Map
Time  == 1..MaxTime

\* What is kept of a project: the song it is for, the family of host programs it is
\* opened with, and the project it is a copy of.
Project == [song : Song, family : {FamilyOf[rt] : rt \in Runtime}, source : Workspace \cup {None}]

ASSUME HostAssumption ==
  /\ None \notin Workspace \cup Value \cup Project /\ Removed \notin Value
  /\ \A a \in Scalar : a \notin [keyed : {"number", "text"}, keys : SUBSET (0..99)]
  /\ \A m \in Map : m.keyed \in {"number", "text"} /\ m.keys \subseteq 0..99
  /\ MaxTime \in Nat

VARIABLES
  spaces,   \* table workspaces
  seen,     \* table workspace_observations
  batches,  \* table host_shadow_batches, and what a batch says of the field,
            \* None if it is about others
  facts,    \* table capability_observations
  session   \* the observation a session is bound to, 0 if none

hostVars == <<spaces, seen, batches, facts, session>>

-----------------------------------------------------------------------------
(* JSON *)

\* Where the decimal text of n (of one or two digits) stands among such texts.
TextRank == [n \in 0..99 |-> IF n < 10 THEN 11 * n ELSE 11 * (n \div 10) + (n % 10) + 1]
Number   == [n \in 0..99 |-> n]

Sorted(keys, rank) ==
  CHOOSE s \in [1..Cardinality(keys) -> keys] :
    \A i, j \in DOMAIN s : i < j => rank[s[i]] < rank[s[j]]

\* _canonical_json, json.dumps(.., sort_keys=True): keys are sorted as what they
\* are, and written as texts.
Dump(v) ==
  IF v \in Scalar THEN v
  ELSE IF v.keyed = "number" THEN Sorted(v.keys, Number) ELSE Sorted(v.keys, TextRank)

\* json.loads: every key comes back as a text.
Load(text) ==
  IF text \in Scalar THEN text
  ELSE [keyed |-> "text", keys |-> {text[i] : i \in DOMAIN text}]

Canonical(text) == Dump(Load(text))
Texts == {Dump(v) : v \in Value}

-----------------------------------------------------------------------------
(* Reading the tables *)

Greatest(S) == CHOOSE i \in S : \A j \in S : j <= i
Least(S)    == CHOOSE i \in S : \A j \in S : i <= j

Known      == {w \in Workspace : spaces[w] # None}
HistoryOf(w) == {i \in DOMAIN seen : seen[i].ws = w}
Current(w) == Greatest(HistoryOf(w))

\* current_candidates_at_location.
CandidatesAt(loc) == {w \in Known : seen[Current(w)].loc = loc}

\* A bug: what was reported from the same place counts again.
BatchesThere(w) ==
  {i \in DOMAIN batches : batches[i].ws = w /\ seen[batches[i].obs].loc = seen[Current(w)].loc}

\* HostShadow.state: the batches of the current observation, from its last FULL.
\* A batch bound to an observation has the runtime of that observation.
BatchesOf(w) == {i \in DOMAIN batches : batches[i].ws = w /\ batches[i].obs = Current(w)}
FullsOf(w)   == {i \in BatchesOf(w) : batches[i].coverage = "FULL"}

ShadowIsCurrent(w) == FullsOf(w) # {}
Baseline(w)        == Greatest(FullsOf(w))
LatestBatch(w)     == Greatest(BatchesOf(w))

\* The projection, for the field: the last word on it since the baseline.
LastWord(said) ==
  IF said = {} \/ batches[Greatest(said)].says = Removed THEN None
  ELSE [value |-> Load(batches[Greatest(said)].says), batch |-> Greatest(said)]

HostFact(w) == LastWord({i \in BatchesOf(w) : i >= Baseline(w) /\ batches[i].says # None})

FactsOf(o) == {i \in DOMAIN facts : facts[i].obs = o}

-----------------------------------------------------------------------------
(* WorkspaceMemory *)

\* What an observation says of its workspace: that it is new, a copy of another
\* (DUPLICATED or FORKED) or one already known (SAME_OR_MOVED or RECOVERED).
FirstKind(source) == IF source = None THEN "CREATED" ELSE "DERIVED"

Appear(w, kind, rt, loc) ==
  seen' = Append(seen, [ws |-> w, kind |-> kind, rt |-> rt, loc |-> loc])

\* create and derive: a workspace of its own at a location nobody is at.
NewWorkspace(w, song, source, rt, loc) ==
  /\ spaces[w] = None
  /\ CandidatesAt(loc) = {}
  /\ spaces' = [spaces EXCEPT ![w] = [song |-> song, family |-> FamilyOf[rt],
                                      source |-> source]]
  /\ Appear(w, FirstKind(source), rt, loc)
  /\ UNCHANGED <<batches, facts, session>>

Create(w, song, rt, loc) == NewWorkspace(w, song, None, rt, loc)

Derive(w, source, rt, loc) ==
  /\ source \in Known
  /\ NewWorkspace(w, spaces[source].song, source, rt, loc)

\* A bug: nobody asks who is at the location already.
MoveAnywhere(w, rt, loc) ==
  /\ w \in Known
  /\ FamilyOf[rt] = spaces[w].family
  /\ Appear(w, "EXISTING", rt, loc)
  /\ UNCHANGED <<spaces, batches, facts, session>>

ReconcileExisting(w, rt, loc) ==
  /\ w \in Known
  /\ FamilyOf[rt] = spaces[w].family
  /\ CandidatesAt(loc) \subseteq {w}
  /\ Appear(w, "EXISTING", rt, loc)
  /\ UNCHANGED <<spaces, batches, facts, session>>

-----------------------------------------------------------------------------
(* HostObservationCoordinator *)

\* The caller's runtime must be the one last observed, so the observation is all
\* there is to a binding.
BeginSession(s, w) ==
  /\ session[s] = 0
  /\ w \in Known
  /\ session' = [session EXCEPT ![s] = Current(w)]
  /\ UNCHANGED <<spaces, seen, batches, facts>>

\* The triggers of capability_observations: a late probe does not follow a newer one,
\* and a route is of one kind.
FollowsHistory(o, fact) ==
  \A i \in FactsOf(o) :
    facts[i].route = fact.route => facts[i].at <= fact.at /\ facts[i].kind = fact.kind

\* _preflight_capabilities, and again CapabilityEvidenceMemory.record: nor is evidence
\* of the future.
CapabilityAccepted(o, fact, now) == fact.at <= now /\ FollowsHistory(o, fact)

\* _preflight_shadow, record_batch and its triggers.
ShadowAccepted(o, coverage) == coverage = "FULL" \/ ShadowIsCurrent(seen[o].ws)

Facts(o)    == [obs : {o}, route : Route, kind : RouteKind, at : Time]
Readings(o) == [ws : {seen[o].ws}, obs : {o}, coverage : {"FULL", "INCREMENTAL"},
                says : Texts \cup {None, Removed}]

\* observe: what it was handed is checked first, then recorded row by row; when
\* recording fails, the rows before stay.  An answer for one route stands for any
\* number: each is a row of its own, and checked against the same history.
Observe(s) ==
  LET o == session[s] IN
  /\ o # 0 /\ Current(seen[o].ws) = o
  /\ \E now \in Time,
        found \in {<<>>} \cup {<<f>> : f \in Facts(o)},
        read  \in {<<>>} \cup {<<b>> : b \in Readings(o)} :
       /\ \A i \in FactsOf(o) : facts[i].at <= now
       /\ \A i \in DOMAIN found : CapabilityAccepted(o, found[i], now)
       /\ \A i \in DOMAIN read : ShadowAccepted(o, read[i].coverage)
       /\ facts' = facts \o found
       /\ batches' = batches \o read \/ UNCHANGED batches
  /\ session' = [session EXCEPT ![s] = 0]
  /\ UNCHANGED <<spaces, seen>>

\* The caller gives up: its binding is refused as stale, its input is refused, or
\* it never comes back.
Abandon(s) ==
  /\ session[s] # 0
  /\ session' = [session EXCEPT ![s] = 0]
  /\ UNCHANGED <<spaces, seen, batches, facts>>

-----------------------------------------------------------------------------

CapabilitiesInit == facts = <<>>

HostInit ==
  /\ spaces  = [w \in Workspace |-> None]
  /\ seen    = <<>>
  /\ batches = <<>>
  /\ CapabilitiesInit
  /\ session = [s \in Session |-> 0]

HostNext ==
  \/ \E w \in Workspace, rt \in Runtime, loc \in Location :
       \/ \E song \in Song : Create(w, song, rt, loc)
       \/ \E source \in Workspace : Derive(w, source, rt, loc)
       \/ ReconcileExisting(w, rt, loc)
  \/ \E s \in Session :
       Observe(s) \/ Abandon(s) \/ \E w \in Workspace : BeginSession(s, w)

HostTypeOK ==
  /\ spaces \in [Workspace -> {None} \cup Project]
  /\ seen \in Seq([ws : Workspace, kind : {"CREATED", "DERIVED", "EXISTING"},
                   rt : Runtime, loc : Location])
  /\ batches \in Seq([ws : Workspace, obs : DOMAIN seen, coverage : {"FULL", "INCREMENTAL"},
                      says : Texts \cup {None, Removed}])
  /\ facts \in Seq([obs : DOMAIN seen, route : Route, kind : RouteKind, at : Time])
  /\ session \in [Session -> {0} \cup DOMAIN seen]

-----------------------------------------------------------------------------
(* The validators that run when the profile is opened *)

WorkspacesReadable ==
  /\ \A v, w \in Known : v # w => seen[Current(v)].loc # seen[Current(w)].loc
  /\ \A w \in Known :
       LET history == HistoryOf(w)  own == spaces[w] IN
       /\ own.source # None => own.source # w /\ own.source \in Known
                               /\ spaces[own.source].song = own.song
       /\ history # {} /\ seen[Least(history)].kind = FirstKind(own.source)
       /\ \A i \in history : FamilyOf[seen[i].rt] = own.family
       /\ \A i \in history \ {Least(history)} : seen[i].kind = "EXISTING"

ShadowReadable ==
  \A i \in DOMAIN batches :
    LET b == batches[i] IN
    /\ seen[b.obs].ws = b.ws
    /\ b.coverage = "FULL" \/ \E j \in 1..(i - 1) :
         batches[j].ws = b.ws /\ batches[j].obs = b.obs /\ batches[j].coverage = "FULL"
    /\ b.says \in {None, Removed} \/ Canonical(b.says) = b.says

FactsReadable ==
  \A i, j \in DOMAIN facts :
    i < j /\ facts[i].obs = facts[j].obs /\ facts[i].route = facts[j].route =>
      facts[i].at <= facts[j].at /\ facts[i].kind = facts[j].kind
=============================================================================
