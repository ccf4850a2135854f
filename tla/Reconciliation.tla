--------------------------- MODULE Reconciliation ---------------------------
(***************************************************************************)
(* n0te2/reconcile.py over evidence.py, twins.py and HostWorkspaces: what    *)
(* the profile holds to be true of a song, compared with what is in a         *)
(* project, and what the artist decided where they differ.                   *)
(*                                                                         *)
(* One key of evidence is compared with one field of the shadow.  Songs and   *)
(* versions are made before; an action is a call, which is one transaction.  *)
(***************************************************************************)
EXTENDS HostWorkspaces, Functions

CONSTANTS
  Version, SongOf,  \* versions, and the song of each
  Wider,            \* the scopes beyond songs, the closest first
  Within(_)         \* a bound: the numbers of rows the tables may have

ASSUME ScopeAssumption ==
  /\ SongOf \in [Version -> Song] /\ None \notin Version
  /\ Wider \in Seq(Range(Wider))
  /\ Song \cap Version = {} /\ Range(Wider) \cap (Song \cup Version) = {}

VARIABLES
  claims,    \* tables evidence_claims and evidence_supersessions
  cases,     \* table reconciliation_cases
  decisions  \* table reconciliation_decisions

vars == <<hostVars, claims, cases, decisions>>

Scope   == Song \cup Version \cup Range(Wider)
Domain  == {"TECHNICAL", "OTHER"}
Answers == {"UPDATE_SONG", "RESTORE_HOST", "LEAVE"}

-----------------------------------------------------------------------------
(* EvidenceMemory and TwinEvidenceService *)

\* active_claims_for_scope: what no later claim supersedes.
Superseded    == UNION {claims[i].over : i \in DOMAIN claims}
Active(scope) == {i \in DOMAIN claims \ Superseded : claims[i].scope = scope}

\* Scopes from the most specific one on.
Scopes(song, version) ==
  (IF version = None THEN <<>> ELSE <<version>>) \o <<song>> \o Wider

FirstOf(scopes, S) ==
  LET hits == {k \in DOMAIN scopes : scopes[k] \in S} IN
  IF hits = {} THEN None ELSE scopes[Least(hits)]

\* TwinEvidenceService.for_song: a domain is looked up on its own.
TechnicalOf(scope) == {i \in Active(scope) : claims[i].domain = "TECHNICAL"}

TechnicalClaims(song, version) ==
  LET scope == FirstOf(Scopes(song, version), {s \in Scope : TechnicalOf(s) # {}}) IN
  IF scope = None THEN {} ELSE TechnicalOf(scope)

RecordClaim(scope, domain, v, over) ==
  /\ over \subseteq Active(scope)
  /\ claims' = Append(claims, [scope |-> scope, domain |-> domain, value |-> Dump(v), over |-> over])
  /\ UNCHANGED <<hostVars, cases, decisions>>

\* resolve_for_song, whatever the domain, and reconcile_for_song: a claim in place
\* of all that apply, if they are of the scope the caller names.
ReconcileClaims(song, version, domain, v) ==
  LET applies == FirstOf(Scopes(song, version), {s \in Scope : Active(s) # {}})
      named   == IF version = None THEN song ELSE version IN
  /\ version # None => SongOf[version] = song
  /\ applies = named
  /\ RecordClaim(named, domain, v, Active(named))

-----------------------------------------------------------------------------
(* ReconciliationService *)

Comparable(song, w, version) ==
  /\ w \in Known /\ spaces[w].song = song
  /\ version # None => SongOf[version] = song
  /\ ShadowIsCurrent(w)

\* What the profile holds to be true, beside the fact of the host.
StatusOf(values, fact) ==
  IF Cardinality(values) > 1 THEN "UNRESOLVED"
  ELSE IF values = {} THEN (IF fact = None THEN "MATCH" ELSE "HOST_ONLY")
  ELSE IF fact = None THEN "SONG_ONLY"
  ELSE IF values = {Dump(fact.value)} THEN "MATCH" ELSE "CONFLICT"

\* compare and _comparison_inputs.
Compare(song, w, version) ==
  LET ids    == TechnicalClaims(song, version)
      values == {Canonical(claims[i].value) : i \in ids}
      fact   == HostFact(w)
  IN [ids |-> ids, values |-> values, fact |-> fact,
      baseline |-> Baseline(w), latest |-> LatestBatch(w),
      status |-> StatusOf(values, fact)]

OpenCase(w, version) ==
  LET song == spaces[w].song  found == Compare(song, w, version) IN
  /\ w \in Known /\ Comparable(song, w, version)
  /\ found.status # "MATCH"
  /\ cases' = Append(cases, [song |-> song, ws |-> w, version |-> version, found |-> found])
  /\ UNCHANGED <<hostVars, claims, decisions>>

\* What the host has reported since a case was opened.
OvertakenByHost(c) ==
  \/ ~ShadowIsCurrent(c.ws)
  \/ Baseline(c.ws) # c.found.baseline
  \/ LatestBatch(c.ws) # c.found.latest

\* A bug: only the host is looked at again.
StaleByHost(c) == OvertakenByHost(c)

\* state: ids are compared, and nothing else.
Stale(c) == OvertakenByHost(c) \/ TechnicalClaims(c.song, c.version) # c.found.ids

\* record_decision; a case may be decided more than once.
RecordDecision(i, choice) ==
  LET c == cases[i] IN
  /\ i \in DOMAIN cases
  /\ ~Stale(c)
  /\ choice = "UPDATE_SONG" => c.found.fact # None
  /\ choice = "RESTORE_HOST" => Cardinality(c.found.values) = 1
  /\ decisions' = Append(decisions, [case |-> i, choice |-> choice])
  /\ UNCHANGED <<hostVars, claims, cases>>

-----------------------------------------------------------------------------

Init ==
  /\ HostInit
  /\ claims    = <<>>
  /\ cases     = <<>>
  /\ decisions = <<>>

Rows == [seen |-> Len(seen), batches |-> Len(batches), facts |-> Len(facts),
         claims |-> Len(claims), cases |-> Len(cases), decisions |-> Len(decisions)]

Next ==
  /\ \/ HostNext /\ UNCHANGED <<claims, cases, decisions>>
     \/ \E scope \in Scope, domain \in Domain, v \in Value, over \in SUBSET (DOMAIN claims) :
          RecordClaim(scope, domain, v, over)
     \/ \E song \in Song, version \in Version \cup {None}, domain \in Domain, v \in Value :
          ReconcileClaims(song, version, domain, v)
     \/ \E w \in Workspace, version \in Version \cup {None} : OpenCase(w, version)
     \/ \E i \in DOMAIN cases, choice \in Answers : RecordDecision(i, choice)
  /\ Within(Rows')

Spec == Init /\ [][Next]_vars

TypeOK ==
  /\ HostTypeOK
  /\ claims \in Seq([scope : Scope, domain : Domain, value : Texts, over : SUBSET DOMAIN claims])
  /\ decisions \in Seq([case : DOMAIN cases, choice : Answers])
  /\ \A i \in DOMAIN cases :
       /\ cases[i].song \in Song /\ cases[i].ws \in Workspace
       /\ cases[i].version \in Version \cup {None}

-----------------------------------------------------------------------------
(* Properties *)

ClaimsReadable ==
  \A i \in DOMAIN claims : \A j \in claims[i].over : j < i /\ claims[j].scope = claims[i].scope

CaseReadable(c) ==
  /\ c.found.status # "MATCH"
  /\ spaces[c.ws].song = c.song
  /\ c.version # None => SongOf[c.version] = c.song
  /\ \A i \in c.found.ids :
       /\ i \in DOMAIN claims /\ claims[i].domain = "TECHNICAL"
       /\ claims[i].scope \in Song => claims[i].scope = c.song
       /\ claims[i].scope \in Version => SongOf[claims[i].scope] = c.song
  /\ \A b \in {c.found.baseline, c.found.latest} : batches[b].ws = c.ws
  /\ c.found.fact # None => batches[c.found.fact.batch].ws = c.ws

CasesReadable == \A n \in DOMAIN cases : CaseReadable(cases[n])

\* No sequence of calls that were accepted leaves a profile that does not open
\* again: the writers accept only what the five _validate_existing accept.
HistoryReadable ==
  /\ TypeOK /\ WorkspacesReadable
  /\ ShadowReadable
  /\ FactsReadable
  /\ ClaimsReadable
  /\ CasesReadable

\* What the host has overtaken stays overtaken: neither moving a project back to
\* where it was nor a second batch that says the same brings back a case, so
\* nothing decides on an earlier state of the project (state, record_decision).
OvertakenForGood ==
  [][\A i \in DOMAIN cases : OvertakenByHost(cases[i]) => OvertakenByHost(cases[i])']_vars

\* A decision is recorded only while the comparison it answers would come out
\* exactly as it did when the case was opened, in status, values and host fact,
\* although state() compares ids only.
DecidedKnowingly ==
  [][\A n \in DOMAIN decisions' \ DOMAIN decisions :
       LET c == cases[decisions'[n].case] IN
       Comparable(c.song, c.ws, c.version) /\ Compare(c.song, c.ws, c.version) = c.found]_vars

-----------------------------------------------------------------------------
(* The inductive invariant behind them *)

\* A project is known from its first observation on.
KnownInv == \A i \in DOMAIN seen : seen[i].ws \in Known

\* What there can be in a comparison, and in a case.
Held   == {Canonical(text) : text \in Texts}
Fact   == [value : {Load(text) : text \in Texts}, batch : Nat]
Status == {"MATCH", "UNRESOLVED", "HOST_ONLY", "SONG_ONLY", "CONFLICT"}
Found  == [ids : SUBSET Nat, values : SUBSET Held, fact : Fact \cup {None},
           baseline : Nat, latest : Nat, status : Status]
Case   == [song : Song, ws : Workspace, version : Version \cup {None}, found : Found]

\* The last word of the batches from one to another, of one stay at one place.
FactBetween(first, last) ==
  LastWord({i \in first..last : /\ batches[i].ws = batches[first].ws
                                /\ batches[i].obs = batches[first].obs
                                /\ batches[i].says # None})

\* A case was opened on rows that are still there, and says what they say.
CaseTold(c) ==
  LET found == c.found IN
  /\ c.ws \in Known
  /\ found.ids \subseteq DOMAIN claims
  /\ {found.baseline, found.latest} \subseteq DOMAIN batches
  /\ found.fact # None => found.fact.batch \in DOMAIN batches
  /\ found.values = {Canonical(claims[i].value) : i \in found.ids}
  /\ found.fact = FactBetween(found.baseline, found.latest)
  /\ found.status = StatusOf(found.values, found.fact)

CaseInv == \A n \in DOMAIN cases : CaseTold(cases[n])

\* Holds whatever a host reports.
BaseInv ==
  /\ TypeOK /\ cases \in Seq(Case)
  /\ WorkspacesReadable /\ KnownInv
  /\ FactsReadable /\ ClaimsReadable
  /\ CasesReadable /\ CaseInv

\* Holds of hosts that key their maps by texts.
IInv == BaseInv /\ ShadowReadable
=============================================================================
