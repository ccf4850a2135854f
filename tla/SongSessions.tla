---------------------------- MODULE SongSessions ----------------------------
(***************************************************************************)
(* n0te2/session.py and songwriting.py: work sessions of a Song, what is      *)
(* noted in them, and the notes the artist promotes to lasting evidence.      *)
(*                                                                         *)
(* promote_item writes its request in one transaction and the claim in a      *)
(* second; a trigger links a claim to the request whose terms it repeats.     *)
(* Songwriting writes both in one, and binds its writes to the page shown.    *)
(***************************************************************************)
EXTENDS SongLineage

CONSTANTS Key  \* the keys a claim can be recorded under

ASSUME KeyAssumption == "songwriting" \in Key

\* No request and no claim of an item is mistaken for one.
ASSUME TermsAssumption == None \notin [scope : {"SONG", "VERSION"}, on : Song \cup Nat \cup {None}, key : Key]

VARIABLES
  sessions,  \* table sessions
  items      \* table session_items, with the request and the claim of each; written
             \* are those whose text carries the envelope of songwriting

sessionVars == <<sessions, items>>

Kind == {"DECISION", "MARK"}

SessionsOf(s)    == {i \in DOMAIN sessions : sessions[i].song = s}
IsOpen(i)        == i \in DOMAIN sessions /\ sessions[i].state = "OPEN"
LatestForSong(s) == IF SessionsOf(s) = {} THEN 0
                    ELSE CHOOSE i \in SessionsOf(s) : \A j \in SessionsOf(s) : j <= i

\* What session_promotion_requests holds of an item, and what the claim repeats.
Terms(i, scope, key) ==
  LET session == sessions[items[i].session] IN
  [scope |-> scope, on |-> IF scope = "SONG" THEN session.song ELSE session.version, key |-> key]

-----------------------------------------------------------------------------
(* SessionMemory *)

\* An index of the table allows one open session of a Song.
StartSession(s, version) ==
  /\ s \in Known
  /\ version \in {None} \cup VersionsOf(s)
  /\ \A i \in SessionsOf(s) : ~IsOpen(i)
  /\ LET bound == IF version = None THEN songs[s].current ELSE version IN
     /\ sessions' = Append(sessions, [song |-> s, version |-> bound, state |-> "OPEN"])
     /\ Log(<<Event("SESSION_STARTED", s, bound)>>)
  /\ UNCHANGED <<recordVars, items>>

AppendScratch(i, kind, written) ==
  /\ IsOpen(i)
  /\ items' = Append(items, [session |-> i, kind |-> kind, written |-> written,
                             request |-> None, claim |-> None])
  /\ Log(<<Event("SESSION_SCRATCH_ADDED", sessions[i].song, sessions[i].version)>>)
  /\ UNCHANGED <<recordVars, sessions>>

CloseSession(i) ==
  /\ IsOpen(i)
  /\ sessions' = [sessions EXCEPT ![i].state = "CLOSED"]
  /\ Log(<<Event("SESSION_CLOSED", sessions[i].song, sessions[i].version)>>)
  /\ UNCHANGED <<recordVars, items>>

\* promote_item, its first transaction; an interruption may follow.
RequestPromotion(i, scope, key) ==
  /\ i \in DOMAIN items /\ items[i].request = None
  /\ Terms(i, scope, key).on # None
  /\ items' = [items EXCEPT ![i].request = Terms(i, scope, key)]
  /\ UNCHANGED <<lineageVars, sessions>>

\* What the triggers write of the claim and of its link.
PromotionEvents(i, terms) ==
  LET session == sessions[items[i].session] IN
  <<Event("EVIDENCE_CLAIM_RECORDED", session.song,
          IF terms.scope = "VERSION" THEN terms.on ELSE None),
    Event("SESSION_ITEM_PROMOTED", session.song, session.version)>>

\* The second, of that call or of a later one on the same terms.
RecordPromotion(i, scope, key) ==
  /\ i \in DOMAIN items /\ items[i].claim = None
  /\ items[i].request = Terms(i, scope, key)
  /\ items' = [items EXCEPT ![i].claim = Terms(i, scope, key)]
  /\ Log(PromotionEvents(i, Terms(i, scope, key)))
  /\ UNCHANGED <<recordVars, sessions>>

-----------------------------------------------------------------------------
(* SongwritingCaseHistory *)

\* capture; capture_bound does after it found the page still true.
Capture(s, i, kind) == IsOpen(i) /\ sessions[i].song = s /\ AppendScratch(i, kind, TRUE)

\* _validate_capture_binding_locked.
CaptureStands(b) ==
  /\ active = b.song /\ songs[b.song].current = b.current
  /\ IsOpen(b.session) /\ LatestForSong(b.song) = b.session
  /\ sessions[b.session].version = b.version

CaptureBound(b, kind) == CaptureStands(b) /\ Capture(b.song, b.session, kind)

\* promote_decision.
PromoteDecision(i, scope) ==
  LET terms == Terms(i, scope, "songwriting") IN
  /\ i \in DOMAIN items /\ items[i].written /\ items[i].kind = "DECISION"
  /\ items[i].claim = None /\ items[i].request \in {None, terms} /\ terms.on # None
  /\ items' = [items EXCEPT ![i].request = terms, ![i].claim = terms]
  /\ Log(PromotionEvents(i, terms))
  /\ UNCHANGED <<recordVars, sessions>>

\* _validate_promotion_binding_locked: what the page showed of the entry b.item.
PromotionStands(b) ==
  /\ active = b.song /\ songs[b.song].current = b.current
  /\ items[b.item].session = b.session /\ items[b.item].claim = None
  /\ sessions[b.session].song = b.song /\ sessions[b.session].version = b.version

PromoteDecisionBound(b, scope) == PromotionStands(b) /\ PromoteDecision(b.item, scope)

-----------------------------------------------------------------------------

SessionsInit == sessions = <<>> /\ items = <<>>

AllTerms == [scope : {"SONG", "VERSION"}, on : Song \cup DOMAIN versions, key : Key]

SessionsTypeOK ==
  /\ sessions \in Seq([song : Song, version : {None} \cup DOMAIN versions,
                       state : {"OPEN", "CLOSED"}])
  /\ items \in Seq([session : DOMAIN sessions, kind : Kind, written : BOOLEAN,
                    request : {None} \cup AllTerms, claim : {None} \cup AllTerms])

\* _validate_existing.
SessionsReadable ==
  /\ \A i \in DOMAIN sessions :
       /\ sessions[i].song \in Known
       /\ sessions[i].version # None => sessions[i].version \in VersionsOf(sessions[i].song)
  /\ \A i \in DOMAIN items :
       LET item == items[i] IN
       /\ item.request # None => item.request = Terms(i, item.request.scope, item.request.key)
       /\ item.claim # None => item.claim = item.request
=============================================================================
