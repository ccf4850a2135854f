--------------------------- MODULE EvidenceClaims ---------------------------
(***************************************************************************)
(* n0te2/evidence.py as the memories over it use it: claims about the artist,  *)
(* a Song or a Version, that are superseded and never changed.  And            *)
(* n0te2/song_references.py, which keeps all it has in claims: the works an     *)
(* artist holds a Song against.  A reference is a claim about the Song; a       *)
(* revision supersedes the claim; a note or a decision names the revision it   *)
(* was made on.                                                              *)
(***************************************************************************)
EXTENDS ArtistPeople

VARIABLES claims  \* tables evidence_claims and evidence_supersessions

Scopes == {<<"ARTIST", None>>} \cup {<<"SONG", s>> : s \in Known}
            \cup {<<"VERSION", v>> : v \in DOMAIN versions}

Superseded == UNION {claims[c].replaces : c \in DOMAIN claims}

\* active_claims: not superseded, of one scope and key.
ActiveClaims(scope, key) ==
  {c \in DOMAIN claims \ Superseded : claims[c].scope = scope /\ claims[c].key = key}

IsCurrentClaim(c) == c \in DOMAIN claims \ Superseded

\* A claim the artist declares, or one that names what it was taken from.
IsBacked(c) == claims[c].source = "USER_DECLARED" \/ claims[c].ref

\* What the triggers write of a claim, and of each claim it replaces.
ClaimEvents(scope, replaces) ==
  LET song == CASE scope[1] = "SONG" -> scope[2]
                [] scope[1] = "VERSION" -> versions[scope[2]].song
                [] OTHER -> None
      version == IF scope[1] = "VERSION" THEN scope[2] ELSE None
  IN <<Event("EVIDENCE_CLAIM_RECORDED", song, version)>>
       \o [i \in 1..Cardinality(replaces) |-> Event("EVIDENCE_SUPERSESSION_LINKED", song, version)]

\* record_claim: it may replace active claims of the same scope and key only; ref
\* tells whether it names its source.
Claim(scope, key, source, ref, value, replaces) ==
  /\ scope \in Scopes
  /\ replaces \subseteq ActiveClaims(scope, key)
  /\ claims' = Append(claims, [scope |-> scope, key |-> key, source |-> source, ref |-> ref,
                               value |-> value, replaces |-> replaces])
  /\ Log(ClaimEvents(scope, replaces))

RecordClaim(scope, key, source, ref, value, replaces) ==
  /\ Claim(scope, key, source, ref, value, replaces)
  /\ UNCHANGED <<recordVars, peopleVars>>

ClaimsInit == claims = <<>>

\* _validate_existing.
ClaimsReadable ==
  \A c \in DOMAIN claims :
    /\ claims[c].scope \in Scopes
    /\ \A d \in claims[c].replaces :
         d < c /\ claims[d].scope = claims[c].scope /\ claims[d].key = claims[c].key

-----------------------------------------------------------------------------
(* SongReferenceStore *)

OfSong(s) == <<"SONG", s>>

IsReferenceKey(key) == key[1] = "reference"

\* Every claim that ever described a reference, superseded or not.
Revisions(s, key) == {c \in DOMAIN claims : claims[c].scope = OfSong(s) /\ claims[c].key = key}

\* _version: a reference to a Version is to one of the Song.
MayName(s, version) == version = None \/ (version \in DOMAIN versions /\ versions[version].song = s)

\* _source: what was observed or verified names where.
HasProvenance(source, ref) == source \in {"OBSERVED", "PROVIDER_VERIFIED"} => ref

Describes(s, version, source, ref) ==
  s \in Known /\ MayName(s, version) /\ HasProvenance(source, ref)

\* _decode_reference: what a claim on the key says is what create could have said.
ReferenceReads(s, c) ==
  /\ IsReferenceKey(claims[c].key) /\ HasProvenance(claims[c].source, claims[c].ref)
  /\ MayName(s, claims[c].value.version)

\* get_reference: exactly one revision in force, and one that reads.
Reference(s, key) ==
  LET held == ActiveClaims(OfSong(s), key) IN
  IF \E c \in held : held = {c} /\ ReferenceReads(s, c) THEN CHOOSE c \in held : TRUE ELSE None

\* references_for_song: one conflict hides them all.
ReferencesOf(s) ==
  LET held == {c \in DOMAIN claims \ Superseded :
                 claims[c].scope = OfSong(s) /\ IsReferenceKey(claims[c].key)} IN
  IF \E c \in held : Reference(s, claims[c].key) = None THEN None ELSE held

CreateReference(s, version, source, ref) ==
  /\ Describes(s, version, source, ref)
  /\ RecordClaim(OfSong(s), <<"reference", Len(claims) + 1>>, source, ref, [version |-> version], {})

ReviseReference(s, key, version, source, ref) ==
  /\ Reference(s, key) # None /\ Describes(s, version, source, ref)
  /\ RecordClaim(OfSong(s), key, source, ref, [version |-> version], {Reference(s, key)})

\* record_note and record_decision: each under a key of its own.
JudgmentKey(key, kind) == <<"judgment", key, kind, Len(claims) + 1>>

\* A bug: a judgment is filed under the reference as it was first described.
JudgeFirst(s, key, kind) ==
  /\ Reference(s, key) # None
  /\ RecordClaim(OfSong(s), JudgmentKey(key, kind), "USER_DECLARED", FALSE, [revision |-> key[2]], {})

Judge(s, key, kind) ==
  /\ Reference(s, key) # None
  /\ RecordClaim(OfSong(s), JudgmentKey(key, kind), "USER_DECLARED", FALSE,
                 [revision |-> Reference(s, key)], {})

\* notes_for_reference and decisions_for_reference: none while the reference itself
\* cannot be read.
Judgments(s, key, kind) ==
  IF Reference(s, key) = None THEN None
  ELSE {c \in DOMAIN claims \ Superseded : /\ claims[c].scope = OfSong(s)
                                           /\ claims[c].key[1] = "judgment"
                                           /\ claims[c].key[2] = key /\ claims[c].key[3] = kind}

\* _decode_note and _decode_decision: the revision it names is one of its reference.
JudgmentReads(s, c) == claims[c].value.revision \in Revisions(s, claims[c].key[2])

\* What a verifier records through EvidenceMemory of the same reference: it replaces
\* the revision in force or stands beside it.
ReferenceObserved(s, key, version, replaces) ==
  /\ Revisions(s, key) # {} /\ Describes(s, version, "OBSERVED", TRUE)
  /\ RecordClaim(OfSong(s), key, "OBSERVED", TRUE, [version |-> version], replaces)
=============================================================================
