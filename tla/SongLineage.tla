---------------------------- MODULE SongLineage ----------------------------
(***************************************************************************)
(* n0te2/lineage.py, material.py, version_approval.py,                       *)
(* version_compare_decision.py, provenance.py and activity.py: the Songs of   *)
(* a profile, their Versions and the files these are made of.                 *)
(*                                                                         *)
(* Versions, assets, decisions and derivations are never changed: the place   *)
(* of a row in its table is its id.  A Song has a current and an approved     *)
(* Version, and triggers write every change to the chronology.  A service     *)
(* given a binding, the state an artist was shown, refuses when it moved.     *)
(***************************************************************************)
EXTENDS Naturals, Sequences, FiniteSets

CONSTANTS
  Song,
  Digest,     \* the contents a file can have
  Judgment,   \* what an artist may decide of two Versions
  None

SongRow == [current : Nat \cup {None}, approved : Nat \cup {None}]

ASSUME NoneAssumption == None \notin Song \cup Nat \cup SongRow

VARIABLES
  songs,        \* table songs: current and approved Version; None if there is none
  active,       \* metadata active_song_id
  versions,     \* table versions, with the assets of each
  assets,       \* table assets
  blobs,        \* the files under materials/sha256: "absent", "whole" or "damaged"
  ingest,       \* ingest_stream between its two steps: the Song and the digest
  decisions,    \* table version_compare_decisions
  derivations,  \* table provenance_records
  events        \* table activity_events

recordVars  == <<songs, active, versions, assets, blobs, ingest, decisions, derivations>>
lineageVars == <<recordVars, events>>

Known        == {s \in Song : songs[s] # None}
VersionsOf(s) == {v \in DOMAIN versions : versions[v].song = s}
AssetsOf(s)  == {a \in DOMAIN assets : assets[a].song = s}

Event(type, s, v) == [type |-> type, song |-> s, version |-> v]
Log(es) == events' = events \o es

\* SELECT COALESCE(MAX(ordinal), 0) + 1.
NextOrdinal(s) == Cardinality(VersionsOf(s)) + 1

-----------------------------------------------------------------------------
(* LineageStore *)

CreateSong(s) ==
  /\ songs[s] = None
  /\ songs' = [songs EXCEPT ![s] = [current |-> None, approved |-> None]]
  /\ active' = s
  /\ Log(<<Event("SONG_CREATED", s, None), Event("SONG_SELECTED", s, None)>>)
  /\ UNCHANGED <<versions, assets, blobs, ingest, decisions, derivations>>

SelectSong(s) ==
  /\ s \in Known /\ active # s
  /\ active' = s
  /\ Log(<<Event("SONG_SELECTED", s, songs[s].current)>>)
  /\ UNCHANGED <<songs, versions, assets, blobs, ingest, decisions, derivations>>

AttachAsset(s, d) ==
  /\ s \in Known
  /\ assets' = Append(assets, [song |-> s, digest |-> d, managed |-> FALSE])
  /\ Log(<<Event("ASSET_ATTACHED", s, None)>>)
  /\ UNCHANGED <<songs, active, versions, blobs, ingest, decisions, derivations>>

\* The row of a new Version, made current or not.
NewVersion(s, parent, attached, becomesCurrent) ==
  LET v == Len(versions) + 1 IN
  /\ versions' = Append(versions, [song |-> s, ordinal |-> NextOrdinal(s),
                                   parent |-> parent, assets |-> attached])
  /\ songs' = IF becomesCurrent THEN [songs EXCEPT ![s].current = v] ELSE songs

VersionEvents(s, becomesCurrent) ==
  LET v == Len(versions) + 1 IN
  <<Event("VERSION_CREATED", s, v)>>
    \o (IF becomesCurrent THEN <<Event("CURRENT_VERSION_CHANGED", s, v)>> ELSE <<>>)

CreateVersion(s, parent, attached, becomesCurrent) ==
  /\ s \in Known
  /\ parent \in {None} \cup VersionsOf(s)
  /\ attached \subseteq AssetsOf(s)
  /\ NewVersion(s, parent, attached, becomesCurrent)
  /\ Log(VersionEvents(s, becomesCurrent))
  /\ UNCHANGED <<active, assets, blobs, ingest, decisions, derivations>>

\* A bug: a trigger is missing.
SetCurrentQuietly(s, v) ==
  /\ s \in Known /\ v \in VersionsOf(s) /\ songs[s].current # v
  /\ songs' = [songs EXCEPT ![s].current = v]
  /\ UNCHANGED <<active, versions, assets, blobs, ingest, decisions, derivations, events>>

\* The two writers of a pointer of a Song; a trigger logs what is a change.
SetCurrentVersion(s, v) ==
  /\ s \in Known /\ v \in VersionsOf(s) /\ songs[s].current # v
  /\ songs' = [songs EXCEPT ![s].current = v]
  /\ Log(<<Event("CURRENT_VERSION_CHANGED", s, v)>>)
  /\ UNCHANGED <<active, versions, assets, blobs, ingest, decisions, derivations>>

ApproveVersion(s, v) ==
  /\ s \in Known /\ v \in VersionsOf(s) /\ songs[s].approved # v
  /\ songs' = [songs EXCEPT ![s].approved = v]
  /\ Log(<<Event("VERSION_APPROVED", s, v)>>)
  /\ UNCHANGED <<active, versions, assets, blobs, ingest, decisions, derivations>>

-----------------------------------------------------------------------------
(* Services over it, each one immediate transaction *)

\* VersionApprovalService.approve; b is what binding_for() read when the page was
\* prepared.
ApproveBound(b) ==
  /\ active = b.song
  /\ songs[b.song].current = b.current /\ songs[b.song].approved = b.approved
  /\ ApproveVersion(b.song, b.target)

\* VersionCompareDecisionMemory.record.
RecordDecision(b, judgment) ==
  /\ active = b.song /\ songs[b.song].current = b.current
  /\ b.reference # b.current /\ {b.reference, b.current} \subseteq VersionsOf(b.song)
  /\ decisions' = Append(decisions, [song |-> b.song, reference |-> b.reference,
                                     current |-> b.current, judgment |-> judgment])
  /\ Log(<<Event("VERSION_COMPARE_DECISION_RECORDED", b.song, b.current)>>)
  /\ UNCHANGED <<songs, active, versions, assets, blobs, ingest, derivations>>

Object == {<<"VERSION", v>> : v \in DOMAIN versions} \cup {<<"ASSET", a>> : a \in DOMAIN assets}
External == <<"EXTERNAL", 0>>
SongOfObject(o) == IF o[1] = "VERSION" THEN versions[o[2]].song ELSE assets[o[2]].song

\* ProvenanceLedger.record: what a Version or an asset was made from.
RecordDerivation(output, input) ==
  /\ output \in Object
  /\ \/ input = External
     \/ input \in Object /\ SongOfObject(input) = SongOfObject(output)
  /\ derivations' = Append(derivations,
       [song |-> SongOfObject(output), output |-> output, input |-> input])
  /\ Log(<<Event("PROVENANCE_RECORDED", SongOfObject(output),
                 IF output[1] = "VERSION" THEN output[2] ELSE None)>>)
  /\ UNCHANGED <<songs, active, versions, assets, blobs, ingest, decisions>>

-----------------------------------------------------------------------------
(* SongMaterialMemory: the bytes of a file are on the disk before the Version *)
(* made of them is in the database.                                          *)

\* A bug: the rows are written first.
RowsFirst(s, d) ==
  /\ ingest = None /\ s \in Known
  /\ ingest' = [song |-> s, digest |-> d]
  /\ UNCHANGED <<songs, active, versions, assets, blobs, decisions, derivations, events>>

\* ingest_stream as far as _install_blob: a file of that digest is taken as it is
\* when it is whole, and refused when it is not.
InstallBlob(s, d) ==
  /\ ingest = None /\ s \in Known
  /\ blobs[d] # "damaged"
  /\ blobs' = [blobs EXCEPT ![d] = "whole"]
  /\ ingest' = [song |-> s, digest |-> d]
  /\ UNCHANGED <<songs, active, versions, assets, decisions, derivations, events>>

\* _commit_asset_version: asset, Version and current Version in one transaction.
CommitImport ==
  /\ ingest # None
  /\ LET s == ingest.song IN
     /\ assets' = Append(assets, [song |-> s, digest |-> ingest.digest, managed |-> TRUE])
     /\ NewVersion(s, songs[s].current, {Len(assets) + 1}, TRUE)
     /\ Log(<<Event("ASSET_ATTACHED", s, None)>> \o VersionEvents(s, TRUE))
  /\ ingest' = None
  /\ UNCHANGED <<active, blobs, decisions, derivations>>

\* The database refuses the rows, or the process ends: the file stays.
ImportFails ==
  /\ ingest # None
  /\ ingest' = None
  /\ UNCHANGED <<songs, active, versions, assets, blobs, decisions, derivations, events>>

\* Something else changes a file.
Damage(d) ==
  /\ blobs[d] = "whole"
  /\ blobs' = [blobs EXCEPT ![d] = "damaged"]
  /\ UNCHANGED <<songs, active, versions, assets, ingest, decisions, derivations, events>>

\* view_asset.
AssetStatus(a) ==
  IF ~assets[a].managed THEN "EXTERNAL_REFERENCE"
  ELSE IF blobs[assets[a].digest] = "whole" THEN "VERIFIED_MANAGED" ELSE "INTEGRITY_ERROR"

-----------------------------------------------------------------------------

LineageInit ==
  /\ songs = [s \in Song |-> None] /\ active = None
  /\ versions = <<>> /\ assets = <<>>
  /\ blobs = [d \in Digest |-> "absent"] /\ ingest = None
  /\ decisions = <<>> /\ derivations = <<>>
  /\ events = <<Event("ACTIVITY_TRACKING_ENABLED", None, None)>>

LineageTypeOK ==
  LET VersionId == DOMAIN versions
      Told      == {events[i].type : i \in DOMAIN events} IN
  /\ songs \in [Song -> {None} \cup
       [current : VersionId \cup {None}, approved : VersionId \cup {None}]]
  /\ active \in Song \cup {None}
  /\ versions \in Seq([song : Song, ordinal : Nat \ {0}, parent : VersionId \cup {None},
                       assets : SUBSET DOMAIN assets])
  /\ assets \in Seq([song : Song, digest : Digest, managed : BOOLEAN])
  /\ blobs \in [Digest -> {"absent", "whole", "damaged"}]
  /\ ingest \in {None} \cup [song : Song, digest : Digest]
  /\ decisions \in Seq([song : Song, reference : VersionId, current : VersionId,
                        judgment : Judgment])
  /\ derivations \in Seq([song : Song, output : Object, input : Object \cup {External}])
  /\ events \in Seq([type : Told, song : Song \cup {None}, version : VersionId \cup {None}])

-----------------------------------------------------------------------------
(* What the stores check when the profile is opened *)

LineageReadable == active # None => active \in Known

ActivityReadable ==
  /\ events # <<>>
  /\ \A i \in DOMAIN events :
       /\ events[i].song # None => events[i].song \in Known
       /\ events[i].version # None => events[i].version \in VersionsOf(events[i].song)

DecisionsReadable ==
  \A i \in DOMAIN decisions :
    LET d == decisions[i] IN
    d.song \in Known /\ d.reference # d.current
      /\ {d.reference, d.current} \subseteq VersionsOf(d.song)

ProvenanceReadable ==
  \A i \in DOMAIN derivations :
    LET d == derivations[i] IN
    /\ d.output \in Object /\ SongOfObject(d.output) = d.song
    /\ \/ d.input = External
       \/ d.input \in Object /\ SongOfObject(d.input) = d.song
=============================================================================
