-------------------------- MODULE ConsumerShellProofs --------------------------
(***************************************************************************)
(* What the window keeps for any Songs, contents of files, modes of focus and  *)
(* judgments, however many pages the browser holds: once it said that it is    *)
(* closed it stays so, no Version is without the bytes it is made of, what is  *)
(* read when the profile is opened again tells what was so when it was left,   *)
(* and a form acts on what its page showed.                                    *)
(***************************************************************************)
EXTENDS ConsumerShell, SequenceTheorems, FiniteSetTheorems, WellFoundedInduction, TLAPS

-----------------------------------------------------------------------------
(* The closed window *)

LEMMA ClosedStart == Init => ClosedInv
BY DEF Init, ClosedInv

\* Whatever thread or request acts, the loop does not serve again after the closed page.
LEMMA ClosedStep ==
  ASSUME ClosedInv, [Next]_vars
  PROVE  ClosedInv'
<1> USE DEF ClosedInv
<1>1. ASSUME NEW f \in forms, Post(f) PROVE ClosedInv'
  BY <1>1 DEF Post, Serving, Answered
<1>2. ASSUME NEW f \in forms, PostProfile(f) PROVE ClosedInv'
  BY <1>2 DEF PostProfile, Serving, Answered
<1>3. ASSUME NEW f \in forms, PostQuit(f) PROVE ClosedInv'
  BY <1>3 DEF PostQuit, Serving, Answered
<1>4. CASE FinishImport
  BY <1>4 DEF FinishImport, shellVars
<1>5. ASSUME NEW page \in Page, Get(page) \/ GetNotRunning(page) PROVE ClosedInv'
  BY <1>5 DEF Get, GetNotRunning, Serving, Answered
<1>6. CASE NoRequest \/ Hold \/ LetGo \/ AskToStop
  BY <1>6 DEF NoRequest, Hold, LetGo, AskToStop, Serving, Answered
<1>7. CASE Check
  BY <1>7 DEF Check
<1>8. CASE Restart
  BY <1>8 DEF Restart
<1>9. CASE Damaged
  BY <1>9 DEF Damaged, shellVars
<1>10. CASE UNCHANGED vars
  BY <1>10 DEF vars, shellVars
<1> QED
  BY <1>1, <1>2, <1>3, <1>4, <1>5, <1>6, <1>7, <1>8, <1>9, <1>10 DEF Next

\* After the page that says N0TE is closed, no request opens the profile again: the
\* stop of consumer_shell.py:1183 is met by _serve before the next request.
THEOREM ClosedForGood == Spec => []StaysClosed
<1>1. ClosedInv => StaysClosed
  BY DEF ClosedInv, StaysClosed
<1> QED
  BY ClosedStart, ClosedStep, <1>1, PTL DEF Spec

-----------------------------------------------------------------------------
(* The bytes of a Version *)

materialVars == <<blobs, assets, ingest>>

LEMMA ImportStart == Init => ImportInv
BY DEF Init, LineageInit, ImportInv, BytesBeforeLineage

Asset == [song : Song, digest : Digest, managed : BOOLEAN]

LEMMA AssetsAreTyped ==
  ASSUME ImportInv
  PROVE  /\ DOMAIN assets = 1..Len(assets)
         /\ \A a \in DOMAIN assets : assets[a].digest \in Digest
<1>1. assets \in Seq(Asset)
  BY DEF ImportInv, Asset
<1>2. DOMAIN assets = 1..Len(assets)
  BY <1>1, LenProperties
<1>3. \A a \in 1..Len(assets) : assets[a] \in Asset
  BY <1>1, ElementOfSeq
<1> QED
  BY <1>2, <1>3 DEF Asset

LEMMA MaterialUntouched ==
  ASSUME ImportInv, UNCHANGED materialVars
  PROVE  ImportInv'
BY DEF ImportInv, BytesBeforeLineage, materialVars

\* Only the form of an import touches the material, and it begins with the file.
LEMMA FormsAndMaterial ==
  ASSUME ImportInv, NEW f, Effect(f)
  PROVE  ImportInv'
<1>1. CASE StartSong
  <2>1. UNCHANGED materialVars
    BY <1>1 DEF StartSong, CreateSong, materialVars
  <2> QED
    BY <2>1, MaterialUntouched
<1>2. CASE Import(f)
  <2>1. ASSUME NEW d \in Digest, InstallBlob(f.song, d) PROVE ImportInv'
    <3>1. /\ blobs' = [blobs EXCEPT ![d] = "whole"] /\ assets' = assets
          /\ ingest' = [song |-> f.song, digest |-> d] /\ f.song \in Song
      BY <2>1 DEF InstallBlob, Known
    <3>2. \A e \in Digest : blobs[e] # "absent" => blobs'[e] # "absent"
      BY <3>1 DEF ImportInv
    <3>3. BytesBeforeLineage'
      <4> SUFFICES ASSUME NEW a \in DOMAIN assets, assets[a].managed
                   PROVE  blobs'[assets[a].digest] # "absent"
        BY <3>1 DEF BytesBeforeLineage
      <4>1. assets[a].digest \in Digest
        BY AssetsAreTyped
      <4> QED
        BY <3>2, <4>1 DEF ImportInv, BytesBeforeLineage
    <3> QED
      BY <3>1, <3>3 DEF ImportInv
  <2>2. CASE UNCHANGED lineageVars
    BY <2>2, MaterialUntouched DEF lineageVars, recordVars, materialVars
  <2> QED
    BY <1>2, <2>1, <2>2 DEF Import
<1>3. CASE Resume(f) \/ ApproveBound(f) \/ Judge(f)
  <2>1. UNCHANGED materialVars
    BY <1>3 DEF Resume, SetCurrentVersion, ApproveBound, ApproveVersion, Judge, RecordDecision,
                materialVars
  <2> QED
    BY <2>1, MaterialUntouched
<1>4. CASE \/ StartSession(f.song, None) \/ AppendScratch(f.session, f.mode, FALSE)
           \/ CloseSession(f.session) \/ WriteDown(f) \/ RememberForSong(f)
  <2>1. UNCHANGED materialVars
    BY <1>4 DEF StartSession, AppendScratch, CloseSession, WriteDown, CaptureBound, Capture,
                RememberForSong, PromoteDecisionBound, PromoteDecision, recordVars, materialVars
  <2> QED
    BY <2>1, MaterialUntouched
<1>5. CASE SetFocus(f.mode) \/ StopFocus
  <2>1. UNCHANGED materialVars
    BY <1>5 DEF SetFocus, StartFocus, StopFocus, EndFocus, recordVars, materialVars
  <2> QED
    BY <2>1, MaterialUntouched
<1> QED
  BY <1>1, <1>2, <1>3, <1>4, <1>5 DEF Effect

\* The rows of an import are made for the file that is there, and none without it.
LEMMA RowsFollowBytes ==
  ASSUME ImportInv, FinishImport
  PROVE  ImportInv'
<1>1. CASE CommitImport
  <2> DEFINE row == [song |-> ingest.song, digest |-> ingest.digest, managed |-> TRUE]
  <2>1. /\ ingest # None /\ ingest' = None /\ blobs' = blobs /\ assets' = Append(assets, row)
    BY <1>1 DEF CommitImport
  <2>2. row \in [song : Song, digest : Digest, managed : BOOLEAN] /\ blobs[row.digest] # "absent"
    BY <2>1 DEF ImportInv
  <2>3. BytesBeforeLineage'
    <3> HIDE DEF row
    <3> SUFFICES ASSUME NEW a \in 1..(Len(assets) + 1), assets'[a].managed
                 PROVE  blobs[assets'[a].digest] # "absent"
      BY <2>1, <2>2 DEF BytesBeforeLineage, ImportInv
    <3>1. CASE a = Len(assets) + 1
      BY <3>1, <2>1, <2>2 DEF ImportInv
    <3>2. CASE a \in 1..Len(assets)
      BY <3>2, <2>1, <2>2 DEF ImportInv, BytesBeforeLineage
    <3> QED
      BY <3>1, <3>2 DEF ImportInv
  <2> QED
    BY <2>1, <2>2, <2>3 DEF ImportInv
<1>2. CASE ImportFails
  BY <1>2 DEF ImportFails, ImportInv, BytesBeforeLineage
<1> QED
  BY <1>1, <1>2 DEF FinishImport

LEMMA ImportStep ==
  ASSUME ImportInv, [Next]_vars
  PROVE  ImportInv'
<1>1. ASSUME NEW f \in forms, Post(f) PROVE ImportInv'
  <2>1. CASE Effect(f)
    BY <2>1, FormsAndMaterial
  <2>2. CASE UNCHANGED hqVars
    BY <2>2, MaterialUntouched DEF hqVars, lineageVars, recordVars, materialVars
  <2> QED
    BY <1>1, <2>1, <2>2 DEF Post
<1>2. CASE FinishImport
  BY <1>2, RowsFollowBytes
<1>3. CASE Damaged
  <2>1. PICK d \in Digest : Damage(d)
    BY <1>3 DEF Damaged
  <2>2. /\ blobs' = [blobs EXCEPT ![d] = "damaged"] /\ assets' = assets /\ ingest' = ingest
    BY <2>1 DEF Damage
  <2>3. \A e \in Digest : blobs[e] # "absent" => blobs'[e] # "absent"
    BY <2>2 DEF ImportInv
  <2>4. \A a \in DOMAIN assets : assets[a].digest \in Digest
    BY AssetsAreTyped
  <2> QED
    BY <2>2, <2>3, <2>4 DEF ImportInv, BytesBeforeLineage
<1>4. ASSUME \/ \E f \in forms : PostProfile(f) \/ PostQuit(f)
             \/ \E page \in Page : Get(page) \/ GetNotRunning(page)
             \/ NoRequest \/ Hold \/ LetGo \/ AskToStop \/ Check \/ Restart \/ UNCHANGED vars
      PROVE  ImportInv'
  <2>1. UNCHANGED hqVars
    BY <1>4 DEF PostProfile, PostQuit, Get, GetNotRunning, NoRequest, Hold, LetGo, AskToStop,
                Check, Restart, vars, hqVars
  <2> QED
    BY <2>1, MaterialUntouched DEF hqVars, lineageVars, recordVars, materialVars
<1> QED
  BY <1>1, <1>2, <1>3, <1>4 DEF Next

\* However imports are cut off and whatever damages the files, a Version is never made of
\* bytes that were not on the disk before it (material.py, ingest_stream and
\* _commit_asset_version).
THEOREM BytesComeFirst == Spec => []BytesBeforeLineage
<1>1. ImportInv => BytesBeforeLineage
  BY DEF ImportInv
<1> QED
  BY ImportStart, ImportStep, <1>1, PTL DEF Spec

-----------------------------------------------------------------------------
(* The forms of a page *)

Field == {"kind", "song", "target", "current", "approved", "session", "version", "item", "mode"}

\* What a form has of the page it is on.
OfPage(f) ==
  /\ DOMAIN f = Field
  /\ f.song = Seen.song /\ f.current = Seen.current /\ f.approved = Seen.approved

LEMMA BlankHasFields == DOMAIN Blank = Field
BY DEF Blank, Field

LEMMA SeenOfPage == OfPage(Seen) /\ Seen.song = active
<1>1. DOMAIN Seen = Field
  BY DEF Seen, Blank, Field
<1>2. Seen.song = active
  BY DEF Seen, Blank
<1> QED
  BY <1>1, <1>2 DEF OfPage

\* Filling in another field leaves a form what it has of the page.
LEMMA FormOfPage ==
  ASSUME NEW kind
  PROVE  OfPage(Form(kind)) /\ Form(kind).kind = kind
<1>1. DOMAIN Seen = Field
  BY SeenOfPage DEF OfPage
<1> DEFINE g == [Seen EXCEPT !.kind = kind]
<1>2. DOMAIN g = Field /\ g.kind = kind
  BY <1>1 DEF Field
<1>3. g.song = Seen.song /\ g.current = Seen.current /\ g.approved = Seen.approved
  BY <1>1 DEF Field
<1> QED
  BY <1>2, <1>3 DEF OfPage, Form

LEMMA FilledIn ==
  ASSUME NEW f, OfPage(f), NEW field \in Field \ {"kind", "song", "current", "approved"}, NEW v
  PROVE  /\ OfPage([f EXCEPT ![field] = v]) /\ [f EXCEPT ![field] = v].kind = f.kind
         /\ [f EXCEPT ![field] = v][field] = v
<1> DEFINE g == [f EXCEPT ![field] = v]
<1>1. DOMAIN g = Field
  BY DEF OfPage
<1>2. \A x \in Field \ {field} : g[x] = f[x]
  BY DEF OfPage
<1>3. g.song = f.song /\ g.current = f.current /\ g.approved = f.approved /\ g.kind = f.kind
  BY <1>2 DEF Field
<1>4. g[field] = v
  BY DEF OfPage
<1> QED
  BY <1>1, <1>3, <1>4 DEF OfPage

\* The kinds of form that ask nothing more of their page.
Others == {"quit", "focus-end", "resume", "approve", "session-start", "finish", "writing",
           "remember", "decide", "material"}

LEMMA SessionFormOfPage ==
  ASSUME NEW kind PROVE OfPage(SessionForm(kind)) /\ SessionForm(kind).kind = kind
<1> DEFINE last == LatestForSong(active)  g == [Form(kind) EXCEPT !.session = last]
<1>1. OfPage(g) /\ g.kind = kind
  BY FormOfPage, FilledIn DEF Field
<1>2. SessionForm(kind) = [g EXCEPT !.version = sessions[last].version]
  BY DEF SessionForm
<1> HIDE DEF g
<1> QED
  BY <1>1, <1>2, FilledIn DEF Field

\* What FormsOf makes of a page: forms that carry what Seen says, and a form that makes a
\* Song alone on its page.
LEMMA PageForms ==
  ASSUME NEW page \in Page, NEW f \in FormsOf(page)
  PROVE  /\ OfPage(f)
         /\ f.kind # "profile"
         /\ f.kind = "song-start" => active = None /\ FormsOf(page) = {f}
         /\ f.kind = "focus-set" => f.mode \in Mode
         /\ f.kind = "capture" => f.mode \in Kind
<1> DEFINE Common == \/ f.kind \in Others
                     \/ f.kind = "song-start" /\ active = None /\ FormsOf(page) = {f}
                     \/ f.kind = "focus-set" /\ f.mode \in Mode
                     \/ f.kind = "capture" /\ f.mode \in Kind
<1> SUFFICES OfPage(f) /\ Common
  BY DEF Others
<1>1. CASE page = "settings"
  BY <1>1, FormOfPage DEF FormsOf, Others
<1>2. CASE page = "now"
  <2>1. f = Form("focus-end") \/ \E m \in Mode : f = [Form("focus-set") EXCEPT !.mode = m]
    BY <1>2 DEF FormsOf
  <2>2. CASE f = Form("focus-end")
    BY <2>2, FormOfPage DEF Others
  <2>3. ASSUME NEW m \in Mode, f = [Form("focus-set") EXCEPT !.mode = m]
        PROVE  OfPage(f) /\ f.kind = "focus-set" /\ f.mode \in Mode
    BY <2>3, FormOfPage, FilledIn DEF Field
  <2> QED
    BY <2>1, <2>2, <2>3 DEF Others
<1>3. CASE page = "home"
  <2>1. active = None /\ f = Form("song-start") /\ FormsOf(page) = {f}
    BY <1>3 DEF FormsOf, StartSongForm
  <2> QED
    BY <2>1, FormOfPage
<1>4. CASE page = "compare"
  <2>1. f = [Form("decide") EXCEPT !.target = ReadyReference]
    BY <1>4 DEF FormsOf, CompareForms
  <2> QED
    BY <2>1, FormOfPage, FilledIn DEF Field, Others
<1>5. CASE page = "song" /\ active = None
  <2>1. f = Form("song-start") /\ FormsOf(page) = {f}
    BY <1>5 DEF FormsOf, StartSongForm
  <2> QED
    BY <1>5, <2>1, FormOfPage
<1>6. CASE page = "song" /\ active # None
  <2>1. \/ f \in {Form("material")} \/ f \in ResumeForms \/ f \in ApproveForms
        \/ f \in SessionForms \/ f \in WritingForms \/ f \in RememberForms
    BY <1>6 DEF FormsOf, MaterialForm
  <2>2. CASE f = Form("material")
    BY <2>2, FormOfPage DEF Others
  <2>3. CASE f \in ResumeForms
    <3>1. \E v : f = [Form("resume") EXCEPT !.target = v]
      BY <2>3 DEF ResumeForms
    <3> QED
      BY <3>1, FormOfPage, FilledIn DEF Field, Others
  <2>4. CASE f \in ApproveForms
    <3>1. \E v : f = [Form("approve") EXCEPT !.target = v]
      BY <2>4 DEF ApproveForms
    <3> QED
      BY <3>1, FormOfPage, FilledIn DEF Field, Others
  <2>5. CASE f \in SessionForms
    <3>1. \/ f = Form("session-start") \/ f = SessionForm("finish")
          \/ \E k \in Kind : f = [SessionForm("capture") EXCEPT !.mode = k]
      BY <2>5 DEF SessionForms
    <3>2. CASE f \in {Form("session-start"), SessionForm("finish")}
      BY <3>2, FormOfPage, SessionFormOfPage DEF Others
    <3>3. ASSUME NEW k \in Kind, f = [SessionForm("capture") EXCEPT !.mode = k]
          PROVE  OfPage(f) /\ f.kind = "capture" /\ f.mode \in Kind
      BY <3>3, SessionFormOfPage, FilledIn DEF Field
    <3> QED
      BY <3>1, <3>2, <3>3 DEF Others
  <2>6. CASE f \in WritingForms
    <3>1. f = SessionForm("writing")
      BY <2>6 DEF WritingForms
    <3> QED
      BY <3>1, SessionFormOfPage DEF Others
  <2>7. CASE f \in RememberForms
    <3>1. PICK i : f = [Form("remember") EXCEPT !.item = i, !.session = items[i].session,
                                               !.version = sessions[items[i].session].version]
      BY <2>7 DEF RememberForms
    <3> DEFINE g == [Form("remember") EXCEPT !.item = i]
               h == [g EXCEPT !.session = items[i].session]
    <3>3. OfPage(g) /\ g.kind = "remember"
      BY FormOfPage, FilledIn DEF Field
    <3>4. f = [h EXCEPT !.version = sessions[items[i].session].version]
      BY <3>1
    <3> HIDE DEF g
    <3>5. OfPage(h) /\ h.kind = "remember"
      BY <3>3, FilledIn DEF Field
    <3> HIDE DEF h
    <3>6. OfPage(f) /\ f.kind = "remember"
      BY <3>4, <3>5, FilledIn DEF Field
    <3> QED
      BY <3>6 DEF Others
  <2> QED
    BY <2>1, <2>2, <2>3, <2>4, <2>5, <2>6, <2>7
<1> QED
  BY <1>1, <1>2, <1>3, <1>4, <1>5, <1>6 DEF Page

-----------------------------------------------------------------------------
(* The greatest of finitely many ids *)

\* The order of the ids, as a relation: a set of ids has a least element because it is
\* well founded, which is all the induction there is here.
Below == {p \in Nat \X Nat : p[1] < p[2]}

LEMMA LeastOf ==
  ASSUME NEW S \in SUBSET Nat, S # {}
  PROVE  \E i \in S : \A j \in S : i <= j
<1>1. IsWellFoundedOn(Below, Nat)
  BY NatLessThanWellFounded DEF OpToRel, Below
<1>2. PICK x \in S : \A y \in S : ~ (<<y, x>> \in Below)
  BY <1>1, WFMin
<1>3. ASSUME NEW y \in S PROVE x <= y
  <2>1. <<y, x>> \in Nat \X Nat
    OBVIOUS
  <2>2. <<y, x>>[1] = y /\ <<y, x>>[2] = x
    OBVIOUS
  <2>3. ~(y < x)
    BY <1>2, <2>1, <2>2 DEF Below
  <2> QED
    BY <2>3
<1> QED
  BY <1>3

LEMMA GreatestOf ==
  ASSUME NEW n \in Nat, NEW S \in SUBSET (1..n), S # {}
  PROVE  \E i \in S : \A j \in S : j <= i
<1> DEFINE R == {n - i : i \in S}
<1>1. R \in SUBSET Nat /\ R # {}
  <2>1. \A i \in S : n - i \in Nat
    OBVIOUS
  <2> QED
    BY <2>1
<1>2. PICK r \in R : \A q \in R : r <= q
  BY <1>1, LeastOf
<1>3. PICK i \in S : r = n - i
  BY <1>2
<1>4. \A j \in S : n - i <= n - j
  BY <1>2, <1>3
<1> QED
  BY <1>4

-----------------------------------------------------------------------------
(* The chronology *)

\* Which of the new lines are about a Song, of some types.
Lines(es, types, s) == {k \in 1..Len(es) : es[k].type \in types /\ es[k].song = s}

\* Log appends: what was told stays at its place, and the new lines follow.
LEMMA ChronologyGrows ==
  ASSUME events \in Seq(Row), NEW es \in Seq(Row), Log(es)
  PROVE  /\ events' \in Seq(Row)
         /\ Len(events') = Len(events) + Len(es)
         /\ \A i \in 1..Len(events) : events'[i] = events[i]
         /\ \A k \in 1..Len(es) : events'[Len(events) + k] = es[k]
         /\ \A types, s : EventsOf(types, s)' =
              EventsOf(types, s) \cup {Len(events) + k : k \in Lines(es, types, s)}
<1>1. /\ events' \in Seq(Row)
      /\ Len(events') = Len(events) + Len(es)
      /\ \A i \in 1..(Len(events) + Len(es)) :
           events'[i] = IF i <= Len(events) THEN events[i] ELSE es[i - Len(events)]
  BY ConcatProperties DEF Log
<1>2. Len(events) \in Nat /\ Len(es) \in Nat
  BY LenProperties
<1>3. \A i \in 1..Len(events) : events'[i] = events[i]
  BY <1>1, <1>2
<1>4. \A k \in 1..Len(es) : events'[Len(events) + k] = es[k]
  BY <1>1, <1>2
<1>5. DOMAIN events = 1..Len(events) /\ DOMAIN events' = 1..(Len(events) + Len(es))
  BY <1>1, LenProperties
<1>6. ASSUME NEW types, NEW s
      PROVE  EventsOf(types, s)' =
               EventsOf(types, s) \cup {Len(events) + k : k \in Lines(es, types, s)}
  <2>1. ASSUME NEW i \in EventsOf(types, s)'
        PROVE  i \in EventsOf(types, s) \cup {Len(events) + k : k \in Lines(es, types, s)}
    <3>1. i \in 1..(Len(events) + Len(es)) /\ events'[i].type \in types /\ events'[i].song = s
      BY <2>1, <1>5 DEF EventsOf
    <3>2. CASE i <= Len(events)
      BY <3>1, <3>2, <1>2, <1>3, <1>5 DEF EventsOf
    <3>3. CASE ~(i <= Len(events))
      <4>1. i - Len(events) \in 1..Len(es) /\ i = Len(events) + (i - Len(events))
        BY <3>1, <3>3, <1>2
      <4>2. i - Len(events) \in Lines(es, types, s)
        BY <4>1, <3>1, <1>4 DEF Lines
      <4> QED
        BY <4>1, <4>2
    <3> QED
      BY <3>2, <3>3
  <2>2. ASSUME NEW i \in EventsOf(types, s)
        PROVE  i \in EventsOf(types, s)'
    BY <2>2, <1>2, <1>3, <1>5 DEF EventsOf
  <2>3. ASSUME NEW k \in Lines(es, types, s)
        PROVE  Len(events) + k \in EventsOf(types, s)'
    BY <2>3, <1>2, <1>4, <1>5 DEF EventsOf, Lines
  <2> QED
    BY <2>1, <2>2, <2>3
<1> QED
  BY <1>1, <1>3, <1>4, <1>6

LEMMA EventsAreFinite ==
  ASSUME events \in Seq(Row), NEW types, NEW s
  PROVE  /\ EventsOf(types, s) \in SUBSET (1..Len(events))
         /\ Len(events) \in Nat
         /\ IsFiniteSet(EventsOf(types, s))
         /\ Cardinality(EventsOf(types, s)) \in Nat
<1>1. Len(events) \in Nat /\ DOMAIN events = 1..Len(events)
  BY LenProperties
<1>2. EventsOf(types, s) \in SUBSET (1..Len(events))
  BY <1>1 DEF EventsOf
<1>3. IsFiniteSet(1..Len(events))
  BY <1>1, FS_Interval
<1>4. IsFiniteSet(EventsOf(types, s))
  BY <1>2, <1>3, FS_Subset
<1> QED
  BY <1>1, <1>2, <1>4, FS_CardinalityType

\* Lines about other things leave the chronology telling what it told.
LEMMA NothingNewTold ==
  ASSUME events \in Seq(Row), NEW es \in Seq(Row), Log(es), NEW types, NEW s,
         Lines(es, types, s) = {}
  PROVE  EventsOf(types, s)' = EventsOf(types, s)
<1>1. EventsOf(types, s)' = EventsOf(types, s) \cup {Len(events) + k : k \in Lines(es, types, s)}
  BY ChronologyGrows
<1> QED
  BY <1>1

\* The place LastVersion reads is one of the chronology.
LEMMA LastIs ==
  ASSUME events \in Seq(Row), NEW type, NEW s
  PROVE  EventsOf({type}, s) # {} =>
           (CHOOSE i \in EventsOf({type}, s) : \A j \in EventsOf({type}, s) : j <= i)
             \in 1..Len(events)
<1>1. EventsOf({type}, s) \in SUBSET (1..Len(events)) /\ Len(events) \in Nat
  BY EventsAreFinite
<1> DEFINE S == EventsOf({type}, s)  g == CHOOSE i \in S : \A j \in S : j <= i
<1>2. S # {} => \E i \in S : \A j \in S : j <= i
  BY <1>1, GreatestOf
<1>3. S # {} => g \in S
  BY <1>2
<1> QED
  BY <1>1, <1>3

LEMMA LastStays ==
  ASSUME events \in Seq(Row), NEW es \in Seq(Row), Log(es), NEW type, NEW s,
         Lines(es, {type}, s) = {}
  PROVE  LastVersion(type, s)' = LastVersion(type, s)
<1>1. EventsOf({type}, s)' = EventsOf({type}, s)
  BY NothingNewTold
<1>2. \A i \in 1..Len(events) : events'[i] = events[i]
  BY ChronologyGrows
<1> DEFINE old == EventsOf({type}, s)
           new == EventsOf({type}, s)'
           G(S) == CHOOSE i \in S : \A j \in S : j <= i
<1>3. /\ LastVersion(type, s) = IF old = {} THEN None ELSE events[G(old)].version
      /\ LastVersion(type, s)' = IF new = {} THEN None ELSE events'[G(new)].version
  BY DEF LastVersion
<1>4. old # {} => G(old) \in 1..Len(events)
  BY LastIs
<1> HIDE DEF G, old, new
<1>5. old # {} => events'[G(old)] = events[G(old)]
  BY <1>2, <1>4
<1>6. new = old
  BY <1>1 DEF old, new
<1>7. G(new) = G(old)
  BY <1>6
<1> QED
  BY <1>3, <1>5, <1>6, <1>7

\* The last line about a pointer of a Song tells it.
LEMMA LastIsTold ==
  ASSUME events \in Seq(Row), NEW es \in Seq(Row), Log(es), NEW type, NEW s,
         NEW k \in Lines(es, {type}, s), \A j \in Lines(es, {type}, s) : j <= k
  PROVE  LastVersion(type, s)' = es[k].version
<1> DEFINE old == EventsOf({type}, s)
           new == EventsOf({type}, s)'
           H == Lines(es, {type}, s)
           n == Len(events)
           G(S) == CHOOSE i \in S : \A j \in S : j <= i
<1>1. /\ new = old \cup {n + h : h \in H}
      /\ \A h \in 1..Len(es) : events'[n + h] = es[h]
  BY ChronologyGrows
<1>2. n \in Nat /\ old \in SUBSET (1..n)
  BY EventsAreFinite
<1>3. H \subseteq 1..Len(es) /\ Len(es) \in Nat /\ k \in H /\ \A j \in H : j <= k
  BY LenProperties DEF Lines
<1>4. LastVersion(type, s)' = IF new = {} THEN None ELSE events'[G(new)].version
  BY DEF LastVersion
<1>5. \A N \in Nat : \A S \in SUBSET (1..N) : S # {} => G(S) \in S /\ \A j \in S : j <= G(S)
  BY GreatestOf
<1> HIDE DEF G, old, new, H, n
<1>6. n + k \in new /\ k \in 1..Len(es)
  BY <1>1, <1>3
<1>7. \A j \in new : j \in Nat /\ j <= n + k
  <2> SUFFICES ASSUME NEW j \in new PROVE j \in Nat /\ j <= n + k
    OBVIOUS
  <2>1. CASE j \in old
    BY <2>1, <1>6, <1>2
  <2>2. CASE \E h \in H : j = n + h
    BY <2>2, <1>2, <1>3
  <2> QED
    BY <2>1, <2>2, <1>1
<1>8. new \in SUBSET (1..(n + k)) /\ new # {} /\ n + k \in Nat
  <2>1. \A j \in new : j >= 1
    BY <1>1, <1>2, <1>3
  <2> QED
    BY <2>1, <1>6, <1>7, <1>2
<1>9. G(new) \in new /\ n + k <= G(new)
  <2>1. G(new) \in new /\ \A j \in new : j <= G(new)
    BY <1>8, <1>5
  <2> QED
    BY <2>1, <1>6
<1>10. G(new) = n + k
  BY <1>6, <1>7, <1>9, <1>2
<1>11. events'[n + k] = es[k]
  BY <1>1, <1>6
<1> QED
  BY <1>4, <1>8, <1>10, <1>11

-----------------------------------------------------------------------------
(* One Song, and forms that say what the last page said *)

LEMMA OneSongStart == Init => OneSong /\ FormsAreShown
<1> SUFFICES ASSUME Init PROVE OneSong /\ FormsAreShown
  OBVIOUS
<1>1. Known = {}
  BY DEF Init, LineageInit, Known
<1> QED
  BY <1>1 DEF Init, LineageInit, OneSong, FormsAreShown

\* Ids of Versions and assets are numbers: their places.
LEMMA Ids ==
  ASSUME LineageTypeOK
  PROVE  /\ Len(versions) \in Nat /\ DOMAIN versions = 1..Len(versions)
         /\ Len(assets) \in Nat /\ DOMAIN assets = 1..Len(assets)
         /\ songs \in [Song -> {None} \cup SongRow]
<1>1. Len(versions) \in Nat /\ DOMAIN versions = 1..Len(versions)
  BY LenProperties DEF LineageTypeOK
<1>2. Len(assets) \in Nat /\ DOMAIN assets = 1..Len(assets)
  BY LenProperties DEF LineageTypeOK
<1>3. [current : DOMAIN versions \cup {None}, approved : DOMAIN versions \cup {None}]
         \subseteq SongRow
  BY <1>1 DEF SongRow
<1>4. songs \in [Song -> {None} \cup SongRow]
  BY <1>3 DEF LineageTypeOK
<1> QED
  BY <1>1, <1>2, <1>4

\* What changes a pointer of a Song leaves it a Song, and the others as they are.
LEMMA PointerMoves ==
  ASSUME songs \in [Song -> {None} \cup SongRow], NEW s \in Known, NEW v \in Nat
  PROVE  /\ songs' = [songs EXCEPT ![s].current = v] =>
              /\ Known' = Known /\ \A t \in Song \ {s} : songs'[t] = songs[t]
              /\ songs'[s].current = v /\ songs'[s].approved = songs[s].approved
              /\ songs' \in [Song -> {None} \cup SongRow]
         /\ songs' = [songs EXCEPT ![s].approved = v] =>
              /\ Known' = Known /\ \A t \in Song \ {s} : songs'[t] = songs[t]
              /\ songs'[s].approved = v /\ songs'[s].current = songs[s].current
              /\ songs' \in [Song -> {None} \cup SongRow]
<1>1. s \in Song /\ songs[s] \in SongRow
  BY DEF Known
<1>2. ASSUME NEW r \in SongRow, songs' = [songs EXCEPT ![s] = r]
      PROVE  /\ Known' = Known /\ \A t \in Song \ {s} : songs'[t] = songs[t]
             /\ songs'[s] = r /\ songs' \in [Song -> {None} \cup SongRow]
  <2>1. \A t \in Song \ {s} : songs'[t] = songs[t]
    BY <1>2
  <2>2. songs'[s] = r /\ r # None
    BY <1>1, <1>2, NoneAssumption
  <2>3. Known' = Known
    BY <2>1, <2>2 DEF Known
  <2> QED
    BY <1>1, <1>2, <2>1, <2>2, <2>3
<1> DEFINE c == [songs[s] EXCEPT !.current = v]
           a == [songs[s] EXCEPT !.approved = v]
<1>3. c \in SongRow /\ c.current = v /\ c.approved = songs[s].approved
  BY <1>1 DEF SongRow
<1>4. a \in SongRow /\ a.approved = v /\ a.current = songs[s].current
  BY <1>1 DEF SongRow
<1>5. ASSUME songs' = [songs EXCEPT ![s].current = v]
      PROVE  /\ Known' = Known /\ \A t \in Song \ {s} : songs'[t] = songs[t]
             /\ songs'[s].current = v /\ songs'[s].approved = songs[s].approved
             /\ songs' \in [Song -> {None} \cup SongRow]
  <2>1. songs' = [songs EXCEPT ![s] = c]
    BY <1>5
  <2> HIDE DEF c
  <2>2. /\ Known' = Known /\ \A t \in Song \ {s} : songs'[t] = songs[t]
        /\ songs'[s] = c /\ songs' \in [Song -> {None} \cup SongRow]
    BY <2>1, <1>2, <1>3
  <2> QED
    BY <1>3, <2>2
<1>6. ASSUME songs' = [songs EXCEPT ![s].approved = v]
      PROVE  /\ Known' = Known /\ \A t \in Song \ {s} : songs'[t] = songs[t]
             /\ songs'[s].approved = v /\ songs'[s].current = songs[s].current
             /\ songs' \in [Song -> {None} \cup SongRow]
  <2>1. songs' = [songs EXCEPT ![s] = a]
    BY <1>6
  <2> HIDE DEF a
  <2>2. /\ Known' = Known /\ \A t \in Song \ {s} : songs'[t] = songs[t]
        /\ songs'[s] = a /\ songs' \in [Song -> {None} \cup SongRow]
    BY <2>1, <1>2, <1>4
  <2> QED
    BY <1>4, <2>2
<1> QED
  BY <1>5, <1>6

\* What a form does to the Songs there are.
LEMMA EffectOnSongs ==
  ASSUME LineageTypeOK, OneSong, FormsAreShown, ingest = None,
         NEW f \in forms, f.kind \notin {"quit", "profile"}, Effect(f), Stands(f)
  PROVE  /\ Known' = {active'} \ {None}
         /\ ingest' # None => ingest'.song = active' /\ ingest'.song = shown.song
         /\ f.kind # "song-start" => active' = active
<1> USE Ids
<1>1. CASE f.kind = "song-start" /\ StartSong
  <2>1. PICK s \in Song : CreateSong(s)
    BY <1>1 DEF StartSong
  <2>2. active = None
    BY <1>1 DEF FormsAreShown
  <2>3. \A t \in Song : songs[t] = None
    BY <2>2 DEF OneSong, Known
  <2> DEFINE row == [current |-> None, approved |-> None]
  <2>4. row \in SongRow
    BY DEF SongRow
  <2>5. row # None
    BY <2>4, NoneAssumption
  <2>6. /\ \A t \in Song \ {s} : songs'[t] = None
        /\ songs'[s] = row /\ active' = s /\ ingest' = None
    BY <2>1, <2>3 DEF CreateSong
  <2> HIDE DEF row
  <2>7. Known' = {s}
    BY <2>5, <2>6 DEF Known
  <2>8. s # None
    BY NoneAssumption
  <2> QED
    BY <1>1, <2>6, <2>7, <2>8
<1>2. CASE f.kind = "material" /\ Import(f)
  <2>1. f.song = active /\ f.song = shown.song
    BY <1>2 DEF FormsAreShown
  <2>2. Known' = Known /\ active' = active
    BY <1>2 DEF Import, InstallBlob, lineageVars, recordVars, Known
  <2>3. ingest' = None \/ ingest'.song = f.song
    BY <1>2 DEF Import, InstallBlob, lineageVars, recordVars
  <2> QED
    BY <1>2, <2>1, <2>2, <2>3 DEF OneSong
<1>3. CASE f.kind # "song-start" /\ (Resume(f) \/ ApproveBound(f))
  <2>1. PICK s \in Known, v \in DOMAIN versions :
          \/ songs' = [songs EXCEPT ![s].current = v]
          \/ songs' = [songs EXCEPT ![s].approved = v]
    BY <1>3 DEF Resume, SetCurrentVersion, ApproveBound, ApproveVersion, VersionsOf
  <2>2. active' = active /\ ingest' = ingest
    BY <1>3 DEF Resume, SetCurrentVersion, ApproveBound, ApproveVersion
  <2>3. v \in Nat
    BY <2>1
  <2>4. Known' = Known
    BY <2>1, <2>3, PointerMoves
  <2> QED
    BY <1>3, <2>2, <2>4 DEF OneSong
<1>4. CASE /\ f.kind # "song-start"
           /\ \/ Judge(f) \/ StartSession(f.song, None) \/ AppendScratch(f.session, f.mode, FALSE)
              \/ CloseSession(f.session) \/ WriteDown(f) \/ RememberForSong(f)
              \/ SetFocus(f.mode) \/ StopFocus
  <2>1. UNCHANGED <<songs, active, ingest>>
    BY <1>4 DEF Judge, RecordDecision, StartSession, AppendScratch, CloseSession, WriteDown,
                CaptureBound, Capture, RememberForSong, PromoteDecisionBound, PromoteDecision,
                SetFocus, StartFocus, StopFocus, EndFocus, recordVars
  <2> QED
    BY <1>4, <2>1 DEF OneSong, Known
<1> QED
  BY <1>1, <1>2, <1>3, <1>4 DEF Effect

\* Every step of the window keeps to the one Song and to the page shown.
LEMMA OneSongStep ==
  ASSUME LineageTypeOK, OneSong, FormsAreShown, [Next]_vars
  PROVE  OneSong' /\ FormsAreShown'
<1>1. ASSUME NEW f \in forms, Post(f) PROVE OneSong' /\ FormsAreShown'
  <2>1. /\ ingest = None /\ f.kind \notin {"quit", "profile"}
        /\ forms' = forms \ {f} /\ shown' = shown /\ (ingest' # None => loop' = "check")
    BY <1>1 DEF Post, Serving, Answered
  <2>2. CASE Stands(f) /\ Effect(f)
    <3>1. /\ Known' = {active'} \ {None}
          /\ ingest' # None => ingest'.song = active' /\ ingest'.song = shown.song
          /\ f.kind # "song-start" => active' = active
      BY <2>1, <2>2, EffectOnSongs
    <3>2. CASE f.kind = "song-start"
      <4>1. forms' = {}
        BY <2>1, <3>2 DEF FormsAreShown
      <4> QED
        BY <2>1, <3>1, <4>1 DEF OneSong, FormsAreShown
    <3>3. CASE f.kind # "song-start"
      <4>1. \A g \in forms' : g \in forms /\ g.kind # "song-start"
        BY <2>1, <3>3 DEF FormsAreShown
      <4> QED
        BY <2>1, <3>1, <3>3, <4>1 DEF OneSong, FormsAreShown
    <3> QED
      BY <3>2, <3>3
  <2>3. CASE UNCHANGED hqVars
    <3>1. UNCHANGED <<songs, active, ingest>>
      BY <2>3 DEF hqVars, lineageVars, recordVars
    <3>2. ASSUME NEW g \in forms', g.kind = "song-start" PROVE forms' = {g}
      BY <2>1, <3>2 DEF FormsAreShown
    <3> QED
      BY <2>1, <3>1, <3>2 DEF OneSong, FormsAreShown, Known
  <2> QED
    BY <1>1, <2>2, <2>3 DEF Post
<1>2. CASE FinishImport
  <2>1. UNCHANGED <<shown, loop, forms, active>> /\ ingest' = None
    BY <1>2 DEF FinishImport, shellVars, CommitImport, ImportFails
  <2>2. Known' = Known
    <3>1. CASE CommitImport
      <4>1. songs' = [songs EXCEPT ![ingest.song].current = Len(versions) + 1]
        BY <3>1 DEF CommitImport, NewVersion
      <4>2. ingest.song \in Known
        BY <1>2, NoneAssumption DEF FinishImport, OneSong, LineageTypeOK
      <4>3. Len(versions) + 1 \in Nat
        BY Ids
      <4> QED
        BY <4>1, <4>2, <4>3, Ids, PointerMoves
    <3>2. CASE ImportFails
      BY <3>2 DEF ImportFails, Known
    <3> QED
      BY <1>2, <3>1, <3>2 DEF FinishImport
  <2> QED
    BY <2>1, <2>2 DEF OneSong, FormsAreShown
<1>3. ASSUME NEW page \in Page, Render(FormsOf(page)), UNCHANGED hqVars, ingest = None
      PROVE  OneSong' /\ FormsAreShown'
  <2>1. forms' = FormsOf(page) /\ shown' = Seen /\ UNCHANGED <<songs, active, ingest>>
    BY <1>3 DEF Render, hqVars, lineageVars, recordVars
  <2>2. ASSUME NEW f \in FormsOf(page)
        PROVE  /\ f.song = Seen.song /\ f.current = Seen.current /\ f.approved = Seen.approved
               /\ f.song = active
               /\ f.kind = "song-start" => active = None /\ FormsOf(page) = {f}
               /\ f.kind = "focus-set" => f.mode \in Mode
               /\ f.kind = "capture" => f.mode \in Kind
    BY PageForms, SeenOfPage DEF OfPage
  <2> QED
    BY <1>3, <2>1, <2>2 DEF OneSong, FormsAreShown, Known
<1>4. ASSUME NEW kind \in {"quit", "profile"}, Render({[Blank EXCEPT !.kind = kind]}),
             UNCHANGED hqVars, ingest = None
      PROVE  OneSong' /\ FormsAreShown'
  <2>1. UNCHANGED <<songs, active, ingest>>
    BY <1>4 DEF hqVars, lineageVars, recordVars
  <2>2. \A f \in forms' : f.kind = kind
    BY <1>4 DEF Render, Blank
  <2> QED
    BY <1>4, <2>1, <2>2 DEF OneSong, FormsAreShown, Known
<1>5. ASSUME NEW page \in Page, Get(page) PROVE OneSong' /\ FormsAreShown'
  BY <1>3, <1>5 DEF Get, Serving
<1>6. ASSUME NEW page \in Page, GetNotRunning(page) PROVE OneSong' /\ FormsAreShown'
  <2>1. /\ UNCHANGED hqVars /\ ingest = None
        /\ \/ Render(FormsOf(page))
           \/ \E kind \in {"quit", "profile"} : Render({[Blank EXCEPT !.kind = kind]})
    BY <1>6 DEF GetNotRunning, Serving
  <2> QED
    BY <2>1, <1>3, <1>4
<1>7. ASSUME NEW f \in forms, PostProfile(f) \/ PostQuit(f) PROVE OneSong' /\ FormsAreShown'
  <2>1. UNCHANGED hqVars /\ ingest = None /\ f.kind \in {"quit", "profile"}
    BY <1>7 DEF PostProfile, PostQuit, Serving
  <2>2. CASE forms' = forms \ {f} /\ shown' = shown
    <3>1. UNCHANGED <<songs, active, ingest>>
      BY <2>1 DEF hqVars, lineageVars, recordVars
    <3>2. ASSUME NEW g \in forms', g.kind = "song-start" PROVE FALSE
      BY <2>1, <2>2, <3>2 DEF FormsAreShown
    <3> QED
      BY <2>1, <2>2, <3>1, <3>2 DEF OneSong, FormsAreShown, Known
  <2>3. CASE Render({[Blank EXCEPT !.kind = "quit"]})
    BY <2>1, <2>3, <1>4
  <2> QED
    BY <1>7, <2>2, <2>3 DEF PostProfile, PostQuit
<1>8. CASE NoRequest \/ Hold \/ LetGo \/ AskToStop \/ Check \/ UNCHANGED vars
  <2>1. UNCHANGED <<songs, active, ingest, forms, shown>> /\ (ingest # None => loop' = loop)
    BY <1>8 DEF NoRequest, Hold, LetGo, AskToStop, Check, Serving, OneSong, vars, shellVars,
                hqVars, lineageVars, recordVars
  <2> QED
    BY <2>1 DEF OneSong, FormsAreShown, Known
<1>9. CASE Restart
  <2>1. UNCHANGED <<songs, active, ingest>> /\ forms' = {} /\ loop = "ended"
    BY <1>9 DEF Restart, hqVars, lineageVars, recordVars
  <2> QED
    BY <2>1 DEF OneSong, FormsAreShown, Known
<1>10. CASE Damaged
  <2>1. UNCHANGED <<songs, active, ingest, forms, shown, loop>>
    BY <1>10 DEF Damaged, Damage, shellVars
  <2> QED
    BY <2>1 DEF OneSong, FormsAreShown, Known
<1> QED
  BY <1>1, <1>2, <1>5, <1>6, <1>7, <1>8, <1>9, <1>10 DEF Next

-----------------------------------------------------------------------------
(* What the stores hold, part by part *)

VersionId == DOMAIN versions \cup {None}

SongsTyped == songs \in [Song -> {None} \cup [current : VersionId, approved : VersionId]]
VersionsTyped ==
  versions \in Seq([song : Song, ordinal : Nat \ {0}, parent : VersionId,
                    assets : SUBSET DOMAIN assets])
AssetsTyped == assets \in Seq([song : Song, digest : Digest, managed : BOOLEAN])
FilesTyped ==
  /\ blobs \in [Digest -> {"absent", "whole", "damaged"}]
  /\ ingest \in {None} \cup [song : Song, digest : Digest]
DecisionsTyped ==
  decisions \in Seq([song : Song, reference : DOMAIN versions, current : DOMAIN versions,
                     judgment : Judgment])
DerivationsTyped ==
  derivations \in Seq([song : Song, output : Object, input : Object \cup {External}])
EventsTyped ==
  events \in Seq([type : {events[i].type : i \in DOMAIN events}, song : Song \cup {None},
                  version : VersionId])

LEMMA LineageParts ==
  LineageTypeOK <=>
    /\ SongsTyped /\ active \in Song \cup {None} /\ VersionsTyped /\ AssetsTyped
    /\ FilesTyped /\ DecisionsTyped /\ DerivationsTyped /\ EventsTyped
BY DEF LineageTypeOK, VersionId, SongsTyped, VersionsTyped, AssetsTyped, FilesTyped, DecisionsTyped,
       DerivationsTyped, EventsTyped

LEMMA LineagePartsAfter ==
  LineageTypeOK' <=>
    /\ SongsTyped' /\ active' \in Song \cup {None} /\ VersionsTyped' /\ AssetsTyped'
    /\ FilesTyped' /\ DecisionsTyped' /\ DerivationsTyped' /\ EventsTyped'
BY DEF LineageTypeOK, VersionId, SongsTyped, VersionsTyped, AssetsTyped, FilesTyped, DecisionsTyped,
       DerivationsTyped, EventsTyped

PointersTold ==
  \A s \in Known :
    /\ songs[s].current  = LastVersion("CURRENT_VERSION_CHANGED", s)
    /\ songs[s].approved = LastVersion("VERSION_APPROVED", s)

SessionsTold ==
  \A s \in Known :
    Cardinality(EventsOf({"SESSION_CLOSED"}, s))
      = IF IsOpen(LatestForSong(s)) THEN Cardinality(EventsOf({"SESSION_STARTED"}, s)) - 1
        ELSE Cardinality(EventsOf({"SESSION_STARTED"}, s))

FocusTypes == {"FOCUS_SESSION_STARTED", "FOCUS_SESSION_ENDED"}

FocusEvents == UNION {EventsOf(FocusTypes, s) : s \in Song \cup {None}}

FocusTold ==
  ActiveFocus # 0 <=>
    \E i \in FocusEvents : events[i].type = "FOCUS_SESSION_STARTED" /\ \A j \in FocusEvents : j <= i

LEMMA ToldParts == ChronologyTells <=> PointersTold /\ SessionsTold /\ FocusTold
BY DEF ChronologyTells, PointersTold, SessionsTold, FocusTold, FocusEvents, FocusTypes

LEMMA ToldPartsAfter == ChronologyTells' <=> PointersTold' /\ SessionsTold' /\ FocusTold'
BY DEF ChronologyTells, PointersTold, SessionsTold, FocusTold, FocusEvents, FocusTypes

-----------------------------------------------------------------------------
(* What is in the stores stays there *)

Grows ==
  /\ Known \subseteq Known'
  /\ \A s : VersionsOf(s) \subseteq VersionsOf(s)'
  /\ DOMAIN versions \subseteq DOMAIN versions' /\ DOMAIN assets \subseteq DOMAIN assets'

\* A line of the chronology that can be read, before and after a step.
Sound(e) ==
  /\ e \in Row
  /\ e.song # None => e.song \in Known
  /\ e.version # None => e.version \in DOMAIN versions /\ versions[e.version].song = e.song

SoundThen(e) ==
  /\ e \in Row
  /\ e.song # None => e.song \in Known'
  /\ e.version # None => e.version \in DOMAIN versions' /\ versions'[e.version].song = e.song

LEMMA SeqOver ==
  ASSUME NEW S, NEW T, NEW q \in Seq(S), \A i \in 1..Len(q) : q[i] \in T
  PROVE  q \in Seq(T)
<1>1. q \in [1..Len(q) -> S] /\ Len(q) \in Nat
  BY LenProperties
<1>2. q \in [1..Len(q) -> T]
  BY <1>1
<1> QED
  BY <1>1, <1>2, SeqDef

LEMMA EventRows ==
  ASSUME events \in Seq(Row)
  PROVE  Len(events) \in Nat /\ DOMAIN events = 1..Len(events)
BY LenProperties

\* Lines that can be read leave a chronology that can.
LEMMA ActivityStands ==
  ASSUME events \in Seq(Row), ActivityReadable, Grows, NEW es \in Seq(Row), Log(es),
         \A k \in 1..Len(es) : SoundThen(es[k])
  PROVE  ActivityReadable' /\ EventsTyped' /\ events' \in Seq(Row)
<1>1. /\ events \in Seq(Row) /\ Len(events) \in Nat /\ DOMAIN events = 1..Len(events)
      /\ Len(es) \in Nat
  BY EventRows, LenProperties
<1>2. /\ events' \in Seq(Row) /\ Len(events') = Len(events) + Len(es)
      /\ \A i \in 1..Len(events) : events'[i] = events[i]
      /\ \A k \in 1..Len(es) : events'[Len(events) + k] = es[k]
  BY <1>1, ChronologyGrows
<1>3. DOMAIN events' = 1..(Len(events) + Len(es))
  BY <1>2, LenProperties
<1>4. ASSUME NEW i \in 1..(Len(events) + Len(es)) PROVE SoundThen(events'[i])
  <2>1. CASE i <= Len(events)
    <3>1. events'[i] = events[i] /\ i \in DOMAIN events
      BY <2>1, <1>1, <1>2
    <3>2. Sound(events[i])
      BY <3>1, <1>1, ElementOfSeq DEF ActivityReadable, Sound, VersionsOf
    <3> QED
      BY <3>1, <3>2 DEF Sound, SoundThen, Grows, VersionsOf
  <2>2. CASE ~(i <= Len(events))
    <3> DEFINE k == i - Len(events)
    <3>1. k \in 1..Len(es) /\ i = Len(events) + k
      BY <2>2, <1>1
    <3>2. events'[i] = es[k]
      BY <3>1, <1>2
    <3> QED
      BY <3>1, <3>2
  <2> QED
    BY <2>1, <2>2
<1>5. events' # <<>>
  <2>1. Len(events) # 0
    BY <1>1, EmptySeq DEF ActivityReadable
  <2> QED
    BY <2>1, <1>1, <1>2, EmptySeq
<1>6. ActivityReadable'
  BY <1>3, <1>4, <1>5 DEF ActivityReadable, SoundThen, VersionsOf
<1>7. EventsTyped'
  <2> DEFINE T == [type : {events'[i].type : i \in DOMAIN events'}, song : Song \cup {None},
                   version : DOMAIN versions' \cup {None}]
  <2>1. ASSUME NEW i \in 1..Len(events') PROVE events'[i] \in T
    BY <1>2, <1>3, <1>4 DEF SoundThen, Row
  <2> HIDE DEF T
  <2>2. events' \in Seq(T)
    BY <1>2, <2>1, SeqOver
  <2> QED
    BY <2>2 DEF EventsTyped, VersionId, T
<1> QED
  BY <1>2, <1>6, <1>7

\* A part of the stores that a step leaves alone is as good as it was.
LEMMA PartsStand ==
  ASSUME StoreInv, Grows
  PROVE  /\ UNCHANGED songs => SongsTyped' /\ PointersInv'
         /\ UNCHANGED active => LineageReadable' /\ active' \in Song \cup {None}
         /\ UNCHANGED <<versions, assets>> => VersionsTyped'
         /\ UNCHANGED assets => AssetsTyped'
         /\ UNCHANGED <<blobs, ingest>> => FilesTyped'
         /\ UNCHANGED decisions => DecisionsTyped' /\ DecisionsReadable'
         /\ UNCHANGED derivations => DerivationsTyped'
         /\ UNCHANGED sessionVars => SessionsTypeOK' /\ SessionsReadable'
         /\ UNCHANGED focuses => FocusTypeOK' /\ FocusReadable'
<1> USE DEF StoreInv
<1>1. ASSUME UNCHANGED songs PROVE SongsTyped' /\ PointersInv'
  <2>1. Known' = Known
    BY <1>1 DEF Known
  <2> QED
    BY <1>1, <2>1, LineageParts DEF SongsTyped, VersionId, PointersInv, Grows
<1>2. ASSUME UNCHANGED active PROVE LineageReadable' /\ active' \in Song \cup {None}
  BY <1>2, LineageParts DEF LineageReadable, Grows
<1>3. ASSUME UNCHANGED <<versions, assets>> PROVE VersionsTyped'
  BY <1>3, LineageParts DEF VersionsTyped, VersionId
<1>4. ASSUME UNCHANGED assets PROVE AssetsTyped'
  BY <1>4, LineageParts DEF AssetsTyped
<1>5. ASSUME UNCHANGED <<blobs, ingest>> PROVE FilesTyped'
  BY <1>5, LineageParts DEF FilesTyped
<1>6. ASSUME UNCHANGED decisions PROVE DecisionsTyped' /\ DecisionsReadable'
  <2>1. [song : Song, reference : DOMAIN versions, current : DOMAIN versions, judgment : Judgment]
          \subseteq [song : Song, reference : DOMAIN versions', current : DOMAIN versions',
                     judgment : Judgment]
    BY DEF Grows
  <2>2. DecisionsTyped'
    BY <1>6, <2>1, LineageParts, SeqMonotonic DEF DecisionsTyped
  <2>3. DecisionsReadable'
    BY <1>6 DEF DecisionsReadable, Grows
  <2> QED
    BY <2>2, <2>3
<1>7. ASSUME UNCHANGED derivations PROVE DerivationsTyped'
  <2>1. Object \subseteq Object'
    BY DEF Object, Grows
  <2>2. [song : Song, output : Object, input : Object \cup {External}]
          \subseteq [song : Song, output : Object', input : Object' \cup {External}]
    BY <2>1
  <2> QED
    BY <1>7, <2>2, LineageParts, SeqMonotonic DEF DerivationsTyped, External
<1>8. ASSUME UNCHANGED sessionVars PROVE SessionsTypeOK' /\ SessionsReadable'
  <2>1. UNCHANGED <<sessions, items>>
    BY <1>8 DEF sessionVars
  <2>2. [song : Song, version : {None} \cup DOMAIN versions, state : {"OPEN", "CLOSED"}]
          \subseteq [song : Song, version : {None} \cup DOMAIN versions',
                     state : {"OPEN", "CLOSED"}]
    BY DEF Grows
  <2>3. AllTerms \subseteq AllTerms'
    BY DEF AllTerms, Grows
  <2>4. [session : DOMAIN sessions, kind : Kind, written : BOOLEAN,
         request : {None} \cup AllTerms, claim : {None} \cup AllTerms]
          \subseteq [session : DOMAIN sessions, kind : Kind, written : BOOLEAN,
                     request : {None} \cup AllTerms', claim : {None} \cup AllTerms']
    BY <2>3
  <2>5. SessionsTypeOK'
    BY <2>1, <2>2, <2>4, SeqMonotonic DEF SessionsTypeOK, Kind
  <2>6. SessionsReadable'
    BY <2>1 DEF SessionsReadable, Terms, Grows
  <2> QED
    BY <2>5, <2>6
<1>9. ASSUME UNCHANGED focuses PROVE FocusTypeOK' /\ FocusReadable'
  BY <1>9 DEF FocusTypeOK, FocusReadable, Grows
<1> QED
  BY <1>1, <1>2, <1>3, <1>4, <1>5, <1>6, <1>7, <1>8, <1>9

-----------------------------------------------------------------------------
(* What the chronology tells *)

LEMMA LatestIs ==
  ASSUME SessionsTypeOK, NEW s
  PROVE  /\ SessionsOf(s) = {} => LatestForSong(s) = 0
         /\ SessionsOf(s) # {} => LatestForSong(s) \in SessionsOf(s)
         /\ \A i \in SessionsOf(s) : i <= LatestForSong(s)
         /\ Len(sessions) \in Nat /\ DOMAIN sessions = 1..Len(sessions)
<1>1. Len(sessions) \in Nat /\ DOMAIN sessions = 1..Len(sessions)
  BY LenProperties DEF SessionsTypeOK
<1>2. SessionsOf(s) \in SUBSET (1..Len(sessions))
  BY <1>1 DEF SessionsOf
<1>3. SessionsOf(s) # {} => \E i \in SessionsOf(s) : \A j \in SessionsOf(s) : j <= i
  BY <1>1, <1>2, GreatestOf
<1> QED
  BY <1>1, <1>3 DEF LatestForSong

LEMMA ActiveFocusIs ==
  ASSUME FocusTypeOK, FocusReadable
  PROVE  /\ Len(focuses) \in Nat /\ DOMAIN focuses = 1..Len(focuses)
         /\ ActiveFocus \in {0} \cup DOMAIN focuses
         /\ \A i \in DOMAIN focuses : focuses[i].state = "ACTIVE" <=> i = ActiveFocus
<1>1. Len(focuses) \in Nat /\ DOMAIN focuses = 1..Len(focuses)
  BY LenProperties DEF FocusTypeOK
<1> DEFINE on == {i \in DOMAIN focuses : focuses[i].state = "ACTIVE"}
<1>2. \A i, j \in on : i = j
  BY DEF FocusReadable
<1>3. on # {} => \E i \in on : \A j \in on : j <= i
  BY <1>1, <1>2
<1>4. ActiveFocus = IF on = {} THEN 0 ELSE CHOOSE i \in on : \A j \in on : j <= i
  BY DEF ActiveFocus
<1>5. on # {} => ActiveFocus \in on
  BY <1>3, <1>4
<1>6. on = {} => ActiveFocus = 0
  BY <1>4
<1> QED
  BY <1>1, <1>2, <1>5, <1>6

\* The types of a line that tell of the pointers, of the sessions and of the focus.
PointerTypes == {"CURRENT_VERSION_CHANGED", "VERSION_APPROVED"}
SessionTypes == {"SESSION_STARTED", "SESSION_CLOSED"}

TellsOf(es, types) == \E k \in 1..Len(es) : es[k].type \in types

\* Lines about other things leave it telling what it told.
LEMMA StillTold ==
  ASSUME StoreInv, NEW es \in Seq(Row), Log(es)
  PROVE  /\ UNCHANGED songs /\ ~TellsOf(es, PointerTypes) => PointersTold'
         /\ Known' = Known /\ UNCHANGED sessions /\ ~TellsOf(es, SessionTypes) => SessionsTold'
         /\ UNCHANGED focuses /\ ~TellsOf(es, FocusTypes) => FocusTold'
<1> USE DEF StoreInv
<1>1. events \in Seq(Row)
  BY EventRows
<1>2. ASSUME UNCHANGED songs, ~TellsOf(es, PointerTypes) PROVE PointersTold'
  <2>1. \A s : \A type \in PointerTypes : Lines(es, {type}, s) = {}
    BY <1>2 DEF TellsOf, Lines
  <2>2. \A s : \A type \in PointerTypes : LastVersion(type, s)' = LastVersion(type, s)
    <3> SUFFICES ASSUME NEW s, NEW type \in PointerTypes
                 PROVE  LastVersion(type, s)' = LastVersion(type, s)
      OBVIOUS
    <3>1. Lines(es, {type}, s) = {}
      BY <2>1
    <3> QED
      BY <1>1, <3>1, LastStays
  <2>3. Known' = Known
    BY <1>2 DEF Known
  <2> QED
    BY <1>2, <2>2, <2>3, ToldParts DEF PointersTold, PointerTypes
<1>3. ASSUME Known' = Known, UNCHANGED sessions, ~TellsOf(es, SessionTypes) PROVE SessionsTold'
  <2>1. \A s : \A type \in SessionTypes : Lines(es, {type}, s) = {}
    BY <1>3 DEF TellsOf, Lines
  <2>2. \A s : \A type \in SessionTypes : EventsOf({type}, s)' = EventsOf({type}, s)
    BY <1>1, <2>1, NothingNewTold
  <2>3. \A s : IsOpen(LatestForSong(s))' <=> IsOpen(LatestForSong(s))
    BY <1>3 DEF IsOpen, LatestForSong, SessionsOf
  <2> QED
    BY <1>3, <2>2, <2>3, ToldParts DEF SessionsTold, SessionTypes
<1>4. ASSUME UNCHANGED focuses, ~TellsOf(es, FocusTypes) PROVE FocusTold'
  <2>1. \A s : Lines(es, FocusTypes, s) = {}
    BY <1>4 DEF TellsOf, Lines
  <2>2. \A s : EventsOf(FocusTypes, s)' = EventsOf(FocusTypes, s)
    BY <1>1, <2>1, NothingNewTold
  <2>3. FocusEvents' = FocusEvents
    BY <2>2 DEF FocusEvents
  <2>4. \A i \in FocusEvents : events'[i] = events[i]
    BY <1>1, ChronologyGrows, EventRows DEF FocusEvents, EventsOf
  <2>5. ActiveFocus' = ActiveFocus
    BY <1>4 DEF ActiveFocus
  <2> QED
    BY <2>3, <2>4, <2>5, ToldParts DEF FocusTold
<1> QED
  BY <1>2, <1>3, <1>4

\* The last line about the focus tells whether one is on.
LEMMA FocusIsTold ==
  ASSUME events \in Seq(Row), NEW es \in Seq(Row), Log(es),
         NEW k \in 1..Len(es), es[k].type \in FocusTypes,
         \A j \in 1..Len(es) : es[j].type \in FocusTypes => j <= k,
         ActiveFocus' # 0 <=> es[k].type = "FOCUS_SESSION_STARTED"
  PROVE  FocusTold'
<1> DEFINE n == Len(events)
<1>1. n \in Nat /\ Len(es) \in Nat /\ events \in Seq(Row)
  BY EventRows, LenProperties
<1>2. /\ Len(events') = n + Len(es)
      /\ \A j \in 1..Len(es) : events'[n + j] = es[j]
  BY <1>1, ChronologyGrows
<1>3. FocusEvents' = {i \in 1..Len(events') : events'[i].type \in FocusTypes}
  <2>1. events' \in Seq(Row) /\ DOMAIN events' = 1..Len(events')
    BY <1>1, ChronologyGrows, LenProperties
  <2>2. \A i \in 1..Len(events') : events'[i].song \in Song \cup {None}
    <3>1. \A i \in 1..Len(events') : events'[i] \in Row
      BY <2>1, ElementOfSeq
    <3> QED
      BY <3>1 DEF Row
  <2>3. ASSUME NEW i \in FocusEvents' PROVE i \in 1..Len(events') /\ events'[i].type \in FocusTypes
    BY <2>1, <2>3 DEF FocusEvents, EventsOf
  <2>4. ASSUME NEW i \in 1..Len(events'), events'[i].type \in FocusTypes PROVE i \in FocusEvents'
    <3>1. PICK t \in Song \cup {None} : t = events'[i].song
      BY <2>2
    <3>2. i \in EventsOf(FocusTypes, t)'
      BY <2>1, <2>4, <3>1 DEF EventsOf
    <3> QED
      BY <3>2 DEF FocusEvents
  <2> QED
    BY <2>3, <2>4
<1>4. n + k \in FocusEvents' /\ events'[n + k].type = es[k].type
  BY <1>1, <1>2, <1>3
<1>5. ASSUME NEW i \in FocusEvents' PROVE i \in Nat /\ i <= n + k
  <2>1. i \in 1..(n + Len(es)) /\ events'[i].type \in FocusTypes
    BY <1>2, <1>3, <1>5
  <2>2. CASE i <= n
    BY <2>1, <2>2, <1>1
  <2>3. CASE ~(i <= n)
    <3>1. i - n \in 1..Len(es) /\ i = n + (i - n)
      BY <2>1, <2>3, <1>1
    <3>2. es[i - n].type \in FocusTypes
      BY <2>1, <3>1, <1>2
    <3> QED
      BY <3>1, <3>2, <1>1
  <2> QED
    BY <2>2, <2>3
<1>6. \A i \in FocusEvents' : (\A j \in FocusEvents' : j <= i) <=> i = n + k
  BY <1>1, <1>4, <1>5
<1> QED
  BY <1>4, <1>6 DEF FocusTold

-----------------------------------------------------------------------------
(* The actions of the stores *)

LEMMA EventIs ==
  ASSUME NEW type \in EventType, NEW s \in Song \cup {None}, NEW v \in Nat \cup {None}
  PROVE  /\ Event(type, s, v) \in Row
         /\ Event(type, s, v).type = type /\ Event(type, s, v).song = s
         /\ Event(type, s, v).version = v
BY DEF Event, Row

LEMMA FewLines ==
  ASSUME NEW e \in Row, NEW f \in Row
  PROVE  /\ <<e>> \in Seq(Row) /\ Len(<<e>>) = 1 /\ <<e>>[1] = e
         /\ <<e, f>> \in Seq(Row) /\ Len(<<e, f>>) = 2 /\ <<e, f>>[1] = e /\ <<e, f>>[2] = f
OBVIOUS

LEMMA NoLines ==
  ASSUME events \in Seq(Row), events' = events
  PROVE  <<>> \in Seq(Row) /\ Len(<<>>) = 0 /\ Log(<<>>)
BY EventRows, EmptySeq, ConcatEmptySeq DEF Log

\* A pointer of a Song that moves, with the line that says so.
LEMMA PointerTold ==
  ASSUME StoreInv, NEW es \in Seq(Row), Log(es), NEW s \in Known, NEW v \in Nat,
         NEW k \in 1..Len(es), es[k].song = s, es[k].version = v,
         \A j \in 1..Len(es) : j # k => es[j].type \notin PointerTypes,
         \/ /\ songs' = [songs EXCEPT ![s].current = v]
            /\ es[k].type = "CURRENT_VERSION_CHANGED"
         \/ /\ songs' = [songs EXCEPT ![s].approved = v]
            /\ es[k].type = "VERSION_APPROVED"
  PROVE  PointersTold'
<1> USE DEF StoreInv
<1>1. events \in Seq(Row) /\ songs \in [Song -> {None} \cup SongRow]
  BY EventRows, Ids
<1>2. /\ Known' = Known /\ s \in Song
      /\ \A t \in Song \ {s} : songs'[t] = songs[t]
  BY <1>1, PointerMoves DEF Known
<1>3. ASSUME NEW t, NEW type \in PointerTypes, t # s \/ es[k].type # type
      PROVE  LastVersion(type, t)' = LastVersion(type, t)
  <2>1. Lines(es, {type}, t) = {}
    BY <1>3 DEF Lines
  <2> QED
    BY <2>1, LastStays
<1>4. LastVersion(es[k].type, s)' = v
  <2>1. es[k].type \in PointerTypes
    BY DEF PointerTypes
  <2>2. Lines(es, {es[k].type}, s) = {k}
    BY <2>1 DEF Lines
  <2> DEFINE type == es[k].type
  <2>3. k \in Lines(es, {type}, s) /\ \A j \in Lines(es, {type}, s) : j <= k
    <3>1. k \in Nat /\ k <= k
      BY LenProperties
    <3>2. k \in {k} /\ \A j \in {k} : j <= k
      BY <3>1
    <3> QED
      BY <2>2, <3>2
  <2> HIDE DEF type
  <2>4. LastVersion(type, s)' = es[k].version
    BY <1>1, <2>3, LastIsTold
  <2> QED
    BY <2>4 DEF type
<1>5. PointersTold
  BY ToldParts
<1>6. CASE songs' = [songs EXCEPT ![s].current = v] /\ es[k].type = "CURRENT_VERSION_CHANGED"
  <2>1. songs'[s].current = v /\ songs'[s].approved = songs[s].approved
    BY <1>1, <1>6, PointerMoves
  <2>2. LastVersion("CURRENT_VERSION_CHANGED", s)' = v
    BY <1>4, <1>6
  <2>3. LastVersion("VERSION_APPROVED", s)' = LastVersion("VERSION_APPROVED", s)
    BY <1>3, <1>6 DEF PointerTypes
  <2>4. \A t \in Known \ {s} : \A type \in PointerTypes :
          LastVersion(type, t)' = LastVersion(type, t)
    BY <1>3
  <2> QED
    BY <1>2, <1>5, <2>1, <2>2, <2>3, <2>4 DEF PointersTold, PointerTypes, Known
<1>7. CASE songs' = [songs EXCEPT ![s].approved = v] /\ es[k].type = "VERSION_APPROVED"
  <2>1. songs'[s].approved = v /\ songs'[s].current = songs[s].current
    BY <1>1, <1>7, PointerMoves
  <2>2. LastVersion("VERSION_APPROVED", s)' = v
    BY <1>4, <1>7
  <2>3. LastVersion("CURRENT_VERSION_CHANGED", s)' = LastVersion("CURRENT_VERSION_CHANGED", s)
    BY <1>3, <1>7 DEF PointerTypes
  <2>4. \A t \in Known \ {s} : \A type \in PointerTypes :
          LastVersion(type, t)' = LastVersion(type, t)
    BY <1>3
  <2> QED
    BY <1>2, <1>5, <2>1, <2>2, <2>3, <2>4 DEF PointersTold, PointerTypes, Known
<1> QED
  BY <1>6, <1>7

\* StartSong: the new Song has no line but its own.
LEMMA SongIsCreated ==
  ASSUME StoreInv, NEW s \in Song, CreateSong(s), UNCHANGED <<sessionVars, focuses>>
  PROVE  StoreInv'
<1> USE DEF StoreInv
<1> DEFINE e1 == Event("SONG_CREATED", s, None)  e2 == Event("SONG_SELECTED", s, None)
           es == <<e1, e2>>  row == [current |-> None, approved |-> None]
<1>1. /\ songs' = [songs EXCEPT ![s] = row] /\ active' = s /\ songs[s] = None /\ Log(es)
      /\ UNCHANGED <<versions, assets, blobs, ingest, decisions, derivations>>
  BY DEF CreateSong
<1>2. /\ e1 \in Row /\ e1.type = "SONG_CREATED" /\ e1.song = s /\ e1.version = None
      /\ e2 \in Row /\ e2.type = "SONG_SELECTED" /\ e2.song = s /\ e2.version = None
  <2>1. "SONG_CREATED" \in EventType /\ "SONG_SELECTED" \in EventType
    BY DEF EventType
  <2>2. s \in Song \cup {None} /\ None \in Nat \cup {None}
    OBVIOUS
  <2>3. e1 \in Row /\ e1.type = "SONG_CREATED" /\ e1.song = s /\ e1.version = None
    BY <2>1, <2>2 DEF Event, Row
  <2>4. e2 \in Row /\ e2.type = "SONG_SELECTED" /\ e2.song = s /\ e2.version = None
    BY <2>1, <2>2 DEF Event, Row
  <2> QED
    BY <2>3, <2>4
<1> HIDE DEF e1, e2
<1>3. /\ es \in Seq(Row) /\ Len(es) = 2 /\ es[1] = e1 /\ es[2] = e2
      /\ \A k \in 1..Len(es) : es[k] \in {e1, e2}
  BY <1>2, FewLines
<1> HIDE DEF es
<1>4. row \in SongRow /\ row # None /\ row.current = None /\ row.approved = None
  BY NoneAssumption DEF SongRow
<1>5. songs \in [Song -> {None} \cup SongRow]
  BY Ids
<1>6. /\ songs'[s] = row /\ \A t \in Song \ {s} : songs'[t] = songs[t]
      /\ songs' = [t \in Song |-> IF t = s THEN row ELSE songs[t]]
  BY <1>1, <1>5
<1>7. Known' = Known \cup {s} /\ s \notin Known
  BY <1>1, <1>4, <1>6 DEF Known
<1>8. Grows
  BY <1>1, <1>7 DEF Grows, VersionsOf
<1>9. ActivityReadable' /\ EventsTyped' /\ events' \in Seq(Row)
  <2>1. \A k \in 1..Len(es) : SoundThen(es[k])
    BY <1>2, <1>3, <1>7 DEF SoundThen
  <2> QED
    BY <1>1, <1>3, <1>8, <2>1, ActivityStands
<1>10. SongsTyped' /\ active' \in Song \cup {None}
  <2>1. SongsTyped /\ row \in [current : VersionId, approved : VersionId] /\ VersionId' = VersionId
    BY <1>1, LineageParts DEF VersionId
  <2> QED
    BY <1>1, <1>6, <2>1 DEF SongsTyped
<1>11. PointersInv' /\ LineageReadable'
  <2>1. \A t : VersionsOf(t)' = VersionsOf(t)
    BY <1>1 DEF VersionsOf
  <2>2. PointersInv'
    BY <1>4, <1>6, <1>7, <2>1 DEF PointersInv, Known
  <2> QED
    BY <1>1, <1>7, <2>2 DEF LineageReadable
<1>12. events \in Seq(Row) /\ Log(es)
  BY <1>1, EventRows
<1>13. \A types : EventsOf(types, s) = {}
  BY <1>7, NoneAssumption DEF EventsOf, ActivityReadable
<1>14. \A t : \A type \in PointerTypes \cup SessionTypes : Lines(es, {type}, t) = {}
  BY <1>2, <1>3 DEF Lines, PointerTypes, SessionTypes
<1>15. PointersTold'
  <2>1. ASSUME NEW t, NEW type \in PointerTypes PROVE LastVersion(type, t)' = LastVersion(type, t)
    <3>1. Lines(es, {type}, t) = {}
      BY <1>14
    <3> QED
      BY <1>3, <1>12, <3>1, LastStays
  <2>2. \A type : LastVersion(type, s) = None
    BY <1>13 DEF LastVersion
  <2> QED
    BY <1>4, <1>6, <1>7, <2>1, <2>2, ToldParts DEF PointersTold, PointerTypes, Known
<1>16. SessionsTold'
  <2>1. UNCHANGED sessions
    BY DEF sessionVars
  <2>2. ASSUME NEW t, NEW type \in SessionTypes
        PROVE  EventsOf({type}, t)' = EventsOf({type}, t)
    <3>1. Lines(es, {type}, t) = {}
      BY <1>14
    <3> QED
      BY <1>3, <1>12, <3>1, NothingNewTold
  <2>3. \A t : IsOpen(LatestForSong(t))' <=> IsOpen(LatestForSong(t))
    BY <2>1 DEF IsOpen, LatestForSong, SessionsOf
  <2>4. ~IsOpen(LatestForSong(s))
    <3>1. SessionsOf(s) = {}
      BY <1>7 DEF SessionsOf, SessionsReadable
    <3> QED
      BY <3>1, LatestIs DEF IsOpen
  <2>5. \A t \in Known' : t \in Known \/ t = s
    BY <1>7
  <2>6. \A type : EventsOf({type}, s) = {}
    BY <1>13
  <2> QED
    BY <2>2, <2>3, <2>4, <2>5, <2>6, ToldParts DEF SessionsTold, SessionTypes
<1>17. FocusTold'
  <2>1. ~TellsOf(es, FocusTypes)
    BY <1>2, <1>3 DEF TellsOf, FocusTypes
  <2> QED
    BY <1>1, <1>3, <2>1, StillTold
<1>18. /\ VersionsTyped' /\ AssetsTyped' /\ FilesTyped' /\ DecisionsTyped' /\ DerivationsTyped'
       /\ DecisionsReadable' /\ SessionsTypeOK' /\ SessionsReadable' /\ FocusTypeOK'
       /\ FocusReadable'
  BY <1>1, <1>8, PartsStand
<1> QED
  BY <1>9, <1>10, <1>11, <1>15, <1>16, <1>17, <1>18, LineagePartsAfter, ToldPartsAfter

-----------------------------------------------------------------------------
(* Versions, decisions and files *)

LEMMA Appended ==
  ASSUME NEW S, NEW q \in Seq(S), NEW e \in S, NEW r, r = Append(q, e)
  PROVE  /\ Len(q) \in Nat /\ DOMAIN q = 1..Len(q)
         /\ r \in Seq(S) /\ Len(r) = Len(q) + 1 /\ DOMAIN r = 1..(Len(q) + 1)
         /\ \A i \in 1..Len(q) : r[i] = q[i]
         /\ r[Len(q) + 1] = e
BY AppendProperties, LenProperties

LEMMA VersionIds ==
  ASSUME LineageTypeOK
  PROVE  \A s : VersionsOf(s) \subseteq DOMAIN versions /\ VersionsOf(s) \subseteq Nat
BY Ids DEF VersionsOf

\* A step that writes one line, about a Song and a Version of it.
LEMMA SingleLine ==
  ASSUME StoreInv, Grows, NEW type \in EventType, NEW s, s \in Known' \cup {None},
         NEW v \in Nat \cup {None}, v # None => v \in VersionsOf(s)', Log(<<Event(type, s, v)>>)
  PROVE  /\ ActivityReadable' /\ EventsTyped' /\ events' \in Seq(Row)
         /\ UNCHANGED songs /\ type \notin PointerTypes => PointersTold'
         /\ Known' = Known /\ UNCHANGED sessions /\ type \notin SessionTypes => SessionsTold'
         /\ UNCHANGED focuses /\ type \notin FocusTypes => FocusTold'
<1> DEFINE e == Event(type, s, v)  es == <<e>>
<1>1. s \in Song \cup {None}
  BY DEF Known
<1>2. e \in Row /\ e.type = type /\ e.song = s /\ e.version = v
  BY <1>1, EventIs
<1>3. Log(es)
  OBVIOUS
<1> HIDE DEF e
<1>4. es \in Seq(Row) /\ Len(es) = 1 /\ es[1] = e
  BY <1>2, FewLines
<1> HIDE DEF es
<1>5. \A k \in 1..Len(es) : k = 1 /\ es[k] = e
  BY <1>4
<1>6. SoundThen(e)
  BY <1>2 DEF SoundThen, VersionsOf
<1>7. ActivityReadable' /\ EventsTyped' /\ events' \in Seq(Row)
  <2>1. \A k \in 1..Len(es) : SoundThen(es[k])
    BY <1>5, <1>6
  <2>2. events \in Seq(Row) /\ ActivityReadable
    BY DEF StoreInv
  <2> QED
    BY <1>3, <1>4, <2>1, <2>2, ActivityStands
<1>8. \A types : TellsOf(es, types) => type \in types
  BY <1>2, <1>5 DEF TellsOf
<1> QED
  BY <1>3, <1>4, <1>7, <1>8, StillTold

LEMMA StoreInvAfter ==
  ASSUME SongsTyped', active' \in Song \cup {None}, VersionsTyped', AssetsTyped', FilesTyped',
         DecisionsTyped', DerivationsTyped', EventsTyped', events' \in Seq(Row),
         PointersInv', LineageReadable', ActivityReadable', DecisionsReadable',
         SessionsTypeOK', SessionsReadable', FocusTypeOK', FocusReadable',
         PointersTold', SessionsTold', FocusTold'
  PROVE  StoreInv'
BY LineagePartsAfter, ToldPartsAfter DEF StoreInv

\* The two writers of a pointer of a Song.
LEMMA PointerIsMoved ==
  ASSUME StoreInv, NEW s, NEW v, SetCurrentVersion(s, v) \/ ApproveVersion(s, v),
         UNCHANGED <<sessionVars, focuses>>
  PROVE  StoreInv'
<1>1. PICK type \in PointerTypes :
        /\ Log(<<Event(type, s, v)>>)
        /\ \/ type = "CURRENT_VERSION_CHANGED" /\ songs' = [songs EXCEPT ![s].current = v]
           \/ type = "VERSION_APPROVED" /\ songs' = [songs EXCEPT ![s].approved = v]
  BY DEF SetCurrentVersion, ApproveVersion, PointerTypes
<1>2. /\ s \in Known /\ v \in VersionsOf(s)
      /\ UNCHANGED <<active, versions, assets, blobs, ingest, decisions, derivations>>
  BY DEF SetCurrentVersion, ApproveVersion
<1>3. LineageTypeOK /\ songs \in [Song -> {None} \cup SongRow] /\ v \in Nat /\ s \in Song
  BY <1>2, Ids, VersionIds DEF StoreInv, Known
<1>4. /\ Known' = Known /\ \A t \in Song \ {s} : songs'[t] = songs[t]
      /\ {songs'[s].current, songs'[s].approved} \subseteq {v, songs[s].current, songs[s].approved}
  BY <1>1, <1>2, <1>3, PointerMoves
<1>5. Grows /\ \A t : VersionsOf(t)' = VersionsOf(t)
  BY <1>2, <1>4 DEF Grows, VersionsOf
<1>6. PointersInv'
  <2>1. ASSUME NEW t \in Known
        PROVE  {songs'[t].current, songs'[t].approved} \subseteq VersionsOf(t) \cup {None}
    BY <1>2, <1>4 DEF StoreInv, PointersInv, Known
  <2> QED
    BY <1>4, <1>5, <2>1 DEF PointersInv
<1>7. SongsTyped'
  <2>1. SongsTyped /\ v \in VersionId /\ VersionId' = VersionId
    BY <1>2, <1>3, LineageParts DEF VersionId, VersionsOf
  <2> DEFINE SR == [current : VersionId, approved : VersionId]
  <2>2. songs[s] \in SR
    BY <1>2, <2>1 DEF SongsTyped, Known
  <2>3. [songs[s] EXCEPT !.current = v] \in SR /\ [songs[s] EXCEPT !.approved = v] \in SR
    BY <2>1, <2>2
  <2>4. \E r \in SR : songs' = [songs EXCEPT ![s] = r]
    BY <1>1, <2>3
  <2>5. songs' \in [Song -> {None} \cup SR]
    BY <2>1, <2>4 DEF SongsTyped
  <2> QED
    BY <2>1, <2>5 DEF SongsTyped
<1> DEFINE e == Event(type, s, v)  es == <<e>>
<1>8. type \in EventType /\ type \notin SessionTypes /\ type \notin FocusTypes
  BY DEF PointerTypes, EventType, SessionTypes, FocusTypes
<1>9. /\ ActivityReadable' /\ EventsTyped' /\ events' \in Seq(Row) /\ SessionsTold' /\ FocusTold'
  BY <1>1, <1>2, <1>3, <1>4, <1>5, <1>8, SingleLine DEF sessionVars
<1>10. e \in Row /\ e.type = type /\ e.song = s /\ e.version = v
  BY <1>3, <1>8, EventIs
<1>11. Log(es)
  BY <1>1
<1> HIDE DEF e
<1>12. es \in Seq(Row) /\ Len(es) = 1 /\ es[1] = e
  BY <1>10, FewLines
<1> HIDE DEF es
<1>13. PointersTold'
  <2>1. 1 \in 1..Len(es) /\ \A j \in 1..Len(es) : j = 1
    BY <1>12
  <2> QED
    BY <1>1, <1>2, <1>3, <1>10, <1>11, <1>12, <2>1, PointerTold
<1> QED
  BY <1>2, <1>5, <1>6, <1>7, <1>9, <1>13, PartsStand, StoreInvAfter

LEMMA DecisionIsRecorded ==
  ASSUME StoreInv, NEW b, NEW judgment \in Judgment, RecordDecision(b, judgment),
         UNCHANGED <<sessionVars, focuses>>
  PROVE  StoreInv'
<1> DEFINE row == [song |-> b.song, reference |-> b.reference, current |-> b.current,
                   judgment |-> judgment]
           D == [song : Song, reference : DOMAIN versions, current : DOMAIN versions,
                 judgment : Judgment]
           type == "VERSION_COMPARE_DECISION_RECORDED"
<1>1. /\ active = b.song /\ b.reference # b.current
      /\ b.reference \in VersionsOf(b.song) /\ b.current \in VersionsOf(b.song)
      /\ decisions' = Append(decisions, row) /\ Log(<<Event(type, b.song, b.current)>>)
      /\ UNCHANGED <<songs, active, versions, assets, blobs, ingest, derivations>>
  BY DEF RecordDecision
<1>2. LineageTypeOK /\ VersionsTyped /\ DecisionsTyped
  BY LineageParts DEF StoreInv
<1>3. b.song \in Song
  <2>1. versions[b.current] \in
          [song : Song, ordinal : Nat \ {0}, parent : VersionId, assets : SUBSET DOMAIN assets]
    BY <1>1, <1>2, ElementOfSeq, Ids DEF VersionsTyped, VersionsOf
  <2> QED
    BY <1>1, <2>1 DEF VersionsOf
<1>4. b.song \in Known
  BY <1>1, <1>3, NoneAssumption DEF StoreInv, LineageReadable
<1>5. Known' = Known /\ \A t : VersionsOf(t)' = VersionsOf(t)
  BY <1>1 DEF Known, VersionsOf
<1>6. Grows
  BY <1>1, <1>5 DEF Grows
<1>7. row \in D /\ decisions \in Seq(D)
  BY <1>1, <1>2, <1>3 DEF DecisionsTyped, VersionsOf
<1>8. row.song = b.song /\ row.reference = b.reference /\ row.current = b.current
  OBVIOUS
<1> HIDE DEF row, D
<1>9. /\ decisions' \in Seq(D) /\ Len(decisions) \in Nat /\ DOMAIN decisions = 1..Len(decisions)
      /\ DOMAIN decisions' = 1..(Len(decisions) + 1)
      /\ \A i \in 1..Len(decisions) : decisions'[i] = decisions[i]
      /\ decisions'[Len(decisions) + 1] = row
  BY <1>1, <1>7, Appended
<1>10. DecisionsTyped'
  BY <1>1, <1>9 DEF DecisionsTyped, D
<1>11. DecisionsReadable'
  <2>1. ASSUME NEW i \in 1..(Len(decisions) + 1)
        PROVE  /\ decisions'[i].song \in Known /\ decisions'[i].reference # decisions'[i].current
               /\ {decisions'[i].reference, decisions'[i].current}
                    \subseteq VersionsOf(decisions'[i].song)
    <3>1. CASE i \in 1..Len(decisions)
      BY <3>1, <1>9 DEF StoreInv, DecisionsReadable
    <3>2. CASE i = Len(decisions) + 1
      BY <3>2, <1>1, <1>4, <1>8, <1>9
    <3> QED
      BY <3>1, <3>2, <1>9
  <2> QED
    BY <1>5, <1>9, <2>1 DEF DecisionsReadable
<1>12. /\ type \in EventType /\ type \notin PointerTypes /\ type \notin SessionTypes
       /\ type \notin FocusTypes
  BY DEF PointerTypes, EventType, SessionTypes, FocusTypes
<1>13. b.song \in Known' /\ b.current \in Nat /\ b.current \in VersionsOf(b.song)'
  BY <1>1, <1>2, <1>4, <1>5, VersionIds
<1> HIDE DEF type
<1>14. /\ ActivityReadable' /\ EventsTyped' /\ events' \in Seq(Row)
       /\ PointersTold' /\ SessionsTold' /\ FocusTold'
  BY <1>1, <1>5, <1>6, <1>12, <1>13, SingleLine DEF sessionVars
<1> QED
  BY <1>1, <1>6, <1>10, <1>11, <1>14, PartsStand, StoreInvAfter

\* Steps on the files alone write no line.
LEMMA FilesChange ==
  ASSUME StoreInv, FilesTyped',
         UNCHANGED <<songs, active, versions, assets, decisions, derivations, events,
                     sessionVars, focuses>>
  PROVE  StoreInv'
<1>1. Known' = Known /\ \A t : VersionsOf(t)' = VersionsOf(t)
  BY DEF Known, VersionsOf
<1>2. Grows
  BY <1>1 DEF Grows
<1>3. events \in Seq(Row) /\ ActivityReadable
  BY DEF StoreInv
<1> DEFINE es == <<>>
<1>4. es \in Seq(Row) /\ Len(es) = 0 /\ Log(es)
  BY <1>3, NoLines
<1> HIDE DEF es
<1>5. ActivityReadable' /\ EventsTyped' /\ events' \in Seq(Row)
  <2>1. \A k \in 1..Len(es) : SoundThen(es[k])
    BY <1>4
  <2> QED
    BY <1>2, <1>3, <1>4, <2>1, ActivityStands
<1>6. PointersTold' /\ SessionsTold' /\ FocusTold'
  <2>1. \A types : ~TellsOf(es, types)
    BY <1>4 DEF TellsOf
  <2> QED
    BY <1>1, <1>4, <2>1, StillTold DEF sessionVars
<1> QED
  BY <1>2, <1>5, <1>6, PartsStand, StoreInvAfter

LEMMA FilesMove ==
  ASSUME StoreInv,
         \/ \E s, d : d \in Digest /\ InstallBlob(s, d)
         \/ \E d \in Digest : Damage(d)
         \/ ImportFails,
         UNCHANGED <<sessionVars, focuses>>
  PROVE  StoreInv'
<1>1. FilesTyped
  BY LineageParts DEF StoreInv
<1>2. ASSUME NEW s, NEW d \in Digest, InstallBlob(s, d) PROVE FilesTyped'
  BY <1>1, <1>2 DEF FilesTyped, InstallBlob, Known
<1>3. ASSUME NEW d \in Digest, Damage(d) PROVE FilesTyped'
  BY <1>1, <1>3 DEF FilesTyped, Damage
<1>4. ASSUME ImportFails PROVE FilesTyped'
  BY <1>1, <1>4 DEF FilesTyped, ImportFails
<1>5. FilesTyped' /\ UNCHANGED <<songs, active, versions, assets, decisions, derivations, events>>
  BY <1>2, <1>3, <1>4 DEF InstallBlob, Damage, ImportFails
<1> QED
  BY <1>5, FilesChange

LEMMA ThreeLines ==
  ASSUME NEW e \in Row, NEW f \in Row, NEW g \in Row, NEW es, es = <<e>> \o (<<f>> \o <<g>>)
  PROVE  es \in Seq(Row) /\ Len(es) = 3 /\ es[1] = e /\ es[2] = f /\ es[3] = g
<1> DEFINE fg == <<f>> \o <<g>>
<1>1. fg \in Seq(Row) /\ Len(fg) = 2 /\ fg[1] = f /\ fg[2] = g
  BY FewLines, ConcatProperties
<1> HIDE DEF fg
<1>2. <<e>> \in Seq(Row) /\ Len(<<e>>) = 1 /\ <<e>>[1] = e
  BY FewLines
<1>3. /\ es \in Seq(Row) /\ Len(es) = Len(<<e>>) + Len(fg)
      /\ \A i \in 1..(Len(<<e>>) + Len(fg)) :
           es[i] = IF i <= Len(<<e>>) THEN <<e>>[i] ELSE fg[i - Len(<<e>>)]
  BY <1>1, <1>2, ConcatProperties DEF fg
<1> QED
  BY <1>1, <1>2, <1>3

\* The rows of an import: an asset, the Version made of it, and the pointer to it.
LEMMA ImportIsCommitted ==
  ASSUME StoreInv, CommitImport, NEW s \in Known, s = ingest.song,
         NEW v, v = Len(versions) + 1, NEW a, a = Len(assets) + 1,
         UNCHANGED <<sessionVars, focuses>>
  PROVE  StoreInv'
<1> DEFINE file == [song |-> s, digest |-> ingest.digest, managed |-> TRUE]
           row == [song |-> s, ordinal |-> NextOrdinal(s), parent |-> songs[s].current,
                   assets |-> {a}]
           F == [song : Song, digest : Digest, managed : BOOLEAN]
           R == [song : Song, ordinal : Nat \ {0}, parent : VersionId,
                 assets : SUBSET DOMAIN assets]
           R2 == [song : Song, ordinal : Nat \ {0}, parent : DOMAIN versions' \cup {None},
                  assets : SUBSET DOMAIN assets']
           e1 == Event("ASSET_ATTACHED", s, None)
           e2 == Event("VERSION_CREATED", s, v)
           e3 == Event("CURRENT_VERSION_CHANGED", s, v)
           es == <<e1>> \o (<<e2>> \o <<e3>>)
<1>1. /\ ingest # None /\ ingest' = None /\ UNCHANGED <<active, blobs, decisions, derivations>>
      /\ assets' = Append(assets, file) /\ versions' = Append(versions, row)
      /\ songs' = [songs EXCEPT ![s].current = v]
      /\ Log(<<e1>> \o (<<e2>> \o <<e3>>))
  BY DEF CommitImport, NewVersion, VersionEvents
<1>2. /\ LineageTypeOK /\ SongsTyped /\ VersionsTyped /\ AssetsTyped /\ FilesTyped
      /\ songs \in [Song -> {None} \cup SongRow]
  BY LineageParts, Ids DEF StoreInv
<1>3. s \in Known /\ s \in Song /\ ingest.digest \in Digest
  BY <1>1, <1>2 DEF FilesTyped, Known
<1>4. /\ Len(assets) \in Nat /\ DOMAIN assets = 1..Len(assets) /\ assets' \in Seq(F)
      /\ DOMAIN assets' = 1..(Len(assets) + 1)
  <2>1. file \in F /\ assets \in Seq(F)
    BY <1>2, <1>3 DEF AssetsTyped
  <2> HIDE DEF file, F
  <2> QED
    BY <1>1, <2>1, Appended
<1>5. NextOrdinal(s) \in Nat \ {0}
  <2>1. IsFiniteSet(DOMAIN versions)
    BY <1>2, Ids, FS_Interval
  <2>2. IsFiniteSet(VersionsOf(s))
    BY <2>1, FS_Subset DEF VersionsOf
  <2> QED
    BY <2>2, FS_CardinalityType DEF NextOrdinal
<1>6. /\ Len(versions) \in Nat /\ DOMAIN versions = 1..Len(versions) /\ v \in Nat
      /\ versions \in Seq(R) /\ songs[s].current \in VersionId
  <2>1. songs[s] \in [current : VersionId, approved : VersionId]
    BY <1>2, <1>3 DEF SongsTyped, Known
  <2> QED
    BY <1>2, <2>1, Ids DEF VersionsTyped
<1>7. /\ row.song = s /\ row.parent = songs[s].current /\ row.assets = {a}
      /\ row.ordinal = NextOrdinal(s)
  OBVIOUS
<1>8. DOMAIN row = {"song", "ordinal", "parent", "assets"}
  OBVIOUS
<1> DEFINE Any == R \cup {row}
<1> HIDE DEF row
<1>9. /\ DOMAIN versions' = 1..v /\ Len(versions') = v /\ versions' \in Seq(Any)
      /\ \A i \in 1..Len(versions) : versions'[i] = versions[i]
      /\ versions'[v] = row
  <2>1. versions \in Seq(Any) /\ row \in Any
    <3>1. R \subseteq Any
      OBVIOUS
    <3> HIDE DEF R
    <3> QED
      BY <1>6, <3>1, SeqMonotonic
  <2> HIDE DEF Any
  <2> QED
    BY <1>1, <2>1, Appended
<1>10. DOMAIN versions \subseteq DOMAIN versions' /\ DOMAIN assets \subseteq DOMAIN assets'
       /\ v \in DOMAIN versions' /\ a \in DOMAIN assets'
       /\ VersionId \subseteq DOMAIN versions' \cup {None}
  BY <1>4, <1>6, <1>9 DEF VersionId
<1>11. VersionsTyped'
  <2>1. row \in R2
    <3>1. row = [song |-> s, ordinal |-> NextOrdinal(s), parent |-> songs[s].current,
                 assets |-> {a}]
      BY DEF row
    <3> QED
      BY <1>3, <1>5, <1>6, <1>10, <3>1
  <2>2. R \subseteq R2
    BY <1>10
  <2>3. versions' \in Seq(R2)
    <3>1. Any \subseteq R2
      BY <2>1, <2>2
    <3> HIDE DEF Any, R2
    <3> QED
      BY <1>9, <3>1, SeqMonotonic
  <2> QED
    BY <2>3 DEF VersionsTyped, VersionId
<1>12. AssetsTyped' /\ FilesTyped'
  BY <1>1, <1>2, <1>4 DEF AssetsTyped, FilesTyped
<1>13. /\ Known' = Known /\ \A t \in Song \ {s} : songs'[t] = songs[t]
       /\ songs'[s].current = v /\ songs'[s].approved = songs[s].approved
  BY <1>1, <1>2, <1>3, <1>6, PointerMoves
<1>14. /\ \A t : VersionsOf(t) \subseteq VersionsOf(t)'
       /\ v \in VersionsOf(s)'
  <2>1. ASSUME NEW t, NEW i \in VersionsOf(t) PROVE i \in VersionsOf(t)'
    <3>1. i \in 1..Len(versions) /\ versions[i].song = t
      BY <1>6 DEF VersionsOf
    <3>2. versions'[i].song = t /\ i \in DOMAIN versions'
      BY <1>9, <1>10, <1>6, <3>1
    <3> QED
      BY <3>2 DEF VersionsOf
  <2>2. v \in VersionsOf(s)'
    BY <1>7, <1>9, <1>10 DEF VersionsOf
  <2> QED
    BY <2>1, <2>2
<1>15. Grows
  BY <1>10, <1>13, <1>14 DEF Grows
<1>16. PointersInv'
  <2>1. ASSUME NEW t \in Known
        PROVE  {songs'[t].current, songs'[t].approved} \subseteq VersionsOf(t)' \cup {None}
    <3>1. {songs[t].current, songs[t].approved} \subseteq VersionsOf(t)' \cup {None}
      BY <1>14 DEF StoreInv, PointersInv
    <3>2. CASE t = s
      BY <3>1, <3>2, <1>13, <1>14
    <3>3. CASE t # s
      BY <3>1, <3>3, <1>13 DEF Known
    <3> QED
      BY <3>2, <3>3
  <2> QED
    BY <1>13, <2>1 DEF PointersInv
<1>17. SongsTyped'
  <2> DEFINE SR == [current : VersionId, approved : VersionId]
             SR2 == [current : DOMAIN versions' \cup {None},
                     approved : DOMAIN versions' \cup {None}]
  <2>1. songs[s] \in SR /\ SR \subseteq SR2
    BY <1>2, <1>3, <1>10 DEF SongsTyped, Known
  <2>2. [songs[s] EXCEPT !.current = v] \in SR2
    BY <2>1, <1>10
  <2>3. \E r \in SR2 : songs' = [songs EXCEPT ![s] = r]
    BY <1>1, <2>2
  <2>4. songs \in [Song -> {None} \cup SR]
    BY <1>2 DEF SongsTyped
  <2> HIDE DEF SR, SR2
  <2>5. songs' \in [Song -> {None} \cup SR2]
    BY <2>1, <2>3, <2>4
  <2> QED
    BY <2>5 DEF SR2, SongsTyped, VersionId
<1>18. /\ e1 \in Row /\ e1.type = "ASSET_ATTACHED" /\ e1.song = s /\ e1.version = None
       /\ e2 \in Row /\ e2.type = "VERSION_CREATED" /\ e2.song = s /\ e2.version = v
       /\ e3 \in Row /\ e3.type = "CURRENT_VERSION_CHANGED" /\ e3.song = s /\ e3.version = v
  <2>1. {"ASSET_ATTACHED", "VERSION_CREATED", "CURRENT_VERSION_CHANGED"} \subseteq EventType
    BY DEF EventType
  <2>2. e1 \in Row /\ e1.type = "ASSET_ATTACHED" /\ e1.song = s /\ e1.version = None
    BY <1>3, <2>1 DEF Event, Row
  <2>3. e2 \in Row /\ e2.type = "VERSION_CREATED" /\ e2.song = s /\ e2.version = v
    BY <1>3, <1>6, <2>1 DEF Event, Row
  <2>4. e3 \in Row /\ e3.type = "CURRENT_VERSION_CHANGED" /\ e3.song = s /\ e3.version = v
    BY <1>3, <1>6, <2>1 DEF Event, Row
  <2> QED
    BY <2>2, <2>3, <2>4
<1> HIDE DEF e1, e2, e3
<1>19. /\ es \in Seq(Row) /\ Len(es) = 3 /\ es[1] = e1 /\ es[2] = e2 /\ es[3] = e3 /\ Log(es)
  BY <1>1, <1>18, ThreeLines
<1> HIDE DEF es
<1>20. \A k \in 1..Len(es) : k \in 1..3 /\ es[k] \in {e1, e2, e3} /\ (k # 3 => es[k] \in {e1, e2})
  BY <1>19
<1>21. ActivityReadable' /\ EventsTyped' /\ events' \in Seq(Row)
  <2>1. s \in Known' /\ v \in DOMAIN versions' /\ versions'[v].song = s
    BY <1>3, <1>7, <1>9, <1>10, <1>13
  <2>2. SoundThen(e1) /\ SoundThen(e2) /\ SoundThen(e3)
    BY <1>18, <2>1 DEF SoundThen
  <2>3. \A k \in 1..Len(es) : SoundThen(es[k])
    BY <1>20, <2>2
  <2>4. events \in Seq(Row) /\ ActivityReadable
    BY DEF StoreInv
  <2> QED
    BY <1>15, <1>19, <2>3, <2>4, ActivityStands
<1>22. PointersTold'
  <2>1. 3 \in 1..Len(es) /\ \A j \in 1..Len(es) : j # 3 => es[j].type \notin PointerTypes
    BY <1>18, <1>19, <1>20 DEF PointerTypes
  <2>2. es[3].song = s /\ es[3].version = v /\ es[3].type = "CURRENT_VERSION_CHANGED"
    BY <1>18, <1>19
  <2> QED
    BY <1>1, <1>3, <1>6, <1>19, <2>1, <2>2, PointerTold
<1>23. SessionsTold' /\ FocusTold'
  <2>1. ~TellsOf(es, SessionTypes) /\ ~TellsOf(es, FocusTypes)
    BY <1>18, <1>20 DEF TellsOf, SessionTypes, FocusTypes
  <2> QED
    BY <1>13, <1>19, <2>1, StillTold DEF sessionVars
<1> QED
  BY <1>1, <1>11, <1>12, <1>15, <1>16, <1>17, <1>21, <1>22, <1>23, PartsStand, StoreInvAfter

-----------------------------------------------------------------------------
(* The work sessions *)

LEMMA RecordsSame ==
  ASSUME UNCHANGED recordVars
  PROVE  /\ Grows /\ Known' = Known /\ (\A t : VersionsOf(t)' = VersionsOf(t))
         /\ UNCHANGED <<songs, active, versions, assets, blobs, ingest, decisions, derivations>>
BY DEF recordVars, Grows, Known, VersionsOf

LEMMA SessionsStep ==
  ASSUME StoreInv, UNCHANGED <<recordVars, focuses>>,
         ActivityReadable', EventsTyped', events' \in Seq(Row),
         PointersTold', SessionsTold', FocusTold', SessionsTypeOK', SessionsReadable'
  PROVE  StoreInv'
BY RecordsSame, PartsStand, StoreInvAfter

SessionRow == [song : Song, version : {None} \cup DOMAIN versions, state : {"OPEN", "CLOSED"}]
ItemRow    == [session : DOMAIN sessions, kind : Kind, written : BOOLEAN,
               request : {None} \cup AllTerms, claim : {None} \cup AllTerms]

LEMMA SessionRows ==
  ASSUME StoreInv
  PROVE  /\ sessions \in Seq(SessionRow) /\ items \in Seq(ItemRow)
         /\ Len(sessions) \in Nat /\ DOMAIN sessions = 1..Len(sessions)
         /\ Len(items) \in Nat /\ DOMAIN items = 1..Len(items)
         /\ \A i \in DOMAIN sessions : sessions[i] \in SessionRow
         /\ \A i \in DOMAIN items : items[i] \in ItemRow
<1>1. sessions \in Seq(SessionRow) /\ items \in Seq(ItemRow)
  BY DEF StoreInv, SessionsTypeOK, SessionRow, ItemRow
<1> QED
  BY <1>1, LenProperties, ElementOfSeq

LEMMA SameLatest ==
  ASSUME NEW s, SessionsOf(s)' = SessionsOf(s)
  PROVE  LatestForSong(s)' = LatestForSong(s)
<1> DEFINE G(S) == CHOOSE i \in S : \A j \in S : j <= i
           old == SessionsOf(s)
           new == SessionsOf(s)'
<1>1. LatestForSong(s) = (IF old = {} THEN 0 ELSE G(old))
      /\ LatestForSong(s)' = (IF new = {} THEN 0 ELSE G(new))
  BY DEF LatestForSong
<1>2. new = old
  OBVIOUS
<1> HIDE DEF G, old, new
<1> QED
  BY <1>1, <1>2

LEMMA LatestThen ==
  ASSUME SessionsTypeOK', NEW s
  PROVE  /\ SessionsOf(s)' = {} => LatestForSong(s)' = 0
         /\ SessionsOf(s)' # {} => LatestForSong(s)' \in SessionsOf(s)'
         /\ \A i \in SessionsOf(s)' : i <= LatestForSong(s)'
         /\ Len(sessions') \in Nat /\ DOMAIN sessions' = 1..Len(sessions')
<1>1. Len(sessions') \in Nat /\ DOMAIN sessions' = 1..Len(sessions')
  BY LenProperties DEF SessionsTypeOK
<1>2. SessionsOf(s)' \in SUBSET (1..Len(sessions'))
  BY <1>1 DEF SessionsOf
<1>3. SessionsOf(s)' # {} => \E i \in SessionsOf(s)' : \A j \in SessionsOf(s)' : j <= i
  BY <1>1, <1>2, GreatestOf
<1> QED
  BY <1>1, <1>3 DEF LatestForSong

\* Another Song has its latest Session open or not, as before.
LEMMA OpenAsBefore ==
  ASSUME SessionsTypeOK, SessionsTypeOK', NEW s, SessionsOf(s)' = SessionsOf(s),
         \A i \in SessionsOf(s) : sessions'[i].state = sessions[i].state
  PROVE  IsOpen(LatestForSong(s))' <=> IsOpen(LatestForSong(s))
<1>1. PICK i : i = LatestForSong(s)
  OBVIOUS
<1>2. (LatestForSong(s))' = i
  BY <1>1, SameLatest
<1>3. i = 0 \/ i \in SessionsOf(s)
  BY <1>1, LatestIs
<1>4. IsOpen(LatestForSong(s)) <=> i \in DOMAIN sessions /\ sessions[i].state = "OPEN"
  BY <1>1 DEF IsOpen
<1>5. IsOpen(LatestForSong(s))' <=> i \in DOMAIN sessions' /\ sessions'[i].state = "OPEN"
  BY <1>2 DEF IsOpen
<1>6. 0 \notin DOMAIN sessions /\ 0 \notin DOMAIN sessions'
  BY LatestIs, LatestThen
<1>7. i \in SessionsOf(s) => i \in DOMAIN sessions /\ i \in DOMAIN sessions'
  BY DEF SessionsOf
<1> QED
  BY <1>3, <1>4, <1>5, <1>6, <1>7

RowsReadable ==
  \A i \in DOMAIN sessions :
    /\ sessions[i].song \in Known
    /\ sessions[i].version # None => sessions[i].version \in VersionsOf(sessions[i].song)

ItemsReadable ==
  \A i \in DOMAIN items :
    /\ items[i].request # None =>
         items[i].request = Terms(i, items[i].request.scope, items[i].request.key)
    /\ items[i].claim # None => items[i].claim = items[i].request

LEMMA ReadableParts ==
  /\ SessionsReadable <=> RowsReadable /\ ItemsReadable
  /\ SessionsReadable' <=> RowsReadable' /\ ItemsReadable'
BY DEF SessionsReadable, RowsReadable, ItemsReadable

\* Items keep their terms while their Sessions keep their Song and Version.
LEMMA ItemsStand ==
  ASSUME ItemsReadable, UNCHANGED items,
         \A i \in DOMAIN items :
           /\ sessions'[items[i].session].song = sessions[items[i].session].song
           /\ sessions'[items[i].session].version = sessions[items[i].session].version
  PROVE  ItemsReadable'
BY DEF ItemsReadable, Terms

\* A line about a Session is counted once, and for its Song alone.
LEMMA SessionCounted ==
  ASSUME StoreInv, NEW type \in SessionTypes, NEW s \in Song, NEW v \in Nat \cup {None},
         Log(<<Event(type, s, v)>>)
  PROVE  /\ Cardinality(EventsOf({type}, s)') = Cardinality(EventsOf({type}, s)) + 1
         /\ \A t : \A u \in SessionTypes :
              u # type \/ t # s => EventsOf({u}, t)' = EventsOf({u}, t)
<1> DEFINE e == Event(type, s, v)  es == <<e>>
<1>1. type \in EventType
  BY DEF SessionTypes, EventType
<1>2. e \in Row /\ e.type = type /\ e.song = s /\ e.version = v
  BY <1>1, EventIs
<1>3. Log(es) /\ events \in Seq(Row)
  BY DEF StoreInv
<1> HIDE DEF e
<1>4. es \in Seq(Row) /\ Len(es) = 1 /\ es[1] = e
  BY <1>2, FewLines
<1> HIDE DEF es
<1>5. 1..Len(es) = {1}
  BY <1>4
<1>6. Lines(es, {type}, s) = {1}
  BY <1>2, <1>4, <1>5 DEF Lines
<1>7. \A u, t : u # type \/ t # s => Lines(es, {u}, t) = {}
  BY <1>2, <1>4, <1>5 DEF Lines
<1>8. Cardinality(EventsOf({type}, s)') = Cardinality(EventsOf({type}, s)) + 1
  <2>1. EventsOf({type}, s)'
          = EventsOf({type}, s) \cup {Len(events) + k : k \in Lines(es, {type}, s)}
    BY <1>3, <1>4, ChronologyGrows
  <2>2. EventsOf({type}, s)' = EventsOf({type}, s) \cup {Len(events) + 1}
    BY <1>6, <2>1
  <2>3. IsFiniteSet(EventsOf({type}, s)) /\ EventsOf({type}, s) \in SUBSET (1..Len(events))
        /\ Len(events) \in Nat
    BY <1>3, EventsAreFinite
  <2>4. Len(events) + 1 \notin EventsOf({type}, s)
    <3>1. ~(Len(events) + 1 \in 1..Len(events))
      BY <2>3
    <3> QED
      BY <2>3, <3>1
  <2> QED
    BY <2>2, <2>3, <2>4, FS_AddElement
<1>9. ASSUME NEW u \in SessionTypes, NEW t, u # type \/ t # s
      PROVE  EventsOf({u}, t)' = EventsOf({u}, t)
  <2>1. Lines(es, {u}, t) = {}
    BY <1>7, <1>9
  <2> QED
    BY <1>3, <1>4, <2>1, NothingNewTold
<1> QED
  BY <1>8, <1>9

LEMMA CountsOf ==
  ASSUME StoreInv, NEW s \in Known
  PROVE  /\ Cardinality(EventsOf({"SESSION_CLOSED"}, s)) \in Nat
         /\ Cardinality(EventsOf({"SESSION_STARTED"}, s)) \in Nat
         /\ IsOpen(LatestForSong(s)) =>
              Cardinality(EventsOf({"SESSION_CLOSED"}, s))
                = Cardinality(EventsOf({"SESSION_STARTED"}, s)) - 1
         /\ ~IsOpen(LatestForSong(s)) =>
              Cardinality(EventsOf({"SESSION_CLOSED"}, s))
                = Cardinality(EventsOf({"SESSION_STARTED"}, s))
<1>1. events \in Seq(Row) /\ SessionsTold
  BY ToldParts DEF StoreInv
<1> QED
  BY <1>1, EventsAreFinite DEF SessionsTold

\* The Song of a step on its sessions, and its line, are told.
LEMMA SessionsAreTold ==
  ASSUME StoreInv, Known' = Known, NEW s \in Known,
         \A t \in Known \ {s} : IsOpen(LatestForSong(t))' <=> IsOpen(LatestForSong(t)),
         NEW v \in Nat \cup {None},
         \/ /\ Log(<<Event("SESSION_STARTED", s, v)>>)
            /\ ~IsOpen(LatestForSong(s)) /\ IsOpen(LatestForSong(s))'
         \/ /\ Log(<<Event("SESSION_CLOSED", s, v)>>)
            /\ IsOpen(LatestForSong(s)) /\ ~IsOpen(LatestForSong(s))'
  PROVE  SessionsTold'
<1> DEFINE A(t) == Cardinality(EventsOf({"SESSION_STARTED"}, t))
           Z(t) == Cardinality(EventsOf({"SESSION_CLOSED"}, t))
           A2(t) == Cardinality(EventsOf({"SESSION_STARTED"}, t)')
           Z2(t) == Cardinality(EventsOf({"SESSION_CLOSED"}, t)')
<1>1. s \in Song /\ "SESSION_STARTED" \in SessionTypes /\ "SESSION_CLOSED" \in SessionTypes
  BY DEF Known, SessionTypes
<1>2. \A t \in Known \ {s} : A2(t) = A(t) /\ Z2(t) = Z(t)
  <2>1. \A t \in Known \ {s}, u \in SessionTypes : EventsOf({u}, t)' = EventsOf({u}, t)
    BY <1>1, SessionCounted
  <2> QED
    BY <1>1, <2>1
<1>3. \/ A2(s) = A(s) + 1 /\ Z2(s) = Z(s) /\ ~IsOpen(LatestForSong(s)) /\ IsOpen(LatestForSong(s))'
      \/ A2(s) = A(s) /\ Z2(s) = Z(s) + 1 /\ IsOpen(LatestForSong(s)) /\ ~IsOpen(LatestForSong(s))'
  BY <1>1, SessionCounted
<1>4. /\ A(s) \in Nat /\ Z(s) \in Nat /\ (IsOpen(LatestForSong(s)) => Z(s) = A(s) - 1)
      /\ (~IsOpen(LatestForSong(s)) => Z(s) = A(s))
  BY CountsOf
<1>5. \A t \in Known : (IsOpen(LatestForSong(t)) => Z(t) = A(t) - 1)
                         /\ (~IsOpen(LatestForSong(t)) => Z(t) = A(t))
  BY CountsOf
<1>6. SessionsTold' <=>
        \A t \in Known' : Z2(t) = IF IsOpen(LatestForSong(t))' THEN A2(t) - 1 ELSE A2(t)
  BY DEF SessionsTold
<1> HIDE DEF A, Z, A2, Z2
<1>7. Z2(s) = IF IsOpen(LatestForSong(s))' THEN A2(s) - 1 ELSE A2(s)
  BY <1>3, <1>4
<1>8. ASSUME NEW t \in Known \ {s}
      PROVE  Z2(t) = IF IsOpen(LatestForSong(t))' THEN A2(t) - 1 ELSE A2(t)
  BY <1>2, <1>5
<1> QED
  BY <1>6, <1>7, <1>8

LEMMA SessionIsStarted ==
  ASSUME StoreInv, NEW s \in Known, StartSession(s, None), UNCHANGED focuses
  PROVE  StoreInv'
<1>1. PICK v, n : v = songs[s].current /\ n = Len(sessions) + 1
  OBVIOUS
<1> DEFINE row == [song |-> s, version |-> v, state |-> "OPEN"]
<1>2. /\ \A i \in SessionsOf(s) : ~IsOpen(i)
      /\ sessions' = Append(sessions, row) /\ Log(<<Event("SESSION_STARTED", s, v)>>)
      /\ UNCHANGED <<recordVars, items>>
  BY <1>1 DEF StartSession
<1>3. LineageTypeOK /\ PointersInv /\ s \in Song
  BY DEF StoreInv, Known
<1>4. v \in VersionsOf(s) \cup {None} /\ v \in {None} \cup DOMAIN versions /\ v \in Nat \cup {None}
  BY <1>1, <1>3, VersionIds DEF PointersInv
<1>5. /\ Grows /\ Known' = Known /\ (\A t : VersionsOf(t)' = VersionsOf(t))
      /\ UNCHANGED <<songs, active, versions, assets, blobs, ingest, decisions, derivations>>
  BY <1>2, RecordsSame
<1>6. /\ sessions \in Seq(SessionRow) /\ items \in Seq(ItemRow)
      /\ Len(sessions) \in Nat /\ DOMAIN sessions = 1..Len(sessions)
      /\ \A i \in DOMAIN items : items[i] \in ItemRow
  BY SessionRows
<1>7. row \in SessionRow /\ row.song = s /\ row.version = v /\ row.state = "OPEN"
  BY <1>3, <1>4 DEF SessionRow
<1> HIDE DEF row
<1>8. /\ sessions' \in Seq(SessionRow) /\ DOMAIN sessions' = 1..(Len(sessions) + 1)
      /\ \A i \in 1..Len(sessions) : sessions'[i] = sessions[i]
      /\ sessions'[n] = row
  BY <1>1, <1>2, <1>6, <1>7, Appended
<1>9. DOMAIN sessions \subseteq DOMAIN sessions' /\ n \in DOMAIN sessions' /\ n \in Nat
      /\ (\A i \in DOMAIN sessions' : i \in DOMAIN sessions \/ i = n)
      /\ n \notin DOMAIN sessions
  BY <1>1, <1>6, <1>8
<1>10. SessionsTypeOK'
  <2>1. AllTerms' = AllTerms
    BY <1>5 DEF AllTerms
  <2>2. ItemRow \subseteq ItemRow'
    BY <1>9, <2>1 DEF ItemRow, Kind
  <2>3. items' \in Seq(ItemRow')
    BY <1>2, <1>6, <2>2, SeqMonotonic
  <2>4. SessionRow' = SessionRow
    BY <1>5 DEF SessionRow
  <2> QED
    BY <1>8, <2>3, <2>4 DEF SessionsTypeOK, SessionRow, ItemRow
<1>11. SessionsReadable'
  <2>1. ASSUME NEW i \in DOMAIN sessions'
        PROVE  /\ sessions'[i].song \in Known
               /\ sessions'[i].version # None =>
                    sessions'[i].version \in VersionsOf(sessions'[i].song)
    <3>1. CASE i \in DOMAIN sessions
      BY <3>1, <1>6, <1>8 DEF StoreInv, SessionsReadable
    <3>2. CASE i = n
      BY <3>2, <1>4, <1>7, <1>8
    <3> QED
      BY <3>1, <3>2, <1>9
  <2>2. RowsReadable'
    BY <1>5, <2>1 DEF RowsReadable
  <2>3. \A i \in DOMAIN items : sessions'[items[i].session] = sessions[items[i].session]
    BY <1>6, <1>8 DEF ItemRow
  <2>4. ItemsReadable'
    BY <1>2, <2>3, ReadableParts, ItemsStand DEF StoreInv
  <2> QED
    BY <2>2, <2>4, ReadableParts
<1>12. SessionsTold'
  <2>1. ~IsOpen(LatestForSong(s))
    BY <1>2, <1>9, LatestIs DEF IsOpen, StoreInv
  <2>2. IsOpen(LatestForSong(s))'
    <3>1. n \in SessionsOf(s)'
      BY <1>7, <1>8, <1>9 DEF SessionsOf
    <3>2. (LatestForSong(s))' \in SessionsOf(s)' /\ n <= (LatestForSong(s))'
      BY <1>10, <3>1, LatestThen
    <3>3. (LatestForSong(s))' = n
      BY <1>1, <1>6, <1>8, <3>2 DEF SessionsOf
    <3> QED
      BY <1>7, <1>8, <1>9, <3>3 DEF IsOpen
  <2>3. \A t \in Known \ {s} : IsOpen(LatestForSong(t))' <=> IsOpen(LatestForSong(t))
    <3>1. ASSUME NEW t \in Known \ {s} PROVE SessionsOf(t)' = SessionsOf(t)
      BY <1>7, <1>8, <1>9 DEF SessionsOf
    <3>2. \A t \in Known \ {s} : \A i \in SessionsOf(t) : sessions'[i].state = sessions[i].state
      BY <1>6, <1>8 DEF SessionsOf
    <3> QED
      BY <1>10, <3>1, <3>2, OpenAsBefore DEF StoreInv
  <2> QED
    BY <1>2, <1>4, <1>5, <2>1, <2>2, <2>3, SessionsAreTold
<1>13. /\ ActivityReadable' /\ EventsTyped' /\ events' \in Seq(Row) /\ PointersTold' /\ FocusTold'
  <2>1. "SESSION_STARTED" \in EventType /\ "SESSION_STARTED" \notin PointerTypes
        /\ "SESSION_STARTED" \notin FocusTypes
    BY DEF EventType, PointerTypes, FocusTypes
  <2> QED
    BY <1>2, <1>4, <1>5, <2>1, SingleLine
<1> QED
  BY <1>2, <1>10, <1>11, <1>12, <1>13, SessionsStep

\* The Song and the Version of a Session that a step is about.
LEMMA SessionIs ==
  ASSUME StoreInv, UNCHANGED recordVars, NEW i \in DOMAIN sessions,
         NEW s, s = sessions[i].song, NEW v, v = sessions[i].version
  PROVE  /\ s \in Known /\ s \in Known' /\ s \in Song /\ v \in Nat \cup {None}
         /\ v # None => v \in VersionsOf(s) /\ v \in VersionsOf(s)'
<1>1. /\ Known' = Known /\ (\A t : VersionsOf(t)' = VersionsOf(t))
  BY RecordsSame
<1>2. s \in Known /\ (v # None => v \in VersionsOf(s))
  BY DEF StoreInv, SessionsReadable
<1>3. \A t : VersionsOf(t) \subseteq Nat
  BY VersionIds DEF StoreInv
<1> QED
  BY <1>1, <1>2, <1>3 DEF Known

LEMMA ScratchIsAdded ==
  ASSUME StoreInv, NEW i, NEW kind \in Kind, NEW written \in BOOLEAN,
         AppendScratch(i, kind, written), UNCHANGED focuses
  PROVE  StoreInv'
<1>1. PICK s, v : s = sessions[i].song /\ v = sessions[i].version
  OBVIOUS
<1> DEFINE row == [session |-> i, kind |-> kind, written |-> written,
                   request |-> None, claim |-> None]
<1>2. /\ i \in DOMAIN sessions /\ items' = Append(items, row)
      /\ Log(<<Event("SESSION_SCRATCH_ADDED", s, v)>>) /\ UNCHANGED <<recordVars, sessions>>
  BY <1>1 DEF AppendScratch, IsOpen
<1>3. /\ s \in Known' /\ v \in Nat \cup {None} /\ (v # None => v \in VersionsOf(s)')
  BY <1>1, <1>2, SessionIs
<1>4. /\ Grows /\ Known' = Known /\ (\A t : VersionsOf(t)' = VersionsOf(t))
      /\ UNCHANGED <<songs, active, versions, assets, blobs, ingest, decisions, derivations>>
  BY <1>2, RecordsSame
<1>5. /\ sessions \in Seq(SessionRow) /\ items \in Seq(ItemRow) /\ Len(items) \in Nat
      /\ \A j \in DOMAIN items : items[j] \in ItemRow
  BY SessionRows
<1>6. row \in ItemRow /\ row.request = None /\ row.claim = None
  BY <1>2 DEF ItemRow
<1> HIDE DEF row
<1>7. /\ items' \in Seq(ItemRow) /\ DOMAIN items = 1..Len(items)
      /\ DOMAIN items' = 1..(Len(items) + 1)
      /\ \A j \in 1..Len(items) : items'[j] = items[j]
      /\ items'[Len(items) + 1] = row
  BY <1>2, <1>5, <1>6, Appended
<1>8. SessionsTypeOK'
  <2>1. AllTerms' = AllTerms /\ SessionRow' = SessionRow
    BY <1>4 DEF AllTerms, SessionRow
  <2>2. ItemRow' = ItemRow
    BY <1>2, <2>1 DEF ItemRow
  <2>3. sessions' \in Seq(SessionRow') /\ items' \in Seq(ItemRow')
    BY <1>2, <1>5, <1>7, <2>1, <2>2
  <2> QED
    BY <2>3 DEF SessionsTypeOK, SessionRow, ItemRow
<1>9. SessionsReadable'
  <2>1. RowsReadable'
    BY <1>2, <1>4, ReadableParts DEF RowsReadable, StoreInv
  <2>2. ASSUME NEW j \in DOMAIN items'
        PROVE  /\ items'[j].request # None =>
                    items'[j].request = Terms(j, items[j].request.scope, items[j].request.key)'
               /\ items'[j].claim # None => items'[j].claim = items'[j].request
    <3>1. CASE j \in 1..Len(items)
      BY <3>1, <1>2, <1>7, ReadableParts DEF ItemsReadable, Terms, StoreInv
    <3>2. CASE j = Len(items) + 1
      BY <3>2, <1>6, <1>7
    <3> QED
      BY <3>1, <3>2, <1>7
  <2> QED
    BY <2>1, <2>2, ReadableParts DEF ItemsReadable
<1>10. /\ ActivityReadable' /\ EventsTyped' /\ events' \in Seq(Row)
       /\ PointersTold' /\ SessionsTold' /\ FocusTold'
  <2> DEFINE type == "SESSION_SCRATCH_ADDED"
  <2>1. type \in EventType /\ type \notin PointerTypes /\ type \notin FocusTypes
        /\ type \notin SessionTypes
    BY DEF EventType, PointerTypes, FocusTypes, SessionTypes
  <2> HIDE DEF type
  <2>2. Log(<<Event(type, s, v)>>)
    BY <1>2 DEF type
  <2> QED
    BY <1>2, <1>3, <1>4, <2>1, <2>2, SingleLine
<1> QED
  BY <1>2, <1>8, <1>9, <1>10, SessionsStep

\* Only the latest Session of a Song is closed, which a form of it is bound to.
LEMMA SessionIsClosed ==
  ASSUME StoreInv, NEW i, NEW s, s = sessions[i].song, i = LatestForSong(s), CloseSession(i),
         UNCHANGED focuses
  PROVE  StoreInv'
<1>1. PICK v : v = sessions[i].version
  OBVIOUS
<1>2. /\ i \in DOMAIN sessions /\ sessions[i].state = "OPEN"
      /\ sessions' = [sessions EXCEPT ![i].state = "CLOSED"]
      /\ Log(<<Event("SESSION_CLOSED", s, v)>>) /\ UNCHANGED <<recordVars, items>>
  BY <1>1 DEF CloseSession, IsOpen
<1>3. /\ s \in Known /\ s \in Known' /\ v \in Nat \cup {None} /\ (v # None => v \in VersionsOf(s)')
  BY <1>1, <1>2, SessionIs
<1>4. /\ Grows /\ Known' = Known /\ (\A t : VersionsOf(t)' = VersionsOf(t))
      /\ UNCHANGED <<songs, active, versions, assets, blobs, ingest, decisions, derivations>>
  BY <1>2, RecordsSame
<1>5. /\ sessions \in Seq(SessionRow) /\ items \in Seq(ItemRow)
      /\ Len(sessions) \in Nat /\ DOMAIN sessions = 1..Len(sessions)
      /\ \A j \in DOMAIN sessions : sessions[j] \in SessionRow
      /\ \A j \in DOMAIN items : items[j] \in ItemRow
  BY SessionRows
<1> DEFINE row == [sessions[i] EXCEPT !.state = "CLOSED"]
<1>6. row \in SessionRow /\ row.song = s /\ row.version = v /\ row.state = "CLOSED"
  BY <1>1, <1>2, <1>5 DEF SessionRow
<1>7. sessions' = [sessions EXCEPT ![i] = row]
  BY <1>2
<1> HIDE DEF row
<1>8. /\ sessions' \in Seq(SessionRow) /\ DOMAIN sessions' = DOMAIN sessions
      /\ \A j \in DOMAIN sessions : sessions'[j] = IF j = i THEN row ELSE sessions[j]
  <2>1. /\ sessions' \in Seq(SessionRow) /\ Len(sessions') = Len(sessions)
        /\ \A j \in 1..Len(sessions) : sessions'[j] = IF j = i THEN row ELSE sessions[j]
    BY <1>2, <1>5, <1>6, <1>7, ExceptSeq
  <2> QED
    BY <1>5, <2>1, LenProperties
<1>9. \A j \in DOMAIN sessions : sessions'[j].song = sessions[j].song
                                  /\ sessions'[j].version = sessions[j].version
  BY <1>1, <1>6, <1>8
<1>10. SessionsTypeOK'
  <2>1. AllTerms' = AllTerms /\ SessionRow' = SessionRow
    BY <1>4 DEF AllTerms, SessionRow
  <2>2. ItemRow' = ItemRow
    BY <1>8, <2>1 DEF ItemRow
  <2>3. sessions' \in Seq(SessionRow') /\ items' \in Seq(ItemRow')
    BY <1>2, <1>5, <1>8, <2>1, <2>2
  <2> QED
    BY <2>3 DEF SessionsTypeOK, SessionRow, ItemRow
<1>11. SessionsReadable'
  <2>1. RowsReadable'
    BY <1>4, <1>8, <1>9, ReadableParts DEF RowsReadable, StoreInv
  <2>2. ItemsReadable'
    BY <1>2, <1>5, <1>9, ReadableParts, ItemsStand DEF StoreInv, ItemRow
  <2> QED
    BY <2>1, <2>2, ReadableParts
<1>12. SessionsTold'
  <2>1. \A t : SessionsOf(t)' = SessionsOf(t)
    BY <1>8, <1>9 DEF SessionsOf
  <2>2. IsOpen(LatestForSong(s))
    BY <1>2 DEF IsOpen
  <2>3. ~IsOpen(LatestForSong(s))'
    <3>1. (LatestForSong(s))' = i
      BY <2>1, SameLatest
    <3> QED
      BY <1>2, <1>6, <1>8, <3>1 DEF IsOpen
  <2>4. \A t \in Known \ {s} : IsOpen(LatestForSong(t))' <=> IsOpen(LatestForSong(t))
    <3>1. \A t \in Known \ {s} : \A j \in SessionsOf(t) : sessions'[j].state = sessions[j].state
      BY <1>8 DEF SessionsOf
    <3> QED
      BY <1>10, <2>1, <3>1, OpenAsBefore DEF StoreInv
  <2> QED
    BY <1>2, <1>3, <1>4, <2>2, <2>3, <2>4, SessionsAreTold
<1>13. /\ ActivityReadable' /\ EventsTyped' /\ events' \in Seq(Row) /\ PointersTold' /\ FocusTold'
  <2>1. "SESSION_CLOSED" \in EventType /\ "SESSION_CLOSED" \notin PointerTypes
        /\ "SESSION_CLOSED" \notin FocusTypes
    BY DEF EventType, PointerTypes, FocusTypes
  <2> QED
    BY <1>2, <1>3, <1>4, <2>1, SingleLine
<1> QED
  BY <1>2, <1>10, <1>11, <1>12, <1>13, SessionsStep

\* Request and claim in one, with the line of each.
LEMMA DecisionIsPromoted ==
  ASSUME StoreInv, NEW i, PromoteDecision(i, "SONG"), UNCHANGED focuses
  PROVE  StoreInv'
<1>1. PICK terms : terms = Terms(i, "SONG", "songwriting")
  OBVIOUS
<1>2. PICK s, v : s = sessions[items[i].session].song /\ v = sessions[items[i].session].version
  OBVIOUS
<1> DEFINE e1 == Event("EVIDENCE_CLAIM_RECORDED", s, None)
           e2 == Event("SESSION_ITEM_PROMOTED", s, v)
           es == <<e1, e2>>
<1>3. terms = [scope |-> "SONG", on |-> s, key |-> "songwriting"]
  BY <1>1, <1>2 DEF Terms
<1>4. /\ i \in DOMAIN items
      /\ items' = [items EXCEPT ![i].request = terms, ![i].claim = terms]
      /\ Log(es) /\ UNCHANGED <<recordVars, sessions>>
  BY <1>1, <1>2, <1>3 DEF PromoteDecision, PromotionEvents
<1>5. /\ sessions \in Seq(SessionRow) /\ items \in Seq(ItemRow)
      /\ Len(items) \in Nat /\ DOMAIN items = 1..Len(items)
      /\ \A j \in DOMAIN items : items[j] \in ItemRow
  BY SessionRows
<1>6. items[i].session \in DOMAIN sessions
  BY <1>4, <1>5 DEF ItemRow
<1>7. /\ s \in Known /\ s \in Known' /\ s \in Song /\ v \in Nat \cup {None}
      /\ (v # None => v \in VersionsOf(s)')
  BY <1>2, <1>4, <1>6, SessionIs
<1>8. /\ Grows /\ Known' = Known /\ (\A t : VersionsOf(t)' = VersionsOf(t))
      /\ UNCHANGED <<songs, active, versions, assets, blobs, ingest, decisions, derivations>>
  BY <1>4, RecordsSame
<1> DEFINE row == [items[i] EXCEPT !.request = terms, !.claim = terms]
<1>9. terms \in AllTerms
  BY <1>3, <1>7, KeyAssumption DEF AllTerms
<1>10. /\ row \in ItemRow /\ row.session = items[i].session
       /\ row.request = terms /\ row.claim = terms
  BY <1>4, <1>5, <1>9 DEF ItemRow
<1>11. items' = [items EXCEPT ![i] = row]
  BY <1>4
<1> HIDE DEF row
<1>12. /\ items' \in Seq(ItemRow) /\ DOMAIN items' = DOMAIN items
       /\ \A j \in DOMAIN items : items'[j] = IF j = i THEN row ELSE items[j]
  <2>1. /\ items' \in Seq(ItemRow) /\ Len(items') = Len(items)
        /\ \A j \in 1..Len(items) : items'[j] = IF j = i THEN row ELSE items[j]
    <3>1. i \in 1..Len(items)
      BY <1>4, <1>5
    <3>2. items \in Seq(ItemRow) /\ row \in ItemRow
      BY <1>5, <1>10
    <3> HIDE DEF es
    <3> QED
      BY <3>1, <3>2, <1>11, ExceptSeq
  <2> QED
    BY <1>5, <2>1, LenProperties
<1>13. SessionsTypeOK'
  <2>1. AllTerms' = AllTerms /\ SessionRow' = SessionRow
    BY <1>8 DEF AllTerms, SessionRow
  <2>2. ItemRow' = ItemRow
    BY <1>4, <2>1 DEF ItemRow
  <2>3. sessions' \in Seq(SessionRow') /\ items' \in Seq(ItemRow')
    BY <1>4, <1>5, <1>12, <2>1, <2>2
  <2> QED
    BY <2>3 DEF SessionsTypeOK, SessionRow, ItemRow
<1>14. SessionsReadable'
  <2>1. RowsReadable'
    BY <1>4, <1>8, ReadableParts DEF RowsReadable, StoreInv
  <2>2. ASSUME NEW j \in DOMAIN items'
        PROVE  /\ items'[j].request # None =>
                    items'[j].request = Terms(j, items[j].request.scope, items[j].request.key)'
               /\ items'[j].claim # None => items'[j].claim = items'[j].request
    <3>1. CASE j # i
      BY <3>1, <1>4, <1>12, ReadableParts DEF ItemsReadable, Terms, StoreInv
    <3>2. CASE j = i
      <4>1. items'[i] = row /\ terms.scope = "SONG" /\ terms.key = "songwriting"
        BY <3>2, <1>3, <1>12
      <4> QED
        BY <3>2, <4>1, <1>2, <1>3, <1>4, <1>10 DEF Terms
    <3> QED
      BY <3>1, <3>2
  <2> QED
    BY <2>1, <2>2, ReadableParts DEF ItemsReadable
<1>15. /\ e1 \in Row /\ e1.type = "EVIDENCE_CLAIM_RECORDED" /\ e1.song = s /\ e1.version = None
       /\ e2 \in Row /\ e2.type = "SESSION_ITEM_PROMOTED" /\ e2.song = s /\ e2.version = v
  <2>1. "EVIDENCE_CLAIM_RECORDED" \in EventType /\ "SESSION_ITEM_PROMOTED" \in EventType
    BY DEF EventType
  <2>2. e1 \in Row /\ e1.type = "EVIDENCE_CLAIM_RECORDED" /\ e1.song = s /\ e1.version = None
    BY <1>7, <2>1 DEF Event, Row
  <2>3. e2 \in Row /\ e2.type = "SESSION_ITEM_PROMOTED" /\ e2.song = s /\ e2.version = v
    BY <1>7, <2>1 DEF Event, Row
  <2> QED
    BY <2>2, <2>3
<1> HIDE DEF e1, e2
<1>16. es \in Seq(Row) /\ Len(es) = 2 /\ es[1] = e1 /\ es[2] = e2 /\ Log(es)
  BY <1>4, <1>15, FewLines
<1> HIDE DEF es
<1>17. \A k \in 1..Len(es) : es[k] \in {e1, e2}
  BY <1>16
<1>18. ActivityReadable' /\ EventsTyped' /\ events' \in Seq(Row)
  <2>1. \A k \in 1..Len(es) : SoundThen(es[k])
    BY <1>7, <1>15, <1>17 DEF SoundThen, VersionsOf
  <2>2. events \in Seq(Row) /\ ActivityReadable
    BY DEF StoreInv
  <2> QED
    BY <1>8, <1>16, <2>1, <2>2, ActivityStands
<1>19. PointersTold' /\ SessionsTold' /\ FocusTold'
  <2>1. \A types \in {PointerTypes, SessionTypes, FocusTypes} : ~TellsOf(es, types)
    BY <1>15, <1>17 DEF TellsOf, PointerTypes, SessionTypes, FocusTypes
  <2> QED
    BY <1>4, <1>8, <1>16, <2>1, StillTold
<1> QED
  BY <1>4, <1>13, <1>14, <1>18, <1>19, SessionsStep

-----------------------------------------------------------------------------
(* The focus *)

FocusRow == [song : Song \cup {None}, mode : Mode, state : {"ACTIVE", "ENDED"},
             reason : {None, "ENDED", "SWITCHED"}]

LEMMA FocusStep ==
  ASSUME StoreInv, UNCHANGED <<recordVars, sessionVars>>,
         ActivityReadable', EventsTyped', events' \in Seq(Row),
         PointersTold', SessionsTold', FocusTold', FocusTypeOK', FocusReadable'
  PROVE  StoreInv'
BY RecordsSame, PartsStand, StoreInvAfter

LEMMA ActiveFocusThen ==
  ASSUME FocusTypeOK', NEW i \in DOMAIN focuses', focuses'[i].state = "ACTIVE",
         FocusReadable'
  PROVE  ActiveFocus' # 0
<1>1. Len(focuses') \in Nat /\ DOMAIN focuses' = 1..Len(focuses')
  BY LenProperties DEF FocusTypeOK
<1> DEFINE on == {j \in DOMAIN focuses' : focuses'[j].state = "ACTIVE"}
<1>2. \A j, k \in on : j = k
  BY DEF FocusReadable
<1>3. \E j \in on : \A k \in on : k <= j
  BY <1>1, <1>2
<1>4. ActiveFocus' = IF on = {} THEN 0 ELSE CHOOSE j \in on : \A k \in on : k <= j
  BY DEF ActiveFocus
<1>5. ActiveFocus' \in on
  BY <1>3, <1>4
<1> QED
  BY <1>1, <1>5

LEMMA NoFocusThen ==
  ASSUME \A i \in DOMAIN focuses' : focuses'[i].state # "ACTIVE"
  PROVE  ActiveFocus' = 0
BY DEF ActiveFocus

\* Ending what is on leaves every focus ended.
LEMMA EndedIs ==
  ASSUME FocusTypeOK, FocusReadable, NEW reason \in {"ENDED", "SWITCHED"},
         NEW r, r = Ended(focuses, reason)
  PROVE  /\ r \in Seq(FocusRow) /\ Len(focuses) \in Nat /\ Len(r) = Len(focuses)
         /\ DOMAIN focuses = 1..Len(focuses) /\ DOMAIN r = 1..Len(focuses)
         /\ \A i \in 1..Len(focuses) :
              r[i].state = "ENDED" /\ r[i].reason # None /\ r[i].song = focuses[i].song
         /\ ActiveFocus = 0 => r = focuses
<1>1. /\ Len(focuses) \in Nat /\ DOMAIN focuses = 1..Len(focuses) /\ focuses \in Seq(FocusRow)
      /\ ActiveFocus \in {0} \cup DOMAIN focuses
      /\ \A i \in DOMAIN focuses : focuses[i].state = "ACTIVE" <=> i = ActiveFocus
  BY ActiveFocusIs DEF FocusTypeOK, FocusRow
<1>2. \A i \in 1..Len(focuses) : focuses[i] \in FocusRow
  BY <1>1, ElementOfSeq
<1>3. \A i \in 1..Len(focuses) : i # ActiveFocus =>
        focuses[i].state = "ENDED" /\ focuses[i].reason # None
  BY <1>1, <1>2 DEF FocusRow, FocusReadable
<1>4. CASE ActiveFocus = 0
  BY <1>1, <1>3, <1>4 DEF Ended
<1>5. CASE ActiveFocus # 0
  <2>1. PICK a \in 1..Len(focuses) : a = ActiveFocus
    BY <1>1, <1>5
  <2> DEFINE row == [focuses[a] EXCEPT !.state = "ENDED", !.reason = reason]
  <2>2. row \in FocusRow /\ row.state = "ENDED" /\ row.reason = reason /\ row.song = focuses[a].song
    BY <1>2, <2>1 DEF FocusRow
  <2>3. r = [focuses EXCEPT ![a] = row]
    BY <1>5, <2>1 DEF Ended
  <2> HIDE DEF row
  <2>4. /\ r \in Seq(FocusRow) /\ Len(r) = Len(focuses)
        /\ \A j \in 1..Len(focuses) : r[j] = IF j = a THEN row ELSE focuses[j]
    BY <1>1, <2>2, <2>3, ExceptSeq
  <2>5. reason # None
    BY ReasonAssumption
  <2> QED
    BY <1>1, <1>3, <1>5, <2>1, <2>2, <2>4, <2>5, LenProperties
<1> QED
  BY <1>4, <1>5

\* The line of the focus that is ended, if one is.
LEMMA EndedLine ==
  ASSUME StoreInv, UNCHANGED recordVars, NEW es, es = EndedEvents
  PROVE  /\ es \in Seq(Row)
         /\ \A k \in 1..Len(es) : SoundThen(es[k]) /\ es[k].type = "FOCUS_SESSION_ENDED"
         /\ IF ActiveFocus = 0 THEN Len(es) = 0 ELSE Len(es) = 1
<1>1. /\ ActiveFocus \in {0} \cup DOMAIN focuses
      /\ \A i \in DOMAIN focuses : focuses[i].song \in Known \cup {None}
  BY ActiveFocusIs DEF StoreInv, FocusReadable
<1>2. CASE ActiveFocus = 0
  <2>1. es = <<>>
    BY <1>2 DEF EndedEvents
  <2>2. es \in Seq(Row) /\ Len(es) = 0
    BY <2>1, EmptySeq
  <2> QED
    BY <1>2, <2>2
<1>3. CASE ActiveFocus # 0
  <2>1. PICK s : s = focuses[ActiveFocus].song
    OBVIOUS
  <2> DEFINE e == Event("FOCUS_SESSION_ENDED", s, None)
  <2>2. s \in Known \cup {None}
    BY <1>1, <1>3, <2>1
  <2>3. Known' = Known /\ s \in Song \cup {None} /\ "FOCUS_SESSION_ENDED" \in EventType
    BY <2>2, RecordsSame DEF Known, EventType
  <2>4. e \in Row /\ e.type = "FOCUS_SESSION_ENDED" /\ e.song = s /\ e.version = None
    BY <2>3 DEF Event, Row
  <2>5. es = <<e>>
    BY <1>3, <2>1 DEF EndedEvents
  <2> HIDE DEF e
  <2>6. es \in Seq(Row) /\ Len(es) = 1 /\ es[1] = e
    BY <2>4, <2>5, FewLines
  <2>7. SoundThen(e)
    BY <2>2, <2>3, <2>4 DEF SoundThen
  <2>8. \A k \in 1..Len(es) : k = 1
    BY <2>6
  <2> QED
    BY <1>3, <2>4, <2>6, <2>7, <2>8
<1> QED
  BY <1>2, <1>3

LEMMA FocusIsEnded ==
  ASSUME StoreInv, EndFocus, UNCHANGED sessionVars
  PROVE  StoreInv'
<1>1. PICK es : es = EndedEvents
  OBVIOUS
<1>2. focuses' = Ended(focuses, "ENDED") /\ Log(es) /\ UNCHANGED recordVars
  BY <1>1 DEF EndFocus
<1>3. /\ es \in Seq(Row)
      /\ \A k \in 1..Len(es) : SoundThen(es[k]) /\ es[k].type = "FOCUS_SESSION_ENDED"
      /\ IF ActiveFocus = 0 THEN Len(es) = 0 ELSE Len(es) = 1
  BY <1>1, <1>2, EndedLine
<1>4. /\ Grows /\ Known' = Known /\ (\A t : VersionsOf(t)' = VersionsOf(t)) /\ UNCHANGED songs
  BY <1>2, RecordsSame
<1>5. /\ focuses' \in Seq(FocusRow) /\ DOMAIN focuses = 1..Len(focuses)
      /\ DOMAIN focuses' = 1..Len(focuses)
      /\ \A i \in 1..Len(focuses) :
           focuses'[i].state = "ENDED" /\ focuses'[i].reason # None
             /\ focuses'[i].song = focuses[i].song
      /\ ActiveFocus = 0 => focuses' = focuses
  BY <1>2, EndedIs DEF StoreInv
<1>6. FocusTypeOK' /\ FocusReadable'
  BY <1>4, <1>5 DEF FocusTypeOK, FocusRow, FocusReadable, StoreInv
<1>7. events \in Seq(Row) /\ ActivityReadable
  BY DEF StoreInv
<1>8. ActivityReadable' /\ EventsTyped' /\ events' \in Seq(Row)
  BY <1>2, <1>3, <1>4, <1>7, ActivityStands
<1>9. PointersTold' /\ SessionsTold'
  <2>1. ~TellsOf(es, PointerTypes) /\ ~TellsOf(es, SessionTypes)
    BY <1>3 DEF TellsOf, PointerTypes, SessionTypes
  <2> QED
    BY <1>2, <1>3, <1>4, <2>1, StillTold DEF sessionVars
<1>10. FocusTold'
  <2>1. CASE ActiveFocus = 0
    <3>1. ~TellsOf(es, FocusTypes)
      BY <1>3, <2>1 DEF TellsOf
    <3> QED
      BY <1>2, <1>3, <1>5, <2>1, <3>1, StillTold
  <2>2. CASE ActiveFocus # 0
    <3>0. Len(es) = 1
      BY <1>3, <2>2
    <3>1. 1 \in 1..Len(es) /\ \A j \in 1..Len(es) : j <= 1
      BY <3>0
    <3>2. es[1].type \in FocusTypes /\ es[1].type # "FOCUS_SESSION_STARTED"
      BY <1>3, <3>1 DEF FocusTypes
    <3>3. ActiveFocus' = 0
      BY <1>5, NoFocusThen
    <3> QED
      BY <1>2, <1>3, <1>7, <3>1, <3>2, <3>3, FocusIsTold
  <2> QED
    BY <2>1, <2>2
<1> QED
  BY <1>2, <1>6, <1>8, <1>9, <1>10, FocusStep

\* A focus that is on is ended before another begins, and the last line is of the one
\* that begins.
LEMMA FocusIsStarted ==
  ASSUME StoreInv, NEW mode \in Mode, NEW s, StartFocus(mode, s), UNCHANGED sessionVars
  PROVE  StoreInv'
<1>1. s \in Known \cup {None} /\ UNCHANGED recordVars
  BY DEF StartFocus
<1>2. /\ Grows /\ Known' = Known /\ (\A t : VersionsOf(t)' = VersionsOf(t))
      /\ UNCHANGED <<songs, active, versions, assets, blobs, ingest, decisions, derivations>>
  BY <1>1, RecordsSame
<1>3. CASE UNCHANGED <<focuses, events>>
  <2>1. FilesTyped'
    BY <1>2, LineageParts DEF FilesTyped, StoreInv
  <2> QED
    BY <1>2, <1>3, <2>1, FilesChange
<1>4. ASSUME focuses' = Append(Ended(focuses, "SWITCHED"),
                               [song |-> s, mode |-> mode, state |-> "ACTIVE", reason |-> None]),
             Log(EndedEvents \o <<Event("FOCUS_SESSION_STARTED", s, None)>>)
      PROVE  StoreInv'
  <2>1. PICK es0, r : es0 = EndedEvents /\ r = Ended(focuses, "SWITCHED")
    OBVIOUS
  <2> DEFINE e == Event("FOCUS_SESSION_STARTED", s, None)
             row == [song |-> s, mode |-> mode, state |-> "ACTIVE", reason |-> None]
             es == es0 \o <<e>>
             n == Len(es0) + 1
  <2>2. Log(es) /\ focuses' = Append(r, row)
    BY <1>4, <2>1
  <2>3. s \in Song \cup {None} /\ "FOCUS_SESSION_STARTED" \in EventType
    BY <1>1 DEF Known, EventType
  <2>4. e \in Row /\ e.type = "FOCUS_SESSION_STARTED" /\ e.song = s /\ e.version = None
    BY <2>3 DEF Event, Row
  <2>5. row \in FocusRow /\ row.state = "ACTIVE" /\ row.reason = None /\ row.song = s
    BY <2>3 DEF FocusRow
  <2> HIDE DEF e, row
  <2>6. /\ es0 \in Seq(Row) /\ Len(es0) \in Nat
        /\ \A k \in 1..Len(es0) : SoundThen(es0[k]) /\ es0[k].type = "FOCUS_SESSION_ENDED"
    BY <1>1, <2>1, EndedLine, LenProperties
  <2>7. <<e>> \in Seq(Row) /\ Len(<<e>>) = 1 /\ <<e>>[1] = e
    BY <2>4, FewLines
  <2>8. /\ es \in Seq(Row) /\ Len(es) = n
        /\ \A k \in 1..n : es[k] = IF k <= Len(es0) THEN es0[k] ELSE <<e>>[k - Len(es0)]
    BY <2>6, <2>7, ConcatProperties
  <2>9. (\A k \in 1..Len(es0) : es[k] = es0[k]) /\ es[n] = e
    BY <2>6, <2>7, <2>8
  <2> HIDE DEF es
  <2>10. \A k \in 1..Len(es) : SoundThen(es[k]) /\ es[k].type \in FocusTypes /\ k <= n
    <3>1. SoundThen(e) /\ e.type \in FocusTypes
      BY <1>1, <1>2, <2>4 DEF SoundThen, FocusTypes
    <3>2. \A k \in 1..Len(es) : k \in 1..Len(es0) \/ k = n
      BY <2>6, <2>8
    <3> QED
      BY <2>6, <2>8, <2>9, <3>1, <3>2 DEF FocusTypes
  <2>11. /\ r \in Seq(FocusRow) /\ Len(focuses) \in Nat /\ Len(r) = Len(focuses)
         /\ DOMAIN focuses = 1..Len(focuses)
         /\ \A i \in 1..Len(focuses) :
              r[i].state = "ENDED" /\ r[i].reason # None /\ r[i].song = focuses[i].song
    BY <2>1, EndedIs DEF StoreInv
  <2> DEFINE m == Len(focuses) + 1
  <2>12. /\ focuses' \in Seq(FocusRow) /\ DOMAIN focuses' = 1..m /\ m \in Nat
         /\ \A i \in 1..Len(focuses) : focuses'[i] = r[i]
         /\ focuses'[m] = row
    BY <2>2, <2>5, <2>11, Appended
  <2>13. \A i \in 1..m : i \in 1..Len(focuses) \/ i = m
    BY <2>11
  <2>14. FocusTypeOK' /\ FocusReadable'
    <3>1. FocusTypeOK'
      BY <2>12 DEF FocusTypeOK, FocusRow
    <3>2. ASSUME NEW i \in 1..m
          PROVE  /\ focuses'[i].song \in Known \cup {None}
                 /\ (focuses'[i].state = "ACTIVE") <=> (focuses'[i].reason = None)
                 /\ focuses'[i].state = "ACTIVE" <=> i = m
      <4>1. CASE i \in 1..Len(focuses)
        BY <4>1, <2>11, <2>12 DEF StoreInv, FocusReadable
      <4>2. CASE i = m
        BY <4>2, <1>1, <2>5, <2>12
      <4> QED
        BY <4>1, <4>2, <2>13
    <3> QED
      BY <1>2, <2>12, <3>1, <3>2 DEF FocusReadable
  <2>15. ActiveFocus' # 0
    <3>1. PICK i : i = m
      OBVIOUS
    <3>2. i \in DOMAIN focuses' /\ focuses'[i].state = "ACTIVE"
      BY <2>5, <2>11, <2>12, <3>1
    <3> QED
      BY <2>14, <3>2, ActiveFocusThen
  <2>16. events \in Seq(Row) /\ ActivityReadable
    BY DEF StoreInv
  <2>17. ActivityReadable' /\ EventsTyped' /\ events' \in Seq(Row)
    BY <1>2, <2>2, <2>8, <2>10, <2>16, ActivityStands
  <2>18. PointersTold' /\ SessionsTold'
    <3>1. ~TellsOf(es, PointerTypes) /\ ~TellsOf(es, SessionTypes)
      BY <2>10 DEF TellsOf, PointerTypes, SessionTypes, FocusTypes
    <3> QED
      BY <1>2, <2>2, <2>8, <3>1, StillTold DEF sessionVars
  <2>19. FocusTold'
    <3>1. PICK k : k = n
      OBVIOUS
    <3>2. k \in 1..Len(es) /\ es[k].type = "FOCUS_SESSION_STARTED"
      BY <2>4, <2>6, <2>8, <2>9, <3>1
    <3>3. es[k].type \in FocusTypes /\ \A j \in 1..Len(es) : j <= k
      BY <2>10, <3>1, <3>2 DEF FocusTypes
    <3> QED
      BY <2>2, <2>8, <2>15, <2>16, <3>2, <3>3, FocusIsTold
  <2> QED
    BY <1>1, <2>14, <2>17, <2>18, <2>19, FocusStep
<1> QED
  BY <1>3, <1>4 DEF StartFocus

-----------------------------------------------------------------------------
(* The steps of the window *)

LEMMA StoresStand ==
  ASSUME StoreInv, UNCHANGED hqVars
  PROVE  StoreInv'
<1>1. UNCHANGED <<songs, active, versions, assets, blobs, ingest, decisions, derivations, events,
                  sessionVars, focuses>>
  BY DEF hqVars, lineageVars, recordVars
<1>2. FilesTyped'
  BY <1>1, LineageParts DEF FilesTyped, StoreInv
<1> QED
  BY <1>1, <1>2, FilesChange

\* The Session a form is bound to is of its Song.
LEMMA LatestIsOfTheSong ==
  ASSUME StoreInv, NEW s, NEW i, i = LatestForSong(s), IsOpen(i)
  PROVE  i \in DOMAIN sessions /\ sessions[i].song = s
<1>1. i \in DOMAIN sessions
  BY DEF IsOpen
<1>2. 0 \notin DOMAIN sessions
  BY LatestIs DEF StoreInv
<1>3. i \in SessionsOf(s)
  BY <1>1, <1>2, LatestIs DEF StoreInv
<1> QED
  BY <1>1, <1>3 DEF SessionsOf

\* Whatever a form that still stands does, the stores are as good as before.
LEMMA EffectOnStores ==
  ASSUME StoreInv, FormsAreShown, NEW f \in forms, f.kind \notin {"quit", "profile"},
         Stands(f), Effect(f)
  PROVE  StoreInv'
<1>1. CASE f.kind = "song-start" /\ StartSong
  <2>1. PICK s \in Song : CreateSong(s) /\ UNCHANGED <<sessionVars, focuses>>
    BY <1>1 DEF StartSong
  <2> QED
    BY <2>1, SongIsCreated
<1>2. CASE f.kind = "material" /\ Import(f)
  <2>1. UNCHANGED <<sessionVars, focuses>>
    BY <1>2 DEF Import
  <2>2. CASE \E d \in Digest : InstallBlob(f.song, d)
    BY <2>1, <2>2, FilesMove
  <2>3. CASE UNCHANGED lineageVars
    BY <2>1, <2>3, StoresStand DEF hqVars
  <2> QED
    BY <1>2, <2>2, <2>3 DEF Import
<1>3. CASE f.kind \in {"resume", "approve"} /\ (Resume(f) \/ ApproveBound(f))
            /\ UNCHANGED <<sessionVars, focuses>>
  <2>1. SetCurrentVersion(f.song, f.target) \/ ApproveVersion(f.song, f.target)
    BY <1>3 DEF Resume, ApproveBound
  <2> QED
    BY <1>3, <2>1, PointerIsMoved
<1>4. CASE f.kind = "decide" /\ Judge(f) /\ UNCHANGED <<sessionVars, focuses>>
  <2>1. PICK b, judgment : judgment \in Judgment /\ RecordDecision(b, judgment)
    BY <1>4 DEF Judge
  <2> QED
    BY <1>4, <2>1, DecisionIsRecorded
<1>5. CASE f.kind = "session-start" /\ StartSession(f.song, None) /\ UNCHANGED focuses
  <2>1. f.song \in Known
    BY <1>5 DEF StartSession
  <2> QED
    BY <1>5, <2>1, SessionIsStarted
<1>6. CASE f.kind = "capture" /\ AppendScratch(f.session, f.mode, FALSE) /\ UNCHANGED focuses
  <2>1. f.mode \in Kind
    BY <1>6 DEF FormsAreShown
  <2> QED
    BY <1>6, <2>1, ScratchIsAdded
<1>7. CASE f.kind = "finish" /\ CloseSession(f.session) /\ UNCHANGED focuses
  <2>1. IsOpen(f.session) /\ f.session = LatestForSong(f.song)
    BY <1>7 DEF Stands, StillTheOpenOne
  <2>2. f.song = sessions[f.session].song
    BY <2>1, LatestIsOfTheSong
  <2> QED
    BY <1>7, <2>1, <2>2, SessionIsClosed
<1>8. CASE f.kind = "writing" /\ WriteDown(f) /\ UNCHANGED focuses
  <2>1. PICK k \in Kind : AppendScratch(f.session, k, TRUE)
    BY <1>8 DEF WriteDown, CaptureBound, Capture
  <2> QED
    BY <1>8, <2>1, ScratchIsAdded
<1>9. CASE f.kind = "remember" /\ RememberForSong(f) /\ UNCHANGED focuses
  <2>1. PromoteDecision(f.item, "SONG")
    BY <1>9 DEF RememberForSong, PromoteDecisionBound
  <2> QED
    BY <1>9, <2>1, DecisionIsPromoted
<1>10. CASE f.kind = "focus-set" /\ SetFocus(f.mode) /\ UNCHANGED sessionVars
  <2>1. f.mode \in Mode
    BY <1>10 DEF FormsAreShown
  <2>2. PICK s : StartFocus(f.mode, s)
    BY <1>10 DEF SetFocus
  <2> QED
    BY <1>10, <2>1, <2>2, FocusIsStarted
<1>11. CASE f.kind = "focus-end" /\ StopFocus /\ UNCHANGED sessionVars
  BY <1>11, FocusIsEnded DEF StopFocus
<1> QED
  BY <1>1, <1>2, <1>3, <1>4, <1>5, <1>6, <1>7, <1>8, <1>9, <1>10, <1>11 DEF Effect

LEMMA StoreStep ==
  ASSUME StoreInv, OneSong, FormsAreShown, [Next]_vars
  PROVE  StoreInv'
<1>1. ASSUME NEW f \in forms, Post(f) PROVE StoreInv'
  <2>1. f.kind \notin {"quit", "profile"} /\ ((Stands(f) /\ Effect(f)) \/ UNCHANGED hqVars)
    BY <1>1 DEF Post
  <2> QED
    BY <2>1, EffectOnStores, StoresStand
<1>2. CASE FinishImport
  <2>1. UNCHANGED <<sessionVars, focuses>> /\ ingest # None
    BY <1>2 DEF FinishImport
  <2>2. CASE CommitImport
    <3>1. PICK s, v, a : s = ingest.song /\ v = Len(versions) + 1 /\ a = Len(assets) + 1
      OBVIOUS
    <3>2. s \in Known
      BY <2>1, <3>1, NoneAssumption, LineageParts DEF OneSong, StoreInv, FilesTyped
    <3> QED
      BY <2>1, <2>2, <3>1, <3>2, ImportIsCommitted
  <2>3. CASE ImportFails
    BY <2>1, <2>3, FilesMove
  <2> QED
    BY <1>2, <2>2, <2>3 DEF FinishImport
<1>3. CASE Damaged
  <2>1. (\E d \in Digest : Damage(d)) /\ UNCHANGED <<sessionVars, focuses>>
    BY <1>3 DEF Damaged
  <2> QED
    BY <2>1, FilesMove
<1>4. ASSUME \/ \E f \in forms : PostProfile(f) \/ PostQuit(f)
             \/ \E page \in Page : Get(page) \/ GetNotRunning(page)
             \/ NoRequest \/ Hold \/ LetGo \/ AskToStop \/ Check \/ Restart \/ UNCHANGED vars
      PROVE  StoreInv'
  <2>1. UNCHANGED hqVars
    BY <1>4 DEF PostProfile, PostQuit, Get, GetNotRunning, NoRequest, Hold, LetGo, AskToStop,
                Check, Restart, vars, hqVars
  <2> QED
    BY <2>1, StoresStand
<1> QED
  BY <1>1, <1>2, <1>3, <1>4 DEF Next

LEMMA StoreStart == Init => StoreInv
<1> SUFFICES ASSUME Init PROVE StoreInv
  OBVIOUS
<1> DEFINE e == Event("ACTIVITY_TRACKING_ENABLED", None, None)
<1>1. /\ songs = [s \in Song |-> None] /\ active = None /\ versions = <<>> /\ assets = <<>>
      /\ blobs = [d \in Digest |-> "absent"] /\ ingest = None /\ decisions = <<>>
      /\ derivations = <<>> /\ events = <<e>>
      /\ sessions = <<>> /\ items = <<>> /\ focuses = <<>>
  BY DEF Init, LineageInit, SessionsInit, FocusInit
<1>2. e \in Row /\ e.song = None /\ e.version = None /\ e.type = "ACTIVITY_TRACKING_ENABLED"
  BY DEF Event, Row, EventType
<1> HIDE DEF e
<1>3. /\ events \in Seq(Row) /\ Len(events) = 1 /\ events[1] = e /\ events # <<>>
      /\ DOMAIN events = {1}
  BY <1>1, <1>2, FewLines, LenProperties, EmptySeq
<1>4. /\ \A S : <<>> \in Seq(S)
      /\ DOMAIN <<>> = {}
  BY EmptySeq
<1>5. EventsTyped
  <2> DEFINE T == [type : {events[i].type : i \in DOMAIN events}, song : Song \cup {None},
                   version : DOMAIN versions \cup {None}]
  <2>1. \A i \in 1..Len(events) : events[i] \in T
    BY <1>2, <1>3 DEF Row
  <2> HIDE DEF T
  <2>2. events \in Seq(T)
    BY <1>3, <2>1, SeqOver
  <2> QED
    BY <2>2 DEF T, EventsTyped, VersionId
<1>6. LineageTypeOK
  <2>1. SongsTyped /\ active \in Song \cup {None} /\ FilesTyped
    BY <1>1 DEF SongsTyped, FilesTyped
  <2>2. VersionsTyped /\ AssetsTyped /\ DecisionsTyped /\ DerivationsTyped
    BY <1>1, <1>4 DEF VersionsTyped, AssetsTyped, DecisionsTyped, DerivationsTyped
  <2> QED
    BY <1>5, <2>1, <2>2, LineageParts
<1>7. SessionsTypeOK /\ FocusTypeOK
  BY <1>1, <1>4 DEF SessionsTypeOK, FocusTypeOK
<1>8. Known = {}
  BY <1>1 DEF Known
<1>9. /\ PointersInv /\ LineageReadable /\ ActivityReadable /\ DecisionsReadable
      /\ SessionsReadable /\ FocusReadable
  BY <1>1, <1>2, <1>3, <1>4, <1>8 DEF PointersInv, LineageReadable, ActivityReadable,
     DecisionsReadable, SessionsReadable, FocusReadable
<1>10. PointersTold /\ SessionsTold
  BY <1>8 DEF PointersTold, SessionsTold
<1>11. FocusTold
  <2>1. FocusEvents = {}
    BY <1>2, <1>3 DEF FocusEvents, EventsOf, FocusTypes
  <2>2. ActiveFocus = 0
    BY <1>1, <1>4 DEF ActiveFocus
  <2> QED
    BY <2>1, <2>2 DEF FocusTold
<1> QED
  BY <1>3, <1>6, <1>7, <1>9, <1>10, <1>11, ToldParts DEF StoreInv

LEMMA WindowStep ==
  ASSUME StoreInv, WindowTypeOK, [Next]_vars
  PROVE  WindowTypeOK'
<1>1. active \in Song \cup {None}
  BY DEF StoreInv, LineageTypeOK
<1>2. ASSUME NEW page \in Page, Render(FormsOf(page))
      PROVE  \A f \in forms' \cup {shown'} : DOMAIN f = DOMAIN Blank /\ f.song \in Song \cup {None}
  <2>1. \A f \in FormsOf(page) \cup {Seen} : OfPage(f) /\ Seen.song = active
    BY PageForms, SeenOfPage
  <2> QED
    BY <1>1, <1>2, <2>1, BlankHasFields DEF Render, OfPage
<1>3. ASSUME NEW kind, Render({[Blank EXCEPT !.kind = kind]})
      PROVE  \A f \in forms' \cup {shown'} : DOMAIN f = DOMAIN Blank /\ f.song \in Song \cup {None}
  <2>1. \A f \in forms' : DOMAIN f = DOMAIN Blank /\ f.song = None
    BY <1>3 DEF Render, Blank
  <2>2. OfPage(Seen) /\ Seen.song = active
    BY SeenOfPage
  <2> QED
    BY <1>1, <1>3, <2>1, <2>2, BlankHasFields DEF Render, OfPage
<1>4. DOMAIN Blank = DOMAIN Blank /\ Blank.song = None
  BY DEF Blank
<1>5. ASSUME NEW f \in forms, Post(f) \/ PostProfile(f) PROVE WindowTypeOK'
  BY <1>5 DEF Post, PostProfile, WindowTypeOK, Answered, Launched
<1>6. ASSUME NEW f \in forms, PostQuit(f) PROVE WindowTypeOK'
  <2>1. CASE runtime' = "STOPPED" /\ forms' = forms \ {f} /\ UNCHANGED shown
    BY <1>6, <2>1 DEF PostQuit, WindowTypeOK, Answered
  <2>2. CASE Render({[Blank EXCEPT !.kind = "quit"]}) /\ runtime' = "RECOVERY_REQUIRED"
    BY <1>3, <1>6, <2>2 DEF PostQuit, WindowTypeOK, Answered
  <2> QED
    BY <1>6, <2>1, <2>2 DEF PostQuit
<1>7. ASSUME NEW page \in Page, Get(page) PROVE WindowTypeOK'
  BY <1>2, <1>7 DEF Get, WindowTypeOK, Answered
<1>8. ASSUME NEW page \in Page, GetNotRunning(page) PROVE WindowTypeOK'
  <2>1. Render(FormsOf(page)) \/ \E kind : Render({[Blank EXCEPT !.kind = kind]})
    BY <1>8 DEF GetNotRunning
  <2> QED
    BY <1>2, <1>3, <1>8, <2>1 DEF GetNotRunning, WindowTypeOK, Answered, Launched
<1>9. CASE FinishImport \/ Damaged \/ UNCHANGED vars
  BY <1>9 DEF FinishImport, Damaged, vars, shellVars, WindowTypeOK
<1>10. CASE NoRequest \/ Hold \/ LetGo \/ AskToStop \/ Check
  BY <1>10 DEF NoRequest, Hold, LetGo, AskToStop, Check, WindowTypeOK, Answered
<1>11. CASE Restart
  BY <1>4, <1>11 DEF Restart, WindowTypeOK
<1> QED
  BY <1>5, <1>6, <1>7, <1>8, <1>9, <1>10, <1>11 DEF Next

LEMMA WindowStart == Init => WindowTypeOK
<1> SUFFICES ASSUME Init PROVE WindowTypeOK
  OBVIOUS
<1>1. DOMAIN Blank = DOMAIN Blank /\ Blank.song = None
  BY DEF Blank
<1>2. runtime = "STOPPED" /\ loop = "check" /\ stop = FALSE /\ closed = FALSE
      /\ forms \cup {shown} = {Blank}
  BY DEF Init
<1> QED
  BY <1>1, <1>2 DEF WindowTypeOK

\* The stores of the profile, the window, its one Song and its forms keep together, over
\* every request, import and restart.
THEOREM RecordInvariant == Spec => []RecordInv
<1>1. Init => RecordInv
  BY StoreStart, WindowStart, OneSongStart DEF RecordInv
<1>2. RecordInv /\ [Next]_vars => RecordInv'
  <2> SUFFICES ASSUME RecordInv, [Next]_vars PROVE RecordInv'
    OBVIOUS
  <2>1. StoreInv /\ WindowTypeOK /\ OneSong /\ FormsAreShown /\ LineageTypeOK
    BY DEF RecordInv, StoreInv
  <2>2. StoreInv'
    BY <2>1, StoreStep
  <2>3. WindowTypeOK'
    BY <2>1, WindowStep
  <2>4. OneSong' /\ FormsAreShown'
    BY <2>1, OneSongStep
  <2> QED
    BY <2>2, <2>3, <2>4 DEF RecordInv
<1> QED
  BY <1>1, <1>2, PTL DEF Spec

\* Whatever the artist did, the validators that run when the profile is opened accept it
\* (lineage.py:294, activity.py:205, session.py:387, attention.py:196,
\* version_compare_decision.py:206), and the chronology tells the Versions, the Session
\* and the focus that were so when it was left.
THEOREM ReopensTrue == Spec => []ReopensAsLeft
<1>1. RecordInv => ReopensAsLeft
  BY DEF RecordInv, StoreInv, WindowTypeOK, ReopensAsLeft, HistoryReadable, TypeOK
<1> QED
  BY <1>1, RecordInvariant, PTL

-----------------------------------------------------------------------------
(* A form acts on what its page showed *)

PointersMoveAsShown ==
  \A s \in Known :
    /\ songs'[s].approved # songs[s].approved =>
         shown.song = s /\ shown.current = songs[s].current
           /\ shown.approved = songs[s].approved
    /\ songs'[s].current # songs[s].current /\ versions' = versions =>
         shown.song = s /\ shown.current = songs[s].current
    /\ Len(versions') > Len(versions) => shown.song = s

RowsAreOfTheShown ==
  /\ Len(decisions') > Len(decisions) =>
       shown.song = active /\ decisions'[Len(decisions')].current = shown.current
  /\ Len(items') > Len(items) => sessions[items'[Len(items')].session].song = shown.song
  /\ Len(focuses') > Len(focuses) => focuses'[Len(focuses')].song \in {None, shown.song}

LEMMA Lengths ==
  ASSUME StoreInv
  PROVE  /\ Len(versions) \in Nat /\ Len(decisions) \in Nat /\ Len(items) \in Nat
         /\ Len(focuses) \in Nat
<1>1. LineageTypeOK /\ SessionsTypeOK /\ FocusTypeOK
  BY DEF StoreInv
<1>2. Len(decisions) \in Nat
  BY <1>1, LenProperties DEF LineageTypeOK
<1>3. Len(focuses) \in Nat
  BY <1>1, LenProperties DEF FocusTypeOK
<1> QED
  BY <1>1, <1>2, <1>3, Ids, SessionRows

\* A table that a step leaves alone gets no row.
LEMMA NoRow ==
  ASSUME StoreInv
  PROVE  /\ UNCHANGED <<songs, versions>> => PointersMoveAsShown
         /\ UNCHANGED decisions => ~(Len(decisions') > Len(decisions))
         /\ UNCHANGED items => ~(Len(items') > Len(items))
         /\ UNCHANGED focuses => ~(Len(focuses') > Len(focuses))
         /\ UNCHANGED <<decisions, items, focuses>> => RowsAreOfTheShown
BY Lengths DEF PointersMoveAsShown, RowsAreOfTheShown

LEMMA NothingShown ==
  ASSUME StoreInv, UNCHANGED hqVars
  PROVE  PointersMoveAsShown /\ RowsAreOfTheShown
BY NoRow DEF hqVars, lineageVars, recordVars, sessionVars

LEMMA EffectAsShown ==
  ASSUME StoreInv, StoreInv', OneSong, FormsAreShown,
         NEW f \in forms, f.kind \notin {"quit", "profile"}, Stands(f), Effect(f)
  PROVE  PointersMoveAsShown /\ RowsAreOfTheShown
<1>1. /\ f.song = shown.song /\ f.current = shown.current /\ f.approved = shown.approved
      /\ f.kind = "song-start" => active = None
      /\ f.kind # "song-start" => f.song = active
  BY DEF FormsAreShown
<1>2. /\ Len(versions) \in Nat /\ Len(decisions) \in Nat /\ Len(items) \in Nat
      /\ Len(focuses) \in Nat
  BY Lengths
<1>3. CASE f.kind = "song-start" /\ StartSong
  <2>1. Known = {}
    BY <1>1, <1>3 DEF OneSong
  <2>2. UNCHANGED <<decisions, items, focuses>>
    BY <1>3 DEF StartSong, CreateSong, sessionVars
  <2> QED
    BY <2>1, <2>2, NoRow DEF PointersMoveAsShown
<1>4. CASE f.kind = "material" /\ Import(f)
  <2>1. UNCHANGED <<songs, versions, decisions, items, focuses>>
    BY <1>4 DEF Import, InstallBlob, lineageVars, recordVars, sessionVars
  <2> QED
    BY <2>1, NoRow
<1>5. CASE f.kind \in {"resume", "approve"} /\ (Resume(f) \/ ApproveBound(f))
            /\ UNCHANGED <<sessionVars, focuses>>
  <2>1. UNCHANGED <<versions, decisions, items, focuses>>
    BY <1>5 DEF Resume, SetCurrentVersion, ApproveBound, ApproveVersion, sessionVars
  <2>2. PICK v : /\ f.song \in Known /\ v \in VersionsOf(f.song)
                 /\ \/ songs' = [songs EXCEPT ![f.song].current = v]
                    \/ /\ songs' = [songs EXCEPT ![f.song].approved = v]
                       /\ songs[f.song].approved = f.approved
                 /\ songs[f.song].current = f.current
    BY <1>5 DEF Resume, SetCurrentVersion, ApproveBound, ApproveVersion, Stands, CurrentIsAsShown,
                PointersAreAsShown
  <2>3. v \in Nat /\ songs \in [Song -> {None} \cup SongRow]
    BY <2>2, Ids, VersionIds DEF StoreInv
  <2>4. PICK s \in Known : s = f.song
    BY <2>2
  <2>5. /\ \A t \in Song \ {s} : songs'[t] = songs[t]
        /\ \/ songs'[s].approved = songs[s].approved
           \/ songs'[s].current = songs[s].current /\ songs[s].approved = f.approved
    BY <2>2, <2>3, <2>4, PointerMoves
  <2>6. PointersMoveAsShown
    <3> SUFFICES ASSUME NEW t \in Known
                 PROVE  /\ songs'[t].approved # songs[t].approved =>
                             shown.song = t /\ shown.current = songs[t].current
                               /\ shown.approved = songs[t].approved
                        /\ songs'[t].current # songs[t].current =>
                             shown.song = t /\ shown.current = songs[t].current
      BY <1>2, <2>1 DEF PointersMoveAsShown
    <3>1. CASE t = s
      BY <1>1, <2>2, <2>4, <2>5, <3>1
    <3>2. CASE t # s
      BY <2>5, <3>2 DEF Known
    <3> QED
      BY <3>1, <3>2
  <2> QED
    BY <2>1, <2>6, NoRow
<1>6. CASE f.kind = "decide" /\ Judge(f) /\ UNCHANGED <<sessionVars, focuses>>
  <2>1. PICK judgment \in Judgment :
          RecordDecision([song |-> f.song, reference |-> f.target, current |-> f.current], judgment)
    BY <1>6 DEF Judge
  <2> DEFINE row == [song |-> f.song, reference |-> f.target, current |-> f.current,
                     judgment |-> judgment]
  <2>2. UNCHANGED <<songs, versions, items, focuses>> /\ decisions' = Append(decisions, row)
    BY <1>6, <2>1 DEF RecordDecision, sessionVars
  <2>3. row.current = f.current
    OBVIOUS
  <2> HIDE DEF row
  <2>4. PICK S : decisions \in Seq(S)
    BY DEF StoreInv, LineageTypeOK
  <2>5. Len(decisions') = Len(decisions) + 1 /\ decisions'[Len(decisions) + 1] = row
    <3>1. decisions \in Seq(S \cup {row}) /\ row \in S \cup {row}
      BY <2>4, SeqMonotonic
    <3> QED
      BY <2>2, <3>1, Appended
  <2>6. RowsAreOfTheShown
    BY <1>1, <1>6, <2>2, <2>3, <2>5, NoRow DEF RowsAreOfTheShown
  <2> QED
    BY <2>2, <2>6, NoRow
<1>7. CASE \/ f.kind = "session-start" /\ StartSession(f.song, None) /\ UNCHANGED focuses
           \/ f.kind = "finish" /\ CloseSession(f.session) /\ UNCHANGED focuses
  <2>1. UNCHANGED <<songs, versions, decisions, items, focuses>>
    BY <1>7 DEF StartSession, CloseSession, recordVars
  <2> QED
    BY <2>1, NoRow
<1>8. CASE f.kind \in {"capture", "writing"} /\ UNCHANGED focuses
            /\ (AppendScratch(f.session, f.mode, FALSE) \/ WriteDown(f))
  <2>1. PICK kind, written : AppendScratch(f.session, kind, written)
    BY <1>8 DEF WriteDown, CaptureBound, Capture
  <2> DEFINE row == [session |-> f.session, kind |-> kind, written |-> written,
                     request |-> None, claim |-> None]
  <2>2. UNCHANGED <<songs, versions, decisions, focuses>> /\ items' = Append(items, row)
    BY <1>8, <2>1 DEF AppendScratch, recordVars
  <2>3. sessions[f.session].song = f.song
    <3>1. f.session = LatestForSong(f.song) /\ IsOpen(f.session)
      BY <1>8 DEF Stands, StillTheOpenOne, CaptureStands
    <3> QED
      BY <3>1, LatestIsOfTheSong
  <2>4. row.session = f.session
    OBVIOUS
  <2> HIDE DEF row
  <2>5. Len(items') = Len(items) + 1 /\ items'[Len(items) + 1] = row
    <3>1. items \in Seq(ItemRow \cup {row}) /\ row \in ItemRow \cup {row}
      BY SessionRows, SeqMonotonic
    <3> QED
      BY <2>2, <3>1, Appended
  <2>6. RowsAreOfTheShown
    BY <1>1, <2>2, <2>3, <2>4, <2>5, NoRow DEF RowsAreOfTheShown
  <2> QED
    BY <2>2, <2>6, NoRow
<1>9. CASE f.kind = "remember" /\ RememberForSong(f) /\ UNCHANGED focuses
  <2>1. PICK terms : items' = [items EXCEPT ![f.item].request = terms, ![f.item].claim = terms]
    BY <1>9 DEF RememberForSong, PromoteDecisionBound, PromoteDecision
  <2>2. UNCHANGED <<songs, versions, decisions, focuses>>
    BY <1>9 DEF RememberForSong, PromoteDecisionBound, PromoteDecision, recordVars
  <2>3. DOMAIN items = 1..Len(items) /\ DOMAIN items' = DOMAIN items
    BY <2>1, SessionRows
  <2>4. Len(items') \in Nat /\ DOMAIN items' = 1..Len(items')
    BY LenProperties DEF StoreInv, SessionsTypeOK
  <2>5. ~(Len(items') > Len(items))
    <3> SUFFICES ASSUME Len(items') > Len(items) PROVE FALSE
      OBVIOUS
    <3>1. Len(items') \in 1..Len(items') /\ Len(items') \notin 1..Len(items)
      BY <1>2, <2>4
    <3> QED
      BY <2>3, <2>4, <3>1
  <2> QED
    BY <2>2, <2>5, NoRow DEF RowsAreOfTheShown
<1>10. CASE f.kind = "focus-set" /\ SetFocus(f.mode) /\ UNCHANGED sessionVars
  <2>1. PICK s \in {None, active} : StartFocus(f.mode, s)
    BY <1>10 DEF SetFocus
  <2>2. UNCHANGED <<songs, versions, decisions, items>>
    BY <1>10, <2>1 DEF StartFocus, recordVars, sessionVars
  <2>3. RowsAreOfTheShown
    <3>1. CASE UNCHANGED focuses
      BY <2>2, <3>1, NoRow DEF RowsAreOfTheShown
    <3>2. CASE focuses' = Append(Ended(focuses, "SWITCHED"),
                        [song |-> s, mode |-> f.mode, state |-> "ACTIVE", reason |-> None])
      <4>1. PICK r : r = Ended(focuses, "SWITCHED")
        OBVIOUS
      <4> DEFINE row == [song |-> s, mode |-> f.mode, state |-> "ACTIVE", reason |-> None]
      <4>2. focuses' = Append(r, row) /\ row.song = s
        BY <3>2, <4>1
      <4> HIDE DEF row
      <4>3. r \in Seq(FocusRow \cup {row}) /\ row \in FocusRow \cup {row} /\ Len(r) = Len(focuses)
        BY <4>1, EndedIs, SeqMonotonic DEF StoreInv
      <4>4. Len(focuses') = Len(focuses) + 1 /\ focuses'[Len(focuses) + 1] = row
        BY <4>2, <4>3, Appended
      <4> QED
        BY <1>1, <1>10, <2>1, <2>2, <4>2, <4>4, NoRow DEF RowsAreOfTheShown
    <3> QED
      BY <2>1, <3>1, <3>2 DEF StartFocus
  <2> QED
    BY <2>2, <2>3, NoRow
<1>11. CASE f.kind = "focus-end" /\ StopFocus /\ UNCHANGED sessionVars
  <2>1. UNCHANGED <<songs, versions, decisions, items>> /\ focuses' = Ended(focuses, "ENDED")
    BY <1>11 DEF StopFocus, EndFocus, recordVars, sessionVars
  <2>2. PICK r : r = Ended(focuses, "ENDED")
    OBVIOUS
  <2>3. Len(r) = Len(focuses)
    BY <2>2, EndedIs DEF StoreInv
  <2>4. ~(Len(focuses') > Len(focuses))
    BY <1>2, <2>1, <2>2, <2>3
  <2> QED
    BY <2>1, <2>4, NoRow DEF RowsAreOfTheShown
<1> QED
  BY <1>3, <1>4, <1>5, <1>6, <1>7, <1>8, <1>9, <1>10, <1>11 DEF Effect

LEMMA StepAsShown ==
  ASSUME StoreInv, StoreInv', OneSong, FormsAreShown, [Next]_vars
  PROVE  PointersMoveAsShown /\ RowsAreOfTheShown
<1>1. ASSUME NEW f \in forms, Post(f) PROVE PointersMoveAsShown /\ RowsAreOfTheShown
  <2>1. f.kind \notin {"quit", "profile"} /\ ((Stands(f) /\ Effect(f)) \/ UNCHANGED hqVars)
    BY <1>1 DEF Post
  <2> QED
    BY <2>1, EffectAsShown, NothingShown
<1>2. CASE FinishImport
  <2>1. UNCHANGED <<decisions, items, focuses>> /\ ingest # None
    BY <1>2 DEF FinishImport, CommitImport, ImportFails, sessionVars
  <2>2. CASE CommitImport
    <3>1. PICK s, v : s = ingest.song /\ v = Len(versions) + 1
      OBVIOUS
    <3>2. s \in Known /\ s = shown.song /\ Known = {s}
      BY <2>1, <3>1, NoneAssumption, LineageParts DEF OneSong, StoreInv, FilesTyped
    <3>3. songs' = [songs EXCEPT ![s].current = v] /\ v \in Nat
      BY <2>2, <3>1, Lengths DEF CommitImport, NewVersion
    <3>4. songs'[s].approved = songs[s].approved
      BY <3>2, <3>3, Ids, PointerMoves DEF StoreInv
    <3>5. versions' # versions
      <4>1. \E row : versions' = Append(versions, row)
        BY <2>2 DEF CommitImport, NewVersion
      <4>2. PICK row : versions' = Append(versions, row)
        BY <4>1
      <4>3. PICK S : versions \in Seq(S)
        BY DEF StoreInv, LineageTypeOK
      <4>4. versions \in Seq(S \cup {row}) /\ row \in S \cup {row}
        BY <4>3, SeqMonotonic
      <4>5. Len(versions') = Len(versions) + 1
        BY <4>2, <4>4, Appended
      <4> QED
        BY <4>5, Lengths
    <3> QED
      BY <2>1, <3>2, <3>4, <3>5, NoRow DEF PointersMoveAsShown
  <2>3. CASE ImportFails
    BY <2>1, <2>3, NoRow DEF ImportFails
  <2> QED
    BY <1>2, <2>2, <2>3 DEF FinishImport
<1>3. CASE Damaged
  BY <1>3, NoRow DEF Damaged, Damage, sessionVars
<1>4. ASSUME \/ \E f \in forms : PostProfile(f) \/ PostQuit(f)
             \/ \E page \in Page : Get(page) \/ GetNotRunning(page)
             \/ NoRequest \/ Hold \/ LetGo \/ AskToStop \/ Check \/ Restart \/ UNCHANGED vars
      PROVE  PointersMoveAsShown /\ RowsAreOfTheShown
  <2>1. UNCHANGED hqVars
    BY <1>4 DEF PostProfile, PostQuit, Get, GetNotRunning, NoRequest, Hold, LetGo, AskToStop,
                Check, Restart, vars, hqVars
  <2> QED
    BY <2>1, NothingShown
<1> QED
  BY <1>1, <1>2, <1>3, <1>4 DEF Next

\* The checks of the handlers of consumer_shell.py hold an old form to the page it was on:
\* what it approves, resumes, notes, judges and focuses on is what that page showed.
THEOREM FormsActAsShown == Spec => ActsOnWhatWasShown
<1>1. RecordInv /\ RecordInv' /\ [Next]_vars =>
        [PointersMoveAsShown /\ RowsAreOfTheShown]_vars
  BY StepAsShown DEF RecordInv
<1> QED
  BY <1>1, RecordInvariant, PTL DEF Spec, ActsOnWhatWasShown, PointersMoveAsShown,
     RowsAreOfTheShown
=============================================================================
