---------------------------- MODULE ConsumerShell ----------------------------
(***************************************************************************)
(* n0te2/consumer_shell.py, with songwriting_shell.py and                     *)
(* version_compare_shell.py, over the stores of a profile: the local window   *)
(* the artist works in.  And n0te2/attention.py, the focus of the profile.    *)
(*                                                                         *)
(* One thread answers requests.  A page carries forms, each good for one      *)
(* POST; a new page withdraws the forms of the one before.  The browser may   *)
(* hold any number of old pages and send their forms in any order.            *)
(***************************************************************************)
EXTENDS SongSessions

CONSTANTS
  Mode,       \* the kinds of work that deserve attention
  SongMode,   \* the modes of focus that follow the active Song
  Within(_)   \* a bound: the Versions there may be and how long the chronology

ASSUME SongModeAssumption == SongMode \subseteq Mode

ASSUME ReasonAssumption == None \notin {"ENDED", "SWITCHED"}

VARIABLES
  focuses,  \* table attention_focus_sessions
  runtime,  \* state of the ApplicationRuntime
  loop,     \* _serve: "check"s for a stop, is "serving" one request, is "held" by a browser
            \* that neither finishes its request nor takes the answer, or has "ended"
  stop,     \* _stop_requested
  closed,   \* the page that says N0TE is closed was delivered
  forms,    \* _actions: the forms that can still be sent
  shown     \* what the last page said of the active Song

shellVars == <<runtime, loop, stop, closed, forms, shown>>
hqVars    == <<lineageVars, sessionVars, focuses>>
vars      == <<shellVars, hqVars>>

-----------------------------------------------------------------------------
(* AttentionMemory: what kind of work deserves the artist's attention, and for which *)
(* Song.  At most one focus is active in a profile.                            *)

ActiveFocus == LET on == {i \in DOMAIN focuses : focuses[i].state = "ACTIVE"} IN
               IF on = {} THEN 0 ELSE CHOOSE i \in on : \A j \in on : j <= i

Ended(rows, reason) ==
  IF ActiveFocus = 0 THEN rows
  ELSE [rows EXCEPT ![ActiveFocus].state = "ENDED", ![ActiveFocus].reason = reason]

EndedEvents == IF ActiveFocus = 0 THEN <<>>
               ELSE <<Event("FOCUS_SESSION_ENDED", focuses[ActiveFocus].song, None)>>

\* The focus that is on already is answered as it is; another is ended first.
StartFocus(mode, s) ==
  /\ s \in Known \cup {None}
  /\ IF ActiveFocus # 0 /\ focuses[ActiveFocus].mode = mode /\ focuses[ActiveFocus].song = s
     THEN UNCHANGED <<focuses, events>>
     ELSE /\ focuses' = Append(Ended(focuses, "SWITCHED"),
                               [song |-> s, mode |-> mode, state |-> "ACTIVE", reason |-> None])
          /\ Log(EndedEvents \o <<Event("FOCUS_SESSION_STARTED", s, None)>>)
  /\ UNCHANGED recordVars

EndFocus ==
  /\ focuses' = Ended(focuses, "ENDED")
  /\ Log(EndedEvents)
  /\ UNCHANGED recordVars

FocusInit == focuses = <<>>

FocusTypeOK ==
  focuses \in Seq([song : Song \cup {None}, mode : Mode, state : {"ACTIVE", "ENDED"},
                   reason : {None, "ENDED", "SWITCHED"}])

\* _validate_existing.
FocusReadable ==
  /\ \A i \in DOMAIN focuses :
       /\ focuses[i].song \in Known \cup {None}
       /\ (focuses[i].state = "ACTIVE") <=> (focuses[i].reason = None)
  /\ \A i, j \in DOMAIN focuses :
       focuses[i].state = "ACTIVE" /\ focuses[j].state = "ACTIVE" => i = j

-----------------------------------------------------------------------------
(* Pages and their forms *)

Blank == [kind |-> None, song |-> None, target |-> None, current |-> None, approved |-> None,
          session |-> None, version |-> None, item |-> None, mode |-> None]

Seen == IF active = None THEN Blank
        ELSE [Blank EXCEPT !.song = active, !.current = songs[active].current,
                           !.approved = songs[active].approved]

Form(kind) == [Seen EXCEPT !.kind = kind]

ResumeForms ==
  IF Seen.current = None THEN {}
  ELSE {[Form("resume") EXCEPT !.target = v] : v \in VersionsOf(active) \ {Seen.current}}

ApproveForms ==
  {[Form("approve") EXCEPT !.target = v] : v \in VersionsOf(active) \ {Seen.approved}}

\* A form that is bound to the latest Session of the Song.
SessionForm(kind) ==
  LET last == LatestForSong(active) IN
  [Form(kind) EXCEPT !.session = last, !.version = sessions[last].version]

SessionForms ==
  IF ~IsOpen(LatestForSong(active)) THEN {Form("session-start")}
  ELSE {SessionForm("finish")} \cup {[SessionForm("capture") EXCEPT !.mode = k] : k \in Kind}

WritingForms == IF IsOpen(LatestForSong(active)) THEN {SessionForm("writing")} ELSE {}

RememberForms ==
  {[Form("remember") EXCEPT !.item = i, !.session = items[i].session,
                            !.version = sessions[items[i].session].version] :
     i \in {j \in DOMAIN items : items[j].written /\ items[j].kind = "DECISION"
              /\ items[j].claim = None /\ sessions[items[j].session].song = active}}

\* VersionCompareService: the neighbour a Version is compared with.
ReferenceFor(v) ==
  LET peers   == VersionsOf(versions[v].song) \ {v}
      earlier == {p \in peers : versions[p].ordinal < versions[v].ordinal}
  IN IF versions[v].parent # None THEN versions[v].parent
     ELSE IF earlier # {} THEN CHOOSE p \in earlier : \A q \in earlier : q <= p
     ELSE IF peers # {} THEN CHOOSE p \in peers : \A q \in peers : p <= q
     ELSE None

\* One side of a comparison.
Auditionable(v) == \E a \in versions[v].assets : AssetStatus(a) = "VERIFIED_MANAGED"

\* prepare: the Version the current one is compared with, when both can be heard.
ReadyReference ==
  LET v == Seen.current  r == IF v = None THEN None ELSE ReferenceFor(v) IN
  IF r # None /\ Auditionable(v) /\ Auditionable(r) THEN r ELSE None

CompareForms ==
  IF ReadyReference = None THEN {} ELSE {[Form("decide") EXCEPT !.target = ReadyReference]}

StartSongForm == Form("song-start")

MaterialForm == Form("material")

FormsOf(page) ==
  CASE page = "settings" -> {Form("quit")}
    [] page = "now"      -> {[Form("focus-set") EXCEPT !.mode = m] : m \in Mode}
                              \cup (IF ActiveFocus = 0 THEN {} ELSE {Form("focus-end")})
    [] page = "home"     -> IF active = None THEN {StartSongForm} ELSE {}
    [] page = "compare"  -> CompareForms
    [] page = "song"     -> IF active = None THEN {StartSongForm}
                            ELSE {MaterialForm} \cup ResumeForms \cup ApproveForms
                                   \cup SessionForms \cup WritingForms \cup RememberForms

Page == {"home", "song", "now", "compare", "settings"}

\* A bug: the forms of earlier pages stay good.
RenderMore(offered) == forms' = forms \cup offered /\ shown' = Seen

\* _render_state: _reset_actions, then the new ones.
Render(offered) == forms' = offered /\ shown' = Seen

-----------------------------------------------------------------------------
(* What the handlers check of a form, and what they then do *)

ForActiveSong(f) == active = f.song

CurrentIsAsShown(f) == ForActiveSong(f) /\ songs[f.song].current = f.current

PointersAreAsShown(f) == CurrentIsAsShown(f) /\ songs[f.song].approved = f.approved

NoneIsOpen(f) == ForActiveSong(f) /\ ~IsOpen(LatestForSong(f.song))

StillTheOpenOne(f) == ForActiveSong(f) /\ IsOpen(f.session) /\ LatestForSong(f.song) = f.session

\* A DECISION is remembered for its Song once, however often it is asked for.
Rememberable(f) ==
  PromotionStands(f) /\ items[f.item].request \in {None, Terms(f.item, "SONG", "songwriting")}

SamePair(f) ==
  CurrentIsAsShown(f) /\ ReadyReference = f.target

Stands(f) ==
  CASE f.kind \in {"song-start", "focus-set", "focus-end"} -> TRUE
    [] f.kind = "material"      -> ForActiveSong(f)
    [] f.kind = "resume"        -> CurrentIsAsShown(f)
    [] f.kind = "approve"       -> PointersAreAsShown(f)
    [] f.kind = "session-start" -> NoneIsOpen(f)
    [] f.kind \in {"capture", "finish"} -> StillTheOpenOne(f)
    [] f.kind = "writing"       -> CaptureStands(f)
    [] f.kind = "remember"      -> Rememberable(f)
    [] f.kind = "decide"        -> SamePair(f)

\* set_current_version after the checks of _post_resume_version.
Resume(f) == SetCurrentVersion(f.song, f.target)

\* create_song, under an identity of its own.
StartSong ==
  \E s \in Song : CreateSong(s) /\ UNCHANGED <<sessionVars, focuses>>

\* The first half of the import; the thread is busy with it until the second.
Import(f) ==
  /\ \/ \E d \in Digest : InstallBlob(f.song, d)
     \/ UNCHANGED lineageVars                      \* the upload is refused
  /\ UNCHANGED <<sessionVars, focuses>>

\* The kind of the note is chosen on the form.
WriteDown(f) == \E k \in Kind : CaptureBound(f, k)

RememberForSong(f) == PromoteDecisionBound(f, "SONG")

Judge(f) ==
  \E judgment \in Judgment :
    RecordDecision([song |-> f.song, reference |-> f.target, current |-> f.current], judgment)

\* Some modes of focus are on the Song that is active when the form arrives.
SetFocus(mode) == StartFocus(mode, IF mode \in SongMode THEN active ELSE None)

\* _post_focus_end of no focus is a page like any other.
StopFocus == EndFocus

Effect(f) ==
  \/ f.kind = "song-start" /\ StartSong
  \/ f.kind = "material" /\ Import(f)
  \/ /\ \/ f.kind = "resume" /\ Resume(f)
        \/ f.kind = "approve" /\ ApproveBound(f)
        \/ f.kind = "decide" /\ Judge(f)
     /\ UNCHANGED <<sessionVars, focuses>>
  \/ /\ \/ f.kind = "session-start" /\ StartSession(f.song, None)
        \/ f.kind = "capture" /\ AppendScratch(f.session, f.mode, FALSE)
        \/ f.kind = "finish" /\ CloseSession(f.session)
        \/ f.kind = "writing" /\ WriteDown(f)
        \/ f.kind = "remember" /\ RememberForSong(f)
     /\ UNCHANGED focuses
  \/ /\ \/ f.kind = "focus-set" /\ SetFocus(f.mode)
        \/ f.kind = "focus-end" /\ StopFocus
     /\ UNCHANGED sessionVars

-----------------------------------------------------------------------------
(* The thread *)

Serving == loop = "serving" /\ ingest = None

\* The browser may be slow to take the answer.
Answered == loop' \in {"check", "held"} /\ (ingest' # None => loop' = "check")

\* A form is used up whether or not what it says still stands.
Post(f) ==
  /\ Serving /\ runtime = "RUNNING" /\ f \in forms /\ f.kind \notin {"quit", "profile"}
  /\ forms' = forms \ {f}
  /\ IF Stands(f) THEN Effect(f) ELSE UNCHANGED hqVars
  /\ Answered
  /\ UNCHANGED <<runtime, stop, closed, shown>>

\* The rest of _post_song_material.
FinishImport ==
  /\ ingest # None
  /\ CommitImport \/ ImportFails
  /\ UNCHANGED <<shellVars, sessionVars, focuses>>

Get(page) ==
  /\ Serving /\ runtime = "RUNNING"
  /\ Render(FormsOf(page))
  /\ UNCHANGED <<runtime, stop, closed, hqVars>>
  /\ Answered

\* What launch() may come to; the profiles may leave a choice to the artist.
Launched == runtime' \in {"RUNNING", "STOPPED", "RECOVERY_REQUIRED"}

\* _ensure_runtime.
GetNotRunning(page) ==
  /\ Serving /\ runtime # "RUNNING"
  /\ IF runtime = "STOPPED" THEN Launched ELSE UNCHANGED runtime
  /\ Render(CASE runtime' = "RUNNING" -> FormsOf(page)
              [] runtime' = "STOPPED" -> {[Blank EXCEPT !.kind = "profile"]}
              [] OTHER                -> {[Blank EXCEPT !.kind = "quit"]})
  /\ UNCHANGED <<stop, closed, hqVars>>
  /\ Answered

\* Creating or choosing a profile launches it.
PostProfile(f) ==
  /\ Serving /\ f \in forms /\ f.kind = "profile"
  /\ forms' = forms \ {f}
  /\ IF runtime = "STOPPED" THEN Launched ELSE UNCHANGED runtime
  /\ UNCHANGED <<stop, closed, shown, hqVars>>
  /\ Answered

\* _post_quit.  The page may not reach the browser, and then no stop is asked for.
PostQuit(f) ==
  /\ Serving /\ f \in forms /\ f.kind = "quit"
  /\ UNCHANGED hqVars
  /\ \/ /\ runtime' = "STOPPED" /\ forms' = forms \ {f} /\ UNCHANGED shown
        /\ \/ stop' = TRUE /\ closed' = TRUE /\ loop' = "check"
           \/ UNCHANGED <<stop, closed>> /\ Answered
     \/ /\ runtime # "STOPPED" /\ runtime' = "RECOVERY_REQUIRED"
        /\ Render({[Blank EXCEPT !.kind = "quit"]})
        /\ UNCHANGED <<stop, closed>> /\ Answered

\* handle_request returns after a tenth of a second without a connection.
NoRequest ==
  /\ Serving /\ loop' = "check"
  /\ UNCHANGED <<runtime, stop, closed, forms, shown, hqVars>>

\* No such limit is on a connection: one that sends no whole request keeps the thread.
Hold ==
  /\ Serving /\ loop' = "held"
  /\ UNCHANGED <<runtime, stop, closed, forms, shown, hqVars>>

\* The browser goes on, or closes the connection.
LetGo ==
  /\ loop = "held" /\ loop' = "check"
  /\ UNCHANGED <<runtime, stop, closed, forms, shown, hqVars>>

\* stop(), of another thread.
AskToStop ==
  /\ loop # "ended" /\ ~stop
  /\ stop' = TRUE
  /\ UNCHANGED <<runtime, loop, closed, forms, shown, hqVars>>

\* A bug: a request is answered first.
CheckLate ==
  /\ loop = "check" /\ ingest = None
  /\ \/ loop' = "serving" /\ UNCHANGED <<runtime, stop>>
     \/ stop /\ runtime' = "STOPPED" /\ loop' = "ended" /\ UNCHANGED stop
  /\ UNCHANGED <<closed, forms, shown, hqVars>>

\* A bug: a failed attempt is forgotten, the profile worked on.
CheckOnce ==
  /\ loop = "check" /\ ingest = None
  /\ \/ ~stop /\ loop' = "serving" /\ UNCHANGED <<runtime, stop>>
     \/ stop /\ runtime' = "STOPPED" /\ loop' = "ended" /\ UNCHANGED stop
     \/ stop /\ runtime # "STOPPED" /\ stop' = FALSE /\ loop' = "serving" /\ UNCHANGED runtime
  /\ UNCHANGED <<closed, forms, shown, hqVars>>

\* _serve between two requests.
Check ==
  /\ loop = "check" /\ ingest = None
  /\ \/ ~stop /\ loop' = "serving" /\ UNCHANGED <<runtime, stop>>
     \/ stop /\ runtime' = "STOPPED" /\ loop' = "ended" /\ UNCHANGED stop
     \/ /\ stop /\ runtime # "STOPPED"
        /\ runtime' = "RECOVERY_REQUIRED" /\ stop' = FALSE /\ loop' = "serving"
  /\ UNCHANGED <<closed, forms, shown, hqVars>>

\* The artist opens N0TE again.
Restart ==
  /\ loop = "ended"
  /\ loop' = "check" /\ stop' = FALSE /\ closed' = FALSE
  /\ forms' = {} /\ shown' = Blank
  /\ UNCHANGED <<runtime, hqVars>>

\* Something else damages the material.
Damaged ==
  /\ ingest = None
  /\ \E d \in Digest : Damage(d)
  /\ UNCHANGED <<shellVars, sessionVars, focuses>>

-----------------------------------------------------------------------------

Init ==
  /\ LineageInit /\ SessionsInit /\ FocusInit
  /\ runtime = "STOPPED" /\ loop = "check" /\ stop = FALSE /\ closed = FALSE
  /\ forms = {} /\ shown = Blank

Rows == [versions |-> Len(versions), events |-> Len(events)]

Next ==
  /\ \/ \E f \in forms : Post(f) \/ PostProfile(f) \/ PostQuit(f)
     \/ FinishImport
     \/ \E page \in Page : Get(page) \/ GetNotRunning(page)
     \/ NoRequest \/ Hold \/ LetGo \/ AskToStop \/ Check \/ Restart \/ Damaged
  /\ \E rows \in {Rows'} : Within(rows)

\* The thread keeps running, waits for a connection no longer than it is told to, and
\* comes to the end of an import it has begun.  Nothing is said of the browser.
Fairness == WF_vars(Check) /\ WF_vars(NoRequest) /\ WF_vars(FinishImport)

Spec == Init /\ [][Next]_vars /\ Fairness

WindowTypeOK ==
  /\ runtime \in {"RUNNING", "STOPPED", "RECOVERY_REQUIRED"}
  /\ loop \in {"check", "serving", "held", "ended"} /\ stop \in BOOLEAN /\ closed \in BOOLEAN
  /\ \A f \in forms \cup {shown} : DOMAIN f = DOMAIN Blank /\ f.song \in Song \cup {None}

TypeOK == LineageTypeOK /\ SessionsTypeOK /\ FocusTypeOK /\ WindowTypeOK

-----------------------------------------------------------------------------
(* Properties *)

\* Whatever the artist did, the stores accept the profile the next time it is opened:
\* their validators (lineage.py:294, activity.py:205, session.py:387, attention.py:196,
\* version_compare_decision.py:206).
HistoryReadable ==
  TypeOK /\ LineageReadable /\ ActivityReadable /\ DecisionsReadable
    /\ SessionsReadable /\ FocusReadable

EventsOf(types, s) == {i \in DOMAIN events : events[i].type \in types /\ events[i].song = s}

LastVersion(type, s) ==
  LET of == EventsOf({type}, s) IN
  IF of = {} THEN None ELSE events[CHOOSE i \in of : \A j \in of : j <= i].version

\* The chronology the artist resumes from tells what is so: the Versions that are current
\* and approved, the session that is open, which is then the latest, and the focus.
ChronologyTells ==
  /\ \A s \in Known :
       /\ songs[s].current  = LastVersion("CURRENT_VERSION_CHANGED", s)
       /\ songs[s].approved = LastVersion("VERSION_APPROVED", s)
       /\ LET ended == Cardinality(EventsOf({"SESSION_CLOSED"}, s))
              begun == Cardinality(EventsOf({"SESSION_STARTED"}, s))
          IN ended = IF IsOpen(LatestForSong(s)) THEN begun - 1 ELSE begun
  /\ LET of == UNION {EventsOf({"FOCUS_SESSION_STARTED", "FOCUS_SESSION_ENDED"}, s) :
                        s \in Song \cup {None}}
     IN ActiveFocus # 0 <=> \E i \in of :
          events[i].type = "FOCUS_SESSION_STARTED" /\ \A j \in of : j <= i

\* What is read when the profile is opened again is accepted, and tells the artist what
\* was so when it was left.
ReopensAsLeft == HistoryReadable /\ ChronologyTells

\* A form acts on the state its page showed, however old the page is and whatever other
\* forms of it were sent before: an approval on the pointers that were shown, a resumption
\* on the current Version that was, a note, a focus and a judgment on that Song.
ActsOnWhatWasShown ==
  [][ /\ \A s \in Known :
          /\ songs'[s].approved # songs[s].approved =>
               shown.song = s /\ shown.current = songs[s].current
                 /\ shown.approved = songs[s].approved
          /\ songs'[s].current # songs[s].current /\ versions' = versions =>
               shown.song = s /\ shown.current = songs[s].current
          /\ Len(versions') > Len(versions) => shown.song = s
      /\ Len(decisions') > Len(decisions) =>
           shown.song = active /\ decisions'[Len(decisions')].current = shown.current
      /\ Len(items') > Len(items) => sessions[items'[Len(items')].session].song = shown.song
      /\ Len(focuses') > Len(focuses) => focuses'[Len(focuses')].song \in {None, shown.song}
    ]_vars

\* A Version never points at material that was not on the disk before it, and an import
\* that fails or is cut off leaves no Version.
BytesBeforeLineage == \A a \in DOMAIN assets : assets[a].managed => blobs[assets[a].digest] # "absent"

\* Once the window said it is closed, it does not open the profile again.
StaysClosed == closed => runtime = "STOPPED"

\* A stop that is asked for comes to an end, also while requests keep coming: the window
\* closes, or the profile is held for recovery.  That is so with a browser that lets go of
\* the thread again and again; one connection that never does holds it for good, and
\* stop() then only times out (consumer_shell.py:252).
BrowserLetsGo == []<>(loop # "held")

StopSettles == BrowserLetsGo => (stop ~> (loop = "ended" \/ runtime = "RECOVERY_REQUIRED"))

-----------------------------------------------------------------------------
(* The inductive invariants behind StaysClosed and BytesBeforeLineage *)

\* The closed page went out: the loop meets the stop before another request.
ClosedInv == closed => runtime = "STOPPED" /\ stop = TRUE /\ loop # "serving"

\* An import that waits for its rows has its file.
ImportInv ==
  /\ blobs \in [Digest -> {"absent", "whole", "damaged"}]
  /\ assets \in Seq([song : Song, digest : Digest, managed : BOOLEAN])
  /\ ingest # None =>
       ingest.song \in Song /\ ingest.digest \in Digest /\ blobs[ingest.digest] # "absent"
  /\ BytesBeforeLineage

-----------------------------------------------------------------------------
(* The inductive invariant behind ReopensAsLeft and ActsOnWhatWasShown *)

\* The window makes one Song, which is the active one, and an import of it holds up the
\* thread.
OneSong ==
  /\ Known = {active} \ {None}
  /\ ingest # None => ingest.song = active /\ ingest.song = shown.song /\ loop = "check"

\* A form carries what the last page said.  The form that makes a Song is alone on its
\* page; any other stays on the page of the Song that is active.  The modes offered are
\* those there are.
FormsAreShown ==
  \A f \in forms : f.kind \notin {"quit", "profile"} =>
    /\ f.song = shown.song /\ f.current = shown.current /\ f.approved = shown.approved
    /\ IF f.kind = "song-start" THEN active = None /\ forms = {f} ELSE f.song = active
    /\ f.kind = "focus-set" => f.mode \in Mode
    /\ f.kind = "capture" => f.mode \in Kind

\* The pointers of a Song are to its own Versions.
PointersInv ==
  \A s \in Known : {songs[s].current, songs[s].approved} \subseteq VersionsOf(s) \cup {None}

\* The lines of the chronology that the window has written.
EventType ==
  {"ACTIVITY_TRACKING_ENABLED", "SONG_CREATED", "SONG_SELECTED", "ASSET_ATTACHED",
   "VERSION_CREATED", "CURRENT_VERSION_CHANGED", "VERSION_APPROVED",
   "VERSION_COMPARE_DECISION_RECORDED", "SESSION_STARTED", "SESSION_SCRATCH_ADDED",
   "SESSION_CLOSED", "EVIDENCE_CLAIM_RECORDED", "SESSION_ITEM_PROMOTED",
   "FOCUS_SESSION_STARTED", "FOCUS_SESSION_ENDED"}

Row == [type : EventType, song : Song \cup {None}, version : Nat \cup {None}]

\* What the stores hold.
StoreInv ==
  /\ LineageTypeOK /\ SessionsTypeOK /\ FocusTypeOK /\ events \in Seq(Row)
  /\ PointersInv /\ LineageReadable /\ ActivityReadable /\ DecisionsReadable
  /\ SessionsReadable /\ FocusReadable /\ ChronologyTells

RecordInv == StoreInv /\ WindowTypeOK /\ OneSong /\ FormsAreShown
=============================================================================
