---------------------------- MODULE LearningMemory ----------------------------
(***************************************************************************)
(* n0te2/learning.py, learning_experiment.py, skills.py and skill_model.py:    *)
(* what was tried in a session, what was observed after it and what was         *)
(* decided; and how well the artist is held to know something.                *)
(* n0te2/friction.py, friction_journey.py and friction_journey_shell.py: what   *)
(* got in the way of an experiment.                                          *)
(*                                                                         *)
(* All are only added to.  The services of the window bind a decision to the   *)
(* observations that were shown and a correction to the assessment that was.   *)
(***************************************************************************)
EXTENDS SongSessions, EvidenceClaims

CONSTANTS
  Skill,
  Friction  \* the names of what gets in the way

VARIABLES
  episodes,  \* table learning_episodes, with the sources of what was observed and the
             \* number of observations the decision was made on
  skills,    \* table skill_assessments: of each Skill, in order
  bound,     \* the bindings of pages that were shown and not sent yet
  frictions, \* table friction_observations, in order
  captures   \* the bindings of forms of a friction that were shown and not sent yet

learningVars == <<episodes, skills, bound>>
frictionVars == <<frictions, captures>>

IsDecided(e) == episodes[e].decidedOn # None
Latest(k)    == Len(skills[k])

EpisodeEvent(type, e) ==
  LET session == sessions[episodes[e].session] IN
  Log(<<Event(type, session.song, session.version)>>)

-----------------------------------------------------------------------------
(* LearningMemory *)

CreateEpisode(i) ==
  /\ i \in DOMAIN sessions
  /\ episodes' = Append(episodes, [session |-> i, observed |-> <<>>, decidedOn |-> None])
  /\ Log(<<Event("LEARNING_EPISODE_STARTED", sessions[i].song, sessions[i].version)>>)
  /\ UNCHANGED <<recordVars, sessionVars, skills>>

\* A bug: an experiment that was decided is still observed.
AppendAfter(e, source) ==
  /\ e \in DOMAIN episodes
  /\ episodes' = [episodes EXCEPT ![e].observed = Append(@, source)]
  /\ EpisodeEvent("LEARNING_CONSEQUENCE_RECORDED", e)
  /\ UNCHANGED <<recordVars, sessionVars, skills>>

\* A trigger asks the same.
AppendConsequence(e, source) ==
  /\ e \in DOMAIN episodes /\ ~IsDecided(e)
  /\ episodes' = [episodes EXCEPT ![e].observed = Append(@, source)]
  /\ EpisodeEvent("LEARNING_CONSEQUENCE_RECORDED", e)
  /\ UNCHANGED <<recordVars, sessionVars, skills>>

DecideEpisode(e) ==
  /\ e \in DOMAIN episodes /\ ~IsDecided(e) /\ episodes[e].observed # <<>>
  /\ episodes' = [episodes EXCEPT ![e].decidedOn = Len(episodes[e].observed)]
  /\ EpisodeEvent("LEARNING_DECISION_RECORDED", e)
  /\ UNCHANGED <<recordVars, sessionVars, skills>>

-----------------------------------------------------------------------------
(* LearningExperimentService, for the active Song *)

SongOfEpisode(e) == sessions[episodes[e].session].song

\* start_binding and decision_binding.
StartBinding  == [kind |-> "start", song |-> active, on |-> LatestForSong(active)]
DecisionBinding(e) == [kind |-> "decide", song |-> SongOfEpisode(e), on |-> e,
                       seen |-> episodes[e].observed]

StartEpisode(b) ==
  /\ active = b.song /\ LatestForSong(b.song) = b.on /\ IsOpen(b.on)
  /\ CreateEpisode(b.on)

AppendObservation(e) ==
  /\ e \in DOMAIN episodes /\ SongOfEpisode(e) = active
  /\ AppendConsequence(e, "USER_DECLARED")

DecideBound(b) ==
  /\ active = b.song /\ episodes[b.on].observed = b.seen
  /\ DecideEpisode(b.on)

-----------------------------------------------------------------------------
(* SkillMemory and SkillModelService *)

Level     == {"UNKNOWN", "INTRODUCED", "PRACTICED", "APPLIED", "INDEPENDENT"}
RealWork  == {"PRACTICED", "APPLIED", "INDEPENDENT"}
NonArtist == {"N0TE_ASSESSED", "OBSERVED"}

\* _validate_claim_for_song.
ClaimFits(c, s) ==
  \/ s = None \/ claims[c].scope[1] = "ARTIST" \/ claims[c].scope = <<"SONG", s>>
  \/ claims[c].scope[1] = "VERSION" /\ versions[claims[c].scope[2]].song = s

Assessment(level, source, i, evidence) ==
  [level |-> level, source |-> source, session |-> i, evidence |-> evidence]

SongOfAssessment(a) == IF a.session = None THEN None ELSE sessions[a.session].song

\* The rules of record_assessment, the triggers and _validate_existing.  What others than
\* the artist see in real work is seen in a session that is over.
Assessable(a) ==
  /\ a.level = "UNKNOWN" => a.source = "ARTIST_CORRECTION"
  /\ a.source \in NonArtist /\ a.level \in RealWork =>
       a.session # None /\ sessions[a.session].state = "CLOSED"
  /\ \A c \in a.evidence : ClaimFits(c, SongOfAssessment(a))

Assess(k, a) ==
  /\ Assessable(a)
  /\ skills' = [skills EXCEPT ![k] = Append(@, a)]
  /\ Log(<<Event("SKILL_ASSESSED", SongOfAssessment(a),
                 IF a.session = None THEN None ELSE sessions[a.session].version)>>)
  /\ UNCHANGED <<recordVars, sessionVars, episodes>>

\* binding_for: the assessment the page shows.
CorrectionBinding(k) == [kind |-> "correct", on |-> k, seen |-> Latest(k)]

Declare(k, level) ==
  /\ skills[k] = <<>> /\ level # "UNKNOWN"
  /\ Assess(k, Assessment(level, "ARTIST_DECLARED", None, {}))

Correct(b, level) ==
  /\ Latest(b.on) = b.seen
  /\ Assess(b.on, Assessment(level, "ARTIST_CORRECTION", None, {}))

-----------------------------------------------------------------------------
(* The page and its forms: learning_experiment_shell.py and skill_model_shell.py *)

Bindings ==
  (IF active # None /\ IsOpen(LatestForSong(active)) THEN {StartBinding} ELSE {})
    \cup {DecisionBinding(e) : e \in {f \in DOMAIN episodes : SongOfEpisode(f) = active
                                        /\ ~IsDecided(f) /\ episodes[f].observed # <<>>}}
    \cup {CorrectionBinding(k) : k \in {j \in Skill : skills[j] # <<>>}}

ShowLearning(b) ==
  /\ b \in Bindings
  /\ bound' = bound \cup {b}
  /\ UNCHANGED <<lineageVars, sessionVars, episodes, skills>>

\* A form is used up whether or not what it is bound to stands.
SendLearning(b, level) ==
  /\ b \in bound /\ bound' = bound \ {b}
  /\ \/ b.kind = "start" /\ StartEpisode(b)
     \/ b.kind = "decide" /\ DecideBound(b)
     \/ b.kind = "correct" /\ Correct(b, level)
     \/ UNCHANGED <<lineageVars, sessionVars, episodes, skills>>

-----------------------------------------------------------------------------

LearningInit == episodes = <<>> /\ skills = [k \in Skill |-> <<>>] /\ bound = {}

\* _validate_existing of both.
LearningReadable ==
  /\ \A e \in DOMAIN episodes :
       /\ episodes[e].session \in DOMAIN sessions
       /\ IsDecided(e) => episodes[e].decidedOn \in DOMAIN episodes[e].observed
  /\ \A k \in Skill : \A i \in DOMAIN skills[k] : Assessable(skills[k][i])

-----------------------------------------------------------------------------
(* FrictionMemory: a friction recurs on a Song once it did so in two sessions,  *)
(* however often it was noted in one                                         *)

IsNoted(e, key) == \E i \in DOMAIN frictions : frictions[i].episode = e /\ frictions[i].key = key

SongOfFriction(i) == SongOfEpisode(frictions[i].episode)

\* observations of one Song.
Observations(s) == {i \in DOMAIN frictions : SongOfFriction(i) = s}

\* The sessions in which it got in the way of the Song.
SessionsWith(key, s) ==
  {episodes[frictions[i].episode].session : i \in {j \in Observations(s) : frictions[j].key = key}}

\* recurring_patterns.
Recurring(s) == {key \in Friction : Cardinality(SessionsWith(key, s)) >= 2}

\* record, by any caller: an experiment has each key once (UNIQUE(episode_id, friction_key)).
RecordFriction(e, key, source) ==
  /\ e \in DOMAIN episodes /\ ~IsNoted(e, key)
  /\ frictions' = Append(frictions, [episode |-> e, key |-> key, source |-> source])
  /\ LET session == sessions[episodes[e].session] IN
     Log(<<Event("FRICTION_OBSERVED", session.song, session.version)>>)

\* capture_binding, of the experiments of the active Song.
CaptureBinding(e) == [song |-> active, episode |-> e]

ShowFriction(e) ==
  /\ e \in DOMAIN episodes /\ SongOfEpisode(e) = active
  /\ captures' = captures \cup {CaptureBinding(e)}
  /\ UNCHANGED <<frictions, events>>

\* SongFrictionJourney.record: what the artist says of the active Song.
RecordBound(b, key) ==
  /\ active = b.song /\ SongOfEpisode(b.episode) = b.song
  /\ RecordFriction(b.episode, key, "USER_DECLARED")

\* A form is used up whether or not what it is bound to stands.
SendFriction(b, key) ==
  /\ b \in captures /\ captures' = captures \ {b}
  /\ RecordBound(b, key) \/ UNCHANGED <<frictions, events>>

FrictionInit == frictions = <<>> /\ captures = {}

\* _validate_existing.
FrictionReadable == \A i \in DOMAIN frictions : frictions[i].episode \in DOMAIN episodes
=============================================================================
