------------------------- MODULE CreativeSuggestions -------------------------
(***************************************************************************)
(* n0te2/suggestion_deferral.py, suggestion_feedback.py and                   *)
(* creative_suggestions_shell.py: an idea is shown for the active Song and its  *)
(* latest session, and the artist says more, less or not now.  An idea put off  *)
(* until the next Song comes back once another Song was selected, as the       *)
(* chronology tells.                                                         *)
(***************************************************************************)
EXTENDS SongSessions

CONSTANTS Idea  \* the semantic keys of the suggestions

VARIABLES
  deferrals,  \* table suggestion_deferrals; since is the line that told of each
  opinions,   \* table suggestion_feedback
  prompt      \* _creative_suggestion_result: what the page of the Song shows

suggestionVars == <<deferrals, opinions, prompt>>

Scope == {"LATER_THIS_SONG", "NEXT_SONG", "NEVER_SUGGEST_AGAIN"}

\* The Song and the session an idea belongs to.
Context == [song |-> active, session |-> LatestForSong(active)]

\* _next_song_horizon_crossed.
Crossed(d) ==
  \E i \in (deferrals[d].since + 1)..Len(events) :
    events[i].type = "SONG_SELECTED" /\ events[i].song # deferrals[d].song

Lasting(key) == {d \in DOMAIN deferrals : deferrals[d].key = key
                   /\ deferrals[d].scope = "NEXT_SONG" /\ ~Crossed(d)}

\* _existing: the decision that says the same already.
Existing(key, scope) ==
  CASE scope = "NEXT_SONG" -> {d \in Lasting(key) : deferrals[d].song = active}
    [] scope = "LATER_THIS_SONG" -> {d \in DOMAIN deferrals :
         deferrals[d].key = key /\ deferrals[d].scope = scope
           /\ deferrals[d].song = active /\ deferrals[d].session = LatestForSong(active)}
    [] OTHER -> {d \in DOMAIN deferrals : deferrals[d].key = key /\ deferrals[d].scope = scope}

\* is_deferred_now.
DeferredNow(key) ==
  /\ active # None
  /\ \/ Existing(key, "NEVER_SUGGEST_AGAIN") # {}
     \/ Lasting(key) # {}
     \/ LatestForSong(active) # 0 /\ Existing(key, "LATER_THIS_SONG") # {}

-----------------------------------------------------------------------------

Insert(key, scope) ==
  /\ deferrals' = Append(deferrals, [song |-> active, session |-> LatestForSong(active),
                                     key |-> key, scope |-> scope, since |-> Len(events) + 1])
  /\ Log(<<Event("SUGGESTION_DEFERRED", active, None)>>)

\* _defer.
Defer(key, scope) ==
  /\ active # None
  /\ scope = "LATER_THIS_SONG" => LatestForSong(active) # 0
  /\ IF Existing(key, scope) # {} THEN UNCHANGED <<deferrals, events>> ELSE Insert(key, scope)

\* _post_suggestion, and _suggestion_card, which lets go of what is out of place.
Suggest(key) ==
  /\ active # None /\ ~DeferredNow(key)
  /\ prompt' = [key |-> key, on |-> Context]
  /\ UNCHANGED <<lineageVars, sessionVars, deferrals, opinions>>

ForgetPrompt ==
  /\ prompt # None /\ active # None /\ prompt.on # Context
  /\ prompt' = None
  /\ UNCHANGED <<lineageVars, sessionVars, deferrals, opinions>>

\* defer, of another caller.
PutOff(key, scope) == Defer(key, scope) /\ UNCHANGED <<recordVars, sessionVars, opinions, prompt>>

\* _post_not_now, on the prompt the page showed.
NotNow(scope) ==
  /\ prompt # None /\ active # None /\ prompt.on = Context
  /\ Defer(prompt.key, scope)
  /\ prompt' = None
  /\ UNCHANGED <<recordVars, sessionVars, opinions>>

\* The trigger suggestion_feedback_binding_valid.
BindingValid(on) == on.session \in SessionsOf(on.song)

\* SuggestionFeedbackMemory.record, of a suggestion as it was shown.
RecordOpinion(direction) ==
  /\ prompt # None /\ active # None /\ prompt.on = Context /\ BindingValid(prompt.on)
  /\ opinions' = Append(opinions, [key |-> prompt.key, on |-> prompt.on, direction |-> direction])
  /\ Log(<<Event("SUGGESTION_FEEDBACK_RECORDED", active, None)>>)
  /\ UNCHANGED <<recordVars, sessionVars, deferrals, prompt>>

-----------------------------------------------------------------------------

OpinionsInit == opinions = <<>>

SuggestionsInit == deferrals = <<>> /\ OpinionsInit /\ prompt = None

\* _validate_existing of both.
OpinionsReadable == \A o \in DOMAIN opinions : BindingValid(opinions[o].on)

SuggestionsReadable ==
  /\ \A d \in DOMAIN deferrals :
       /\ deferrals[d].scope \in Scope /\ deferrals[d].song \in Known
       /\ deferrals[d].scope = "LATER_THIS_SONG" => deferrals[d].session # 0
       /\ deferrals[d].session # 0 => deferrals[d].session \in SessionsOf(deferrals[d].song)
       /\ events[deferrals[d].since].type = "SUGGESTION_DEFERRED"
  /\ OpinionsReadable
=============================================================================
