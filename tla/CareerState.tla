----------------------------- MODULE CareerState -----------------------------
(***************************************************************************)
(* n0te2/career_state.py and career_state_shell.py: the season an artist says   *)
(* they are in.  A season is declared over the one that was reviewed and never  *)
(* over a newer one; the history of seasons is only added to.                  *)
(***************************************************************************)
EXTENDS SongLineage

CONSTANTS Season  \* CAREER_STATES, each with a rationale or without

VARIABLES
  seasons,  \* table career_state_entries, in order
  reviewed  \* the entries that forms not sent yet were shown over, 0 for none

careerVars == <<seasons, reviewed>>

\* The id of the current entry.
CurrentState == Len(seasons)

\* record_state: over the entry that was reviewed; the same again changes nothing.
RecordState(state, expected) ==
  /\ CurrentState = expected
  /\ IF expected # 0 /\ seasons[expected] = state
       THEN UNCHANGED <<seasons, events>>
       ELSE /\ seasons' = Append(seasons, state)
            /\ Log(<<Event("CAREER_STATE_RECORDED", None, None)>>)

\* The page of what is to do now shows the current state with a form over it.
ShowCareerState ==
  /\ reviewed' = reviewed \cup {CurrentState}
  /\ UNCHANGED <<seasons, events>>

\* A form is used up whether or not it names a state and another view
\* changed the state since.
SendCareerState(shown, state) ==
  /\ shown \in reviewed /\ reviewed' = reviewed \ {shown}
  /\ RecordState(state, shown) \/ UNCHANGED <<seasons, events>>

CareerInit == seasons = <<>> /\ reviewed = {}
=============================================================================
