------------------------ MODULE CollaborationHandoff ------------------------
(***************************************************************************)
(* n0te2/collaboration_handoff.py: the Version prepared for one person, until *)
(* it is taken back, and what that person said of it.  What was said is        *)
(* answered by a later Version of the Song, or dismissed.                     *)
(***************************************************************************)
EXTENDS ArtistPeople

VARIABLES
  packages,  \* table collab_handoff_packages
  feedback   \* table collab_handoff_feedback

handoffVars == <<packages, feedback>>

PackageRow  == [version : DOMAIN versions, person : Person, state : {"PREPARED", "REVOKED"}]
FeedbackRow == [package : DOMAIN packages, state : {"OPEN", "ADDRESSED", "DISMISSED"},
                response : DOMAIN versions \cup {None}]

\* The lines of the chronology that tell how what was said was answered.
FeedbackTold == [ADDRESSED |-> "COLLAB_FEEDBACK_ADDRESSED", DISMISSED |-> "COLLAB_FEEDBACK_DISMISSED"]

SongOfVersion(v)  == versions[v].song
IsLater(w, v)     == /\ SongOfVersion(w) = SongOfVersion(v)
                     /\ versions[w].ordinal > versions[v].ordinal
HandoffEvent(type, v) == Log(<<Event(type, SongOfVersion(v), v)>>)

-----------------------------------------------------------------------------

\* An index of the table allows one prepared package of a Version for a person.
PreparePackage(v, p) ==
  /\ v \in DOMAIN versions /\ versions[v].assets # {}
  /\ p \in people
  /\ \A k \in DOMAIN packages : packages[k] # [version |-> v, person |-> p, state |-> "PREPARED"]
  /\ packages' = Append(packages, [version |-> v, person |-> p, state |-> "PREPARED"])
  /\ HandoffEvent("COLLAB_HANDOFF_PREPARED", v)
  /\ UNCHANGED <<recordVars, feedback>>

RevokePackage(k) ==
  /\ k \in DOMAIN packages /\ packages[k].state = "PREPARED"
  /\ packages' = [packages EXCEPT ![k].state = "REVOKED"]
  /\ HandoffEvent("COLLAB_HANDOFF_REVOKED", packages[k].version)
  /\ UNCHANGED <<recordVars, feedback>>

Say(k) ==
  /\ feedback' = Append(feedback, [package |-> k, state |-> "OPEN", response |-> None])
  /\ HandoffEvent("COLLAB_FEEDBACK_RECORDED", packages[k].version)
  /\ UNCHANGED <<recordVars, packages>>

RecordFeedback(k) ==
  /\ k \in DOMAIN packages /\ packages[k].state = "PREPARED"
  /\ Say(k)

\* resolve_feedback; ADDRESSED names the Version that answers it.
AddressFeedback(f, w) ==
  /\ f \in DOMAIN feedback /\ feedback[f].state = "OPEN"
  /\ w \in DOMAIN versions /\ IsLater(w, packages[feedback[f].package].version)
  /\ feedback' = [feedback EXCEPT ![f].state = "ADDRESSED", ![f].response = w]
  /\ HandoffEvent(FeedbackTold["ADDRESSED"], w)
  /\ UNCHANGED <<recordVars, packages>>

DismissFeedback(f) ==
  /\ f \in DOMAIN feedback /\ feedback[f].state = "OPEN"
  /\ feedback' = [feedback EXCEPT ![f].state = "DISMISSED"]
  /\ HandoffEvent(FeedbackTold["DISMISSED"], packages[feedback[f].package].version)
  /\ UNCHANGED <<recordVars, packages>>

-----------------------------------------------------------------------------

HandoffInit == packages = <<>> /\ feedback = <<>>

HandoffTypeOK ==
  /\ packages \in Seq(PackageRow)
  /\ feedback \in Seq(FeedbackRow)

\* _validate_existing.
HandoffReadable ==
  /\ \A k \in DOMAIN packages :
       /\ packages[k].person \in people
       /\ versions[packages[k].version].assets # {}
  /\ \A j, k \in DOMAIN packages :
       packages[j] = packages[k] /\ packages[k].state = "PREPARED" => j = k
  /\ \A f \in DOMAIN feedback :
       /\ feedback[f].state = "ADDRESSED" <=> feedback[f].response # None
       /\ feedback[f].state = "ADDRESSED" =>
            IsLater(feedback[f].response, packages[feedback[f].package].version)
=============================================================================
