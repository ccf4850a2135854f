--------------------------- MODULE RightsEvidence ---------------------------
(***************************************************************************)
(* n0te2/rights_evidence_chain.py and its shell: how far a credit or a split    *)
(* sheet is supported, from the artist's own declaration up to a provider's     *)
(* receipt.  What the artist enters is kept and carries no stage further.       *)
(***************************************************************************)
EXTENDS SongCredits, EvidenceClaims

VARIABLES requested  \* the forms of the chain that were shown and not sent yet

\* RIGHTS_EVIDENCE_STAGES after the declaration, in order.
Stages     == <<"COMMUNICATION_CONFIRMATION", "SIGNED_DOCUMENT", "PROVIDER_RECEIPT">>
Recordable == {"COMMUNICATION_CONFIRMATION", "SIGNED_DOCUMENT"}
Assertion  == {"SUPPORTS", "CONTRADICTS"}

Targets == {<<"CREDIT", i>> : i \in DOMAIN credits}
             \cup {<<"COMPOSITION_SPLIT", k>> : k \in DOMAIN sheets}
SongOfTarget(t) == IF t[1] = "CREDIT" THEN credits[t[2]].song ELSE sheets[t[2]].song

\* evidence_key, reserved to a target and a stage, and the claims snapshot() finds.
EvidenceKey(t, stage) == <<"rights", t, stage>>
ItemsOf(t, stage) == ActiveClaims(<<"SONG", SongOfTarget(t)>>, EvidenceKey(t, stage))

\* A bug: everything that is written down counts.
QualifiesAll(stage, c) == c \in DOMAIN claims

\* The sources that count for a stage.
Qualifies(stage, c) ==
  claims[c].source \in (IF stage \in Recordable THEN {"OBSERVED", "PROVIDER_VERIFIED"}
                        ELSE {"PROVIDER_VERIFIED"})

\* _status; claims that disagree are a conflict, whatever they come from.
StageStatus(t, stage) ==
  LET items      == ItemsOf(t, stage)
      assertions == {claims[c].value : c \in items}
      qualifying == {c \in items : Qualifies(stage, c)} IN
  CASE assertions = {}                                    -> "UNKNOWN"
    [] Cardinality(assertions) > 1                        -> "CONFLICT"
    [] Cardinality(assertions) = 1 /\ qualifying = {}     -> "UNVERIFIED"
    [] assertions = {"SUPPORTS"} /\ qualifying # {}       -> "SUPPORTED"
    [] OTHER                                              -> "CONTRADICTED"

\* highest_contiguous_supported_stage, the number of stages after the declaration.
Reach(t) ==
  CHOOSE n \in 0..Len(Stages) :
    /\ \A i \in 1..n : StageStatus(t, Stages[i]) = "SUPPORTED"
    /\ n < Len(Stages) => StageStatus(t, Stages[n + 1]) # "SUPPORTED"

-----------------------------------------------------------------------------

\* record_observed, and record_user_declared_reference.
RecordReference(t, stage, source, assertion) ==
  /\ t \in Targets /\ stage \in Recordable
  /\ Claim(<<"SONG", SongOfTarget(t)>>, EvidenceKey(t, stage), source, TRUE, assertion, {})

\* What a provider verified comes in through the evidence memory itself.
RecordReceipt(t, assertion) ==
  /\ t \in Targets
  /\ Claim(<<"SONG", SongOfTarget(t)>>, EvidenceKey(t, "PROVIDER_RECEIPT"),
           "PROVIDER_VERIFIED", TRUE, assertion, {})

\* _target_fingerprint; a credit never changes.
TargetMarks(t) ==
  IF t[1] = "CREDIT" THEN <<0, 0, None>>
  ELSE <<AllocationMark(t[2]), ConfirmationMark(t[2]), sheets[t[2]].state>>

\* _rights_content: the credits of the active Song and its active sheet.
Shown(t) == t \in Targets /\ SongOfTarget(t) = active
              /\ (t[1] = "COMPOSITION_SPLIT" => SheetOn(t[2]))

AskForReference(t, stage) ==
  /\ active # None /\ Shown(t) /\ stage \in Recordable
  /\ requested' = requested \cup {[target |-> t, stage |-> stage, song |-> active,
                                   marks |-> TargetMarks(t)]}
  /\ UNCHANGED <<lineageVars, peopleVars, creditVars, claims>>

\* _post_rights_evidence.
SendReference(f, assertion) ==
  /\ f \in requested
  /\ requested' = requested \ {f}
  /\ IF active = f.song /\ TargetMarks(f.target) = f.marks
     THEN RecordReference(f.target, f.stage, "USER_DECLARED", assertion)
     ELSE UNCHANGED <<claims, events>>
  /\ UNCHANGED <<recordVars, peopleVars, creditVars>>

Observe(t, stage, assertion) ==
  /\ RecordReference(t, stage, "OBSERVED", assertion)
  /\ UNCHANGED <<recordVars, peopleVars, creditVars, requested>>

Receive(t, assertion) ==
  /\ RecordReceipt(t, assertion)
  /\ UNCHANGED <<recordVars, peopleVars, creditVars, requested>>

RightsInit == requested = {}

\* _item_from_claim refuses a claim the chain cannot rest on.
RightsReadable ==
  \A t \in Targets : \A i \in DOMAIN Stages : \A c \in ItemsOf(t, Stages[i]) :
    /\ claims[c].value \in Assertion /\ claims[c].ref
    /\ Stages[i] = "PROVIDER_RECEIPT" => claims[c].source = "PROVIDER_VERIFIED"
=============================================================================
