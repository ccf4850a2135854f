------------------------------ MODULE DirectFan ------------------------------
(***************************************************************************)
(* n0te2/fan_journey.py, direct_fan.py and direct_fan_shell.py: what is known   *)
(* of the people who listen, what they agreed to, how they can be reached and   *)
(* what the artist means to tell them.                                       *)
(*                                                                         *)
(* All of it is claims about the artist, each under a key of its own: the last   *)
(* one of a person and a channel is the current one.  An intent names the      *)
(* contact point and the consent it was formed on; nothing is ever sent.       *)
(***************************************************************************)
EXTENDS EvidenceClaims

CONSTANTS
  Channel,  \* CONSENT_CHANNELS
  Purpose   \* CONTACT_PURPOSES

VARIABLES plans  \* the intent forms of pages that were shown and not sent yet

Artist == <<"ARTIST", None>>

\* A key is unique: that of the first claim recorded under it.
FanKey(kind, p) == <<"fan", kind, p, Len(claims) + 1>>

IsFanClaim(c, kind, p) ==
  claims[c].scope = Artist /\ claims[c].key[1] = "fan" /\ claims[c].key[2] = kind /\ claims[c].key[3] = p

\* _claims_for_person, of one kind: only claims that were not superseded.
FanClaims(kind, p) == {c \in DOMAIN claims \ Superseded : IsFanClaim(c, kind, p)}

\* consent_evidence and current_contact_point: the latest on the channel.
Current(kind, p, channel) ==
  LET on == {c \in FanClaims(kind, p) : claims[c].value.channel = channel} IN
  IF on = {} THEN None ELSE CHOOSE c \in on : \A d \in on : d <= c

RecordFan(kind, p, source, value) ==
  /\ p \in people
  /\ RecordClaim(Artist, FanKey(kind, p), source, source # "USER_DECLARED", value, {})

\* A stage of the journey says nothing of consent.
RecordStage(p, source) == RecordFan("signal", p, source, None)

RecordConsent(p, channel, status, source) ==
  RecordFan("consent", p, source, [channel |-> channel, status |-> status])

RecordContactPoint(p, channel, source) ==
  RecordFan("contact", p, source, [channel |-> channel])

\* What a verifier records through EvidenceMemory: another fact, or the one that
\* replaces what was held of the same channel.
ProviderRecords(kind, p, value, replaces) ==
  /\ p \in people
  /\ replaces \subseteq {c \in FanClaims(kind, p) : claims[c].value.channel = value.channel}
  /\ Cardinality(replaces) <= 1
  /\ LET key == IF replaces = {} THEN FanKey(kind, p) ELSE claims[CHOOSE c \in replaces : TRUE].key IN
     RecordClaim(Artist, key, "PROVIDER_VERIFIED", TRUE, value, replaces)

-----------------------------------------------------------------------------
(* DirectFanService: intents *)

\* _parse_intent asks that the consent it was formed on is still held, the contact
\* point only that it was recorded.
Parses(c) ==
  LET intent == claims[c].value IN
  intent.consent \in FanClaims("consent", claims[c].key[3])

\* Every read of a person's contacts or intents parses all of their intents first.
FanReadable(p) == \A c \in FanClaims("intent", p) : Parses(c)

OptedIn(p, channel) ==
  LET consent == Current("consent", p, channel) IN
  consent # None /\ claims[consent].value.status = "OPTED_IN"

Intent(p, s, channel, purpose) ==
  [song |-> s, channel |-> channel, purpose |-> purpose,
   contact |-> Current("contact", p, channel), consent |-> Current("consent", p, channel)]

\* No intent says the same on the same contact point and consent.
IsNew(p, intent) == \A c \in FanClaims("intent", p) : claims[c].value # intent

RecordContactIntent(p, s, channel, purpose) ==
  /\ s \in Known /\ FanReadable(p)
  /\ Current("contact", p, channel) # None /\ OptedIn(p, channel)
  /\ LET intent == Intent(p, s, channel, purpose) IN
     IsNew(p, intent) /\ RecordFan("intent", p, "USER_DECLARED", intent)

\* A bug: any opt-in will do.
AssessByStatus(c) ==
  LET intent == claims[c].value
      p      == claims[c].key[3]
  IN CASE Current("consent", p, intent.channel) = None -> "NO_CURRENT_CONSENT"
       [] ~OptedIn(p, intent.channel) -> "CONSENT_REVOKED"
       [] Current("contact", p, intent.channel) # intent.contact -> "CONTACT_CHANGED"
       [] OTHER -> "REVIEWABLE"

AssessIntent(c) ==
  LET intent  == claims[c].value
      p       == claims[c].key[3]
      consent == Current("consent", p, intent.channel)
      contact == Current("contact", p, intent.channel)
  IN CASE consent = None               -> "NO_CURRENT_CONSENT"
       [] ~OptedIn(p, intent.channel)  -> "CONSENT_REVOKED"
       [] consent # intent.consent     -> "CONSENT_CHANGED"
       [] contact = None               -> "NO_CONTACT_POINT"
       [] contact # intent.contact     -> "CONTACT_CHANGED"
       [] OTHER                        -> "REVIEWABLE"

-----------------------------------------------------------------------------
(* The page of the audience and its forms *)

\* _audience_content reads every person, and offers what could be told of the active
\* Song on each channel that has a contact point and consent.
AudiencePage ==
  IF active = None \/ \E p \in people : ~FanReadable(p) THEN {}
  ELSE UNION {{[person |-> p, intent |-> Intent(p, active, channel, purpose)] :
                 p \in {q \in people : Current("contact", q, channel) # None /\ OptedIn(q, channel)}} :
               channel \in Channel, purpose \in Purpose}

ShowAudience(f) ==
  /\ f \in AudiencePage
  /\ plans' = plans \cup {f}
  /\ UNCHANGED <<lineageVars, peopleVars, claims>>

\* What the form was shown on is still so.
PlanStands(f) ==
  /\ FanReadable(f.person) /\ active = f.intent.song /\ OptedIn(f.person, f.intent.channel)
  /\ Intent(f.person, active, f.intent.channel, f.intent.purpose) = f.intent

\* _post_intent: a form is used up whether or not it stands.
SendPlan(f) ==
  /\ f \in plans /\ plans' = plans \ {f}
  /\ IF PlanStands(f) /\ IsNew(f.person, f.intent)
       THEN RecordContactIntent(f.person, active, f.intent.channel, f.intent.purpose)
       ELSE UNCHANGED <<lineageVars, peopleVars, claims>>

FanInit == plans = {}
=============================================================================
