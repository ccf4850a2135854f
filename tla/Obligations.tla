---------------------------- MODULE Obligations ----------------------------
(***************************************************************************)
(* n0te2/obligations.py: what is owed to a person or by one, on evidence.  Its  *)
(* life is a list of statuses, each with the claim it rests on, that is only    *)
(* added to; what needs the artist's attention is worked out from it, from the  *)
(* evidence and from the follow-up it belongs to.                             *)
(***************************************************************************)
EXTENDS EvidenceClaims, SequencesExt

VARIABLES obligations  \* table business_obligations, with its events and triggers

OpenStatus == {"OPEN", "BLOCKED", "DISPUTED"}
Terminal   == {"SATISFIED", "WAIVED", "CANCELED"}

\* The line of the chronology that tells of each.
StatusTold ==
  [OPEN |-> "OBLIGATION_STATUS_OPEN", BLOCKED |-> "OBLIGATION_STATUS_BLOCKED",
   DISPUTED |-> "OBLIGATION_STATUS_DISPUTED", SATISFIED |-> "OBLIGATION_STATUS_SATISFIED",
   WAIVED |-> "OBLIGATION_STATUS_WAIVED", CANCELED |-> "OBLIGATION_STATUS_CANCELED"]

StatusOf(o)  == Last(obligations[o].life).status
IsTerminal(o) == StatusOf(o) \in Terminal

\* _claim_compatible: the claim is about the artist, the Song or a Version of it.
Compatible(c, s) ==
  \/ claims[c].scope[1] = "ARTIST"
  \/ s # None /\ claims[c].scope = <<"SONG", s>>
  \/ s # None /\ claims[c].scope[1] = "VERSION" /\ versions[claims[c].scope[2]].song = s

\* _evidence_claim: what an obligation may be founded on today.
Founds(c, s) == IsCurrentClaim(c) /\ IsBacked(c) /\ Compatible(c, s)

-----------------------------------------------------------------------------

\* The first status is OPEN, on the claim the obligation comes from.
CreateObligation(p, s, followup, due, awaits, c) ==
  /\ p \in people /\ s \in Known \cup {None}
  /\ Founds(c, s)
  /\ followup # None =>
       /\ followup \in DOMAIN followups
       /\ followups[followup].person = p /\ followups[followup].song = s
  /\ obligations' = Append(obligations,
       [person |-> p, song |-> s, followup |-> followup, due |-> due, awaits |-> awaits,
        source |-> c, triggers |-> <<>>, life |-> <<[status |-> "OPEN", claim |-> c]>>])
  /\ Log(<<Event("OBLIGATION_STATUS_OPEN", s, None), Event("OBLIGATION_CREATED", s, None)>>)
  /\ UNCHANGED <<recordVars, peopleVars, claims>>

RecordTrigger(o, c) ==
  /\ o \in DOMAIN obligations /\ obligations[o].awaits /\ ~IsTerminal(o)
  /\ Founds(c, obligations[o].song)
  /\ obligations' = [obligations EXCEPT ![o].triggers = Append(@, c)]
  /\ Log(<<Event("OBLIGATION_TRIGGER_OBSERVED", obligations[o].song, None)>>)
  /\ UNCHANGED <<recordVars, peopleVars, claims>>

\* A trigger of the table asks the same of the last status.
MayBecome(status, next) ==
  /\ status \notin Terminal /\ next # status
  /\ next = "OPEN" => status \in {"BLOCKED", "DISPUTED"}

Become(o, status, c) ==
  /\ obligations' = [obligations EXCEPT ![o].life = Append(@, [status |-> status, claim |-> c])]
  /\ Log(<<Event(StatusTold[status], obligations[o].song, None)>>)
  /\ UNCHANGED <<recordVars, peopleVars, claims>>

Transition(o, status, c) ==
  /\ o \in DOMAIN obligations /\ MayBecome(StatusOf(o), status)
  /\ Founds(c, obligations[o].song)
  /\ Become(o, status, c)

-----------------------------------------------------------------------------

ObligationsInit == obligations = <<>>

\* _validate_existing.
ObligationsReadable ==
  \A o \in DOMAIN obligations :
    LET ob == obligations[o] IN
    /\ ob.person \in people /\ ob.song \in Known \cup {None}
    /\ Compatible(ob.source, ob.song)
    /\ ob.followup # None => ob.followup \in DOMAIN followups
    /\ Len(ob.life) > 0 /\ ob.life[1].status = "OPEN"
    /\ \A i \in DOMAIN ob.life :
         /\ Compatible(ob.life[i].claim, ob.song)
         /\ i > 1 => MayBecome(ob.life[i - 1].status, ob.life[i].status)
    /\ \A i \in DOMAIN ob.triggers : ob.awaits /\ Compatible(ob.triggers[i], ob.song)
=============================================================================
