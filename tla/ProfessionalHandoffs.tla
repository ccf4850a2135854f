------------------------ MODULE ProfessionalHandoffs ------------------------
(***************************************************************************)
(* n0te2/professional_handoffs.py: work handed from one role to the next under *)
(* a contract.  The package remembers the pointers of the Song it was prepared *)
(* on; the policy of its contract says which of them must still be there.      *)
(***************************************************************************)
EXTENDS SongLineage

CONSTANTS Policy  \* the version policies of the contracts in use

ASSUME PolicyAssumption == Policy \subseteq {"EXACT", "CURRENT", "CURRENT_APPROVED"}

VARIABLES handoffs  \* table professional_handoffs; a contract is known by its policy

HandoffPackage == [upstream : DOMAIN versions, policy : Policy,
                   current : DOMAIN versions \cup {None}, approved : DOMAIN versions \cup {None},
                   complete : BOOLEAN, supersedes : DOMAIN handoffs \cup {None},
                   state : {"SUBMITTED", "RETURNED", "ACCEPTED", "STALE"}, receipt : BOOLEAN,
                   since : Nat]  \* the line of the chronology that told its state

SongOf(h)   == versions[handoffs[h].upstream].song
Closed(h)   == handoffs[h].state \in {"RETURNED", "STALE"}

\* _policy_submission_error: the pointers a policy wants on the Version handed over.
Admits(policy, v) ==
  LET song == songs[versions[v].song] IN
  /\ policy # "EXACT" => song.current = v
  /\ policy = "CURRENT_APPROVED" => song.approved = v

\* _freshness_reason: none of the pointers the policy watches has another value.
IsFresh(h) ==
  LET song == songs[SongOf(h)] IN
  /\ handoffs[h].policy # "EXACT" => song.current = handoffs[h].current
  /\ handoffs[h].policy = "CURRENT_APPROVED" => song.approved = handoffs[h].approved

\* Both triggers name the line of the chronology after the state.
StateTold ==
  [SUBMITTED |-> "PROFESSIONAL_HANDOFF_SUBMITTED", RETURNED |-> "PROFESSIONAL_HANDOFF_RETURNED",
   ACCEPTED |-> "PROFESSIONAL_HANDOFF_ACCEPTED", STALE |-> "PROFESSIONAL_HANDOFF_STALE"]
StateEvent(state, v) == Event(StateTold[state], versions[v].song, v)

-----------------------------------------------------------------------------

\* submit, and resubmit of a package that was returned or is stale.  What lacks an
\* input is returned at once.
Submit(policy, v, complete, prior) ==
  LET state == IF complete THEN "SUBMITTED" ELSE "RETURNED"
      song  == songs[versions[v].song] IN
  /\ v \in DOMAIN versions /\ Admits(policy, v)
  /\ prior # None =>
       /\ prior \in DOMAIN handoffs /\ Closed(prior)
       /\ SongOf(prior) = versions[v].song /\ handoffs[prior].policy = policy
  /\ handoffs' = Append(handoffs,
       [upstream |-> v, policy |-> policy, current |-> song.current, approved |-> song.approved,
        complete |-> complete, supersedes |-> prior, state |-> state, receipt |-> FALSE,
        since |-> Len(events) + 1])
  /\ Log(<<StateEvent(state, v)>>)
  /\ UNCHANGED recordVars

Mark(h, state) ==
  /\ handoffs' = [handoffs EXCEPT ![h].state = state, ![h].receipt = @ \/ state = "ACCEPTED",
                              ![h].since = Len(events) + 1]
  /\ Log(<<StateEvent(state, handoffs[h].upstream)>>)
  /\ UNCHANGED recordVars

\* accept: the exact state is looked at again, and a package it left is marked stale.
Accept(h) ==
  /\ h \in DOMAIN handoffs /\ handoffs[h].state = "SUBMITTED"
  /\ Mark(h, IF IsFresh(h) THEN "ACCEPTED" ELSE "STALE")

ReturnSubmission(h) ==
  /\ h \in DOMAIN handoffs /\ handoffs[h].state = "SUBMITTED"
  /\ Mark(h, "RETURNED")

\* verify_freshness writes what it finds; it has nothing to write of fresh work.
VerifyFreshness(h) ==
  /\ h \in DOMAIN handoffs /\ ~Closed(h) /\ ~IsFresh(h)
  /\ Mark(h, "STALE")

-----------------------------------------------------------------------------

ProfessionalInit == handoffs = <<>>

ProfessionalTypeOK == handoffs \in Seq(HandoffPackage)

\* _handoff and _validate_existing.
ProfessionalReadable ==
  \A h \in DOMAIN handoffs :
    /\ \A v \in {handoffs[h].current, handoffs[h].approved} \ {None} : versions[v].song = SongOf(h)
    /\ handoffs[h].state = "ACCEPTED" => handoffs[h].complete /\ handoffs[h].receipt
    /\ handoffs[h].supersedes # None =>
         LET prior == handoffs[h].supersedes IN
         /\ prior < h /\ Closed(prior)
         /\ SongOf(prior) = SongOf(h) /\ handoffs[prior].policy = handoffs[h].policy
=============================================================================
