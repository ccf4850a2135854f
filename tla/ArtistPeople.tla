---------------------------- MODULE ArtistPeople ----------------------------
(***************************************************************************)
(* n0te2/people.py and person_identity.py: the people an artist works with,   *)
(* what is owed between them, and which of their accounts elsewhere a review   *)
(* linked to which person.  A link needs a decision, and a wrong one is split, *)
(* never rewritten.                                                          *)
(***************************************************************************)
EXTENDS SongLineage

CONSTANTS
  Person,
  Account  \* the external identities: a realm, a namespace and a subject

VARIABLES
  people,    \* table people_people
  followups, \* table people_followups
  accounts,  \* table person_external_identities
  reviews    \* table person_identity_reviews, with the states of each in order

peopleVars == <<people, followups, accounts, reviews>>

Final(states) == states[Len(states)]
IsActive(r)   == Final(reviews[r].states) \in {"REVIEW_REQUIRED", "LINKED"}

\* current_resolution: the reviews of an account that stand.
Standing(x) == {r \in DOMAIN reviews : reviews[r].account = x /\ IsActive(r)}

FollowupRow == [person : Person, song : Song \cup {None},
                state : {"OPEN", "RESOLVED", "CANCELED"}]

\* The lines of the chronology that tell how each ended.
FollowupTold == [RESOLVED |-> "FOLLOWUP_RESOLVED", CANCELED |-> "FOLLOWUP_CANCELED"]
ReviewTold   == [LINKED |-> "IDENTITY_REVIEW_LINKED", REJECTED |-> "IDENTITY_REVIEW_REJECTED",
                 SPLIT |-> "IDENTITY_REVIEW_SPLIT"]

-----------------------------------------------------------------------------

CreatePerson(p) ==
  /\ p \notin people
  /\ people' = people \cup {p}
  /\ Log(<<Event("PERSON_CREATED", None, None)>>)
  /\ UNCHANGED <<recordVars, followups, accounts, reviews>>

CreateFollowup(p, s) ==
  /\ p \in people /\ s \in Known \cup {None}
  /\ followups' = Append(followups, [person |-> p, song |-> s, state |-> "OPEN"])
  /\ Log(<<Event("FOLLOWUP_CREATED", s, None)>>)
  /\ UNCHANGED <<recordVars, people, accounts, reviews>>

\* resolve_followup and cancel_followup: once, and with the reason.
CloseFollowup(i, state) ==
  /\ i \in DOMAIN followups /\ followups[i].state = "OPEN"
  /\ followups' = [followups EXCEPT ![i].state = state]
  /\ Log(<<Event(FollowupTold[state], followups[i].song, None)>>)
  /\ UNCHANGED <<recordVars, people, accounts, reviews>>

\* An index of the table holds an account once.
RecordAccount(x) ==
  /\ x \notin accounts
  /\ accounts' = accounts \cup {x}
  /\ Log(<<Event("EXTERNAL_IDENTITY_RECORDED", None, None)>>)
  /\ UNCHANGED <<recordVars, people, followups, reviews>>

Open(x, p) ==
  /\ reviews' = Append(reviews, [account |-> x, person |-> p, states |-> <<"REVIEW_REQUIRED">>])
  /\ Log(<<Event("IDENTITY_REVIEW_REVIEW_REQUIRED", None, None),
           Event("IDENTITY_REVIEW_OPENED", None, None)>>)
  /\ UNCHANGED <<recordVars, people, followups, accounts>>

\* A bug: only a link is in the way of another.
ProposeBeside(x, p) ==
  /\ x \in accounts /\ p \in people
  /\ \A r \in Standing(x) : Final(reviews[r].states) # "LINKED"
  /\ Open(x, p)

ProposeLink(x, p) ==
  /\ x \in accounts /\ p \in people
  /\ Standing(x) = {}
  /\ Open(x, p)

\* The transitions the triggers let into the table of review events.
MayFollow(state, next) ==
  \/ state = "REVIEW_REQUIRED" /\ next \in {"LINKED", "REJECTED"}
  \/ state = "LINKED" /\ next = "SPLIT"

\* link and reject decide an open review, split takes a link back.
Decide(r, state) ==
  /\ r \in DOMAIN reviews
  /\ MayFollow(Final(reviews[r].states), state)
  /\ reviews' = [reviews EXCEPT ![r].states = Append(@, state)]
  /\ Log(<<Event(ReviewTold[state], None, None)>>)
  /\ UNCHANGED <<recordVars, people, followups, accounts>>

-----------------------------------------------------------------------------

PeopleInit ==
  /\ people = {} /\ followups = <<>>
  /\ accounts = {} /\ reviews = <<>>

PeopleTypeOK ==
  /\ people \subseteq Person /\ accounts \subseteq Account
  /\ followups \in Seq(FollowupRow)

\* What _validate_existing of each asks of the rows it finds.
FollowupsReadable ==
  \A i \in DOMAIN followups :
    followups[i].person \in people /\ followups[i].song \in Known \cup {None}

ReviewsReadable ==
  /\ \A r \in DOMAIN reviews :
       /\ reviews[r].account \in accounts /\ reviews[r].person \in people
       /\ reviews[r].states \in {<<"REVIEW_REQUIRED">>, <<"REVIEW_REQUIRED", "LINKED">>,
            <<"REVIEW_REQUIRED", "REJECTED">>, <<"REVIEW_REQUIRED", "LINKED", "SPLIT">>}
  /\ \A x \in accounts : Cardinality(Standing(x)) <= 1

PeopleReadable == FollowupsReadable /\ ReviewsReadable
=============================================================================
