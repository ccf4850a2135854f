------------------------- MODULE HeadquartersProofs -------------------------
(***************************************************************************)
(* What the memories of a profile keep to, for any Songs, people, contents and *)
(* bounds: what is decided stays, a transaction runs on what it was bound to,   *)
(* declaring never advances a chain of evidence, a judgment stays with the      *)
(* revision it was made on, an intent is reviewable on the latest word, a form    *)
(* changes only what its page showed, the profile opens again as it was left, and  *)
(* a view that matches its memory is true of it.                                *)
(***************************************************************************)
EXTENDS HeadquartersMemory, SequenceTheorems, FiniteSetTheorems, WellFoundedInduction, TLAPS

-----------------------------------------------------------------------------
(* Tables: sequences of rows, whatever the rows are                          *)

IsTable(t) == t \in Seq(Range(t))

LEMMA SequenceIsTable ==
  ASSUME NEW S, NEW t \in Seq(S)
  PROVE  IsTable(t) /\ Len(t) \in Nat /\ DOMAIN t = 1..Len(t)
<1>1. Len(t) \in Nat /\ DOMAIN t = 1..Len(t) /\ t \in [1..Len(t) -> S]
  BY LenProperties
<1>2. t \in [1..Len(t) -> Range(t)]
  BY <1>1 DEF Range
<1>3. t \in Seq(Range(t))
  BY <1>1, <1>2, SeqDef
<1> QED
  BY <1>1, <1>3 DEF IsTable

LEMMA TableIs ==
  ASSUME NEW t, IsTable(t)
  PROVE  Len(t) \in Nat /\ DOMAIN t = 1..Len(t)
BY SequenceIsTable DEF IsTable

LEMMA EmptyTable == IsTable(<<>>) /\ DOMAIN <<>> = {} /\ Len(<<>>) = 0
<1>1. <<>> \in Seq({}) /\ Len(<<>>) = 0
  OBVIOUS
<1>2. DOMAIN <<>> = 1..0
  BY <1>1, SequenceIsTable
<1>3. 1..0 = {}
  OBVIOUS
<1> QED
  BY <1>1, <1>2, <1>3, SequenceIsTable

LEMMA RowAppended ==
  ASSUME NEW t, IsTable(t), NEW row
  PROVE  /\ IsTable(Append(t, row)) /\ Len(Append(t, row)) = Len(t) + 1
         /\ DOMAIN Append(t, row) = 1..(Len(t) + 1)
         /\ \A i \in DOMAIN t : Append(t, row)[i] = t[i]
         /\ Append(t, row)[Len(t) + 1] = row
<1> DEFINE S == Range(t) \cup {row}
<1>1. t \in Seq(S) /\ row \in S
  <2>1. t \in [1..Len(t) -> Range(t)] /\ Len(t) \in Nat
    BY LenProperties DEF IsTable
  <2>2. t \in [1..Len(t) -> S]
    BY <2>1
  <2> QED
    BY <2>1, <2>2, SeqDef
<1>2. /\ Append(t, row) \in Seq(S) /\ Len(Append(t, row)) = Len(t) + 1
      /\ \A i \in 1..Len(t) : Append(t, row)[i] = t[i]
      /\ Append(t, row)[Len(t) + 1] = row
  BY <1>1, AppendProperties
<1> QED
  BY <1>2, SequenceIsTable, TableIs

LEMMA RowChanged ==
  ASSUME NEW t, IsTable(t), NEW i \in DOMAIN t, NEW row
  PROVE  /\ IsTable([t EXCEPT ![i] = row]) /\ Len([t EXCEPT ![i] = row]) = Len(t)
         /\ DOMAIN [t EXCEPT ![i] = row] = DOMAIN t
         /\ \A j \in DOMAIN t : j # i => [t EXCEPT ![i] = row][j] = t[j]
         /\ [t EXCEPT ![i] = row][i] = row
<1> DEFINE S == Range(t) \cup {row}  u == [t EXCEPT ![i] = row]
<1>1. t \in [1..Len(t) -> Range(t)] /\ Len(t) \in Nat /\ DOMAIN t = 1..Len(t)
  BY LenProperties DEF IsTable
<1>2. u \in [1..Len(t) -> S] /\ u[i] = row /\ \A j \in DOMAIN t : j # i => u[j] = t[j]
  BY <1>1
<1>3. u \in Seq(S)
  BY <1>1, <1>2, SeqDef
<1>4. Len(u) = Len(t)
  BY <1>1, <1>2, <1>3, LenProperties
<1> QED
  BY <1>1, <1>2, <1>3, <1>4, SequenceIsTable

-----------------------------------------------------------------------------
(* Which step changes which memory                                           *)

\* Each store, and the forms of each page, are changed by their own steps.
LEMMA Framed ==
  ASSUME [Next]_vars
  PROVE  /\ LineageStep \/ UNCHANGED <<songs, active, versions, assets>>
         /\ PeopleStep \/ UNCHANGED peopleVars
         /\ ClaimStep \/ RightsStep \/ FactStep \/ FanStep \/ ReferenceStep \/ UNCHANGED claims
         /\ CollaborationStep \/ UNCHANGED handoffVars
         /\ ProfessionalStep \/ UNCHANGED handoffs
         /\ CreditsStep \/ UNCHANGED creditVars
         /\ ObligationStep \/ UNCHANGED obligations
         /\ SessionStep \/ NoteStep \/ UNCHANGED <<sessions, items, derivations>>
         /\ SuggestionStep \/ UNCHANGED <<deferrals, opinions>>
         /\ TransactionStep \/ UNCHANGED transactionVars
         /\ LearningStep \/ UNCHANGED <<episodes, skills, bound>>
         /\ FrictionStep \/ UNCHANGED <<frictions, captures>>
         /\ RetentionStep \/ UNCHANGED <<imports, view>>
         /\ TemplateStep \/ UNCHANGED catalogVars
         /\ CareerStep \/ UNCHANGED <<seasons, reviewed>>
         /\ FanStep \/ UNCHANGED plans
         /\ UNCHANGED <<blobs, ingest, decisions>>
<1> USE DEF base, collabs, rights, making, context, lineageVars, recordVars, creditVars, sessionVars, suggestionVars,
            learningVars, frictionVars, retentionVars, catalogVars, careerVars
<1>1. CASE LineageStep
  BY <1>1 DEF LineageStep, CreateSong, SelectSong, AttachAsset, CreateVersion, SetCurrentVersion, ApproveVersion
<1>2. CASE PeopleStep
  BY <1>2 DEF PeopleStep, CreatePerson, CreateFollowup, CloseFollowup, RecordAccount, ProposeLink, Open, Decide
<1>3. CASE ClaimStep
  BY <1>3 DEF ClaimStep, RecordClaim
<1>4. CASE CollaborationStep
  BY <1>4 DEF CollaborationStep, PreparePackage, RevokePackage, RecordFeedback, Say, AddressFeedback, DismissFeedback
<1>5. CASE ProfessionalStep
  BY <1>5 DEF ProfessionalStep, Submit, Accept, ReturnSubmission, VerifyFreshness, Mark
<1>6. CASE CreditsStep
  BY <1>6 DEF CreditsStep, Offer, Send
<1>7. CASE RightsStep
  BY <1>7 DEF RightsStep, AskForReference, Observe, SendReference, Receive
<1>8. CASE ObligationStep
  BY <1>8 DEF ObligationStep, CreateObligation, RecordTrigger, Transition, Become
<1>9. CASE SessionStep
  BY <1>9 DEF SessionStep, StartSession, CloseSession
<1>10. CASE NoteStep
  BY <1>10 DEF NoteStep, AppendScratch, PromoteDecision, RequestPromotion, RecordPromotion, RecordDerivation
<1>11. CASE SuggestionStep
  BY <1>11 DEF SuggestionStep, Suggest, PutOff, ForgetPrompt, NotNow, RecordOpinion
<1>12. CASE TransactionStep
  BY <1>12 DEF TransactionStep, ClaimOperation, Bind, EndOperation, RunBound, Hand
<1>13. CASE LearningStep
  BY <1>13 DEF LearningStep, CreateEpisode, AppendConsequence, AppendObservation, DecideEpisode, Declare, Assess,
     ShowLearning, SendLearning, StartEpisode, DecideBound, Correct
<1>14. CASE FactStep
  BY <1>14 DEF FactStep, RecordClaim
<1>15. CASE FrictionStep
  BY <1>15 DEF FrictionStep
<1>16. CASE RetentionStep
  BY <1>16 DEF RetentionStep
<1>17. CASE TemplateStep
  BY <1>17 DEF TemplateStep
<1>18. CASE CareerStep
  BY <1>18 DEF CareerStep
<1>19. CASE FanStep
  BY <1>19 DEF FanStep, RecordStage, RecordConsent, RecordContactPoint, ProviderRecords, RecordContactIntent,
     RecordFan, RecordClaim, ShowAudience, SendPlan
<1>20. CASE ReferenceStep
  BY <1>20 DEF ReferenceStep, CreateReference, ReviseReference, Judge, ReferenceObserved, RecordClaim
<1>21. CASE UNCHANGED vars
  BY <1>21 DEF vars, allVars
<1> QED
  BY <1>1, <1>2, <1>3, <1>4, <1>5, <1>6, <1>7, <1>8, <1>9, <1>10, <1>11, <1>12, <1>13, <1>14, <1>15,
     <1>16, <1>17, <1>18, <1>19, <1>20, <1>21 DEF Next

-----------------------------------------------------------------------------
(* What is decided stays                                                     *)

TablesInv ==
  /\ IsTable(followups) /\ IsTable(reviews)
  /\ IsTable(packages) /\ IsTable(feedback)
  /\ IsTable(handoffs) /\ IsTable(sheets)
  /\ IsTable(obligations) /\ IsTable(episodes)

\* The columns of a sheet, and the forms of the page of credits.
SheetsInv ==
  /\ \A k \in DOMAIN sheets : DOMAIN sheets[k] = {"song", "state", "saved", "said", "shares"}
  /\ \A f \in offered : f.kind \in {"CREDIT", "CREATE", "SAVE", "SUBMIT", "CONFIRM", "VOID"}

\* What a step may make of a table: a row more, or another row in place of one that
\* is not decided.
Kept(t, u, decided) ==
  IsTable(u) /\ DOMAIN t \subseteq DOMAIN u /\ \A i \in decided : u[i] = t[i]

LEMMA KeptSame == ASSUME NEW t, IsTable(t), NEW D \in SUBSET DOMAIN t PROVE Kept(t, t, D)
BY DEF Kept

LEMMA KeptAppended ==
  ASSUME NEW t, IsTable(t), NEW D \in SUBSET DOMAIN t, NEW row PROVE Kept(t, Append(t, row), D)
BY RowAppended, TableIs DEF Kept

LEMMA KeptChanged ==
  ASSUME NEW t, IsTable(t), NEW D \in SUBSET DOMAIN t, NEW i \in DOMAIN t, i \notin D, NEW row
  PROVE  Kept(t, [t EXCEPT ![i] = row], D)
BY RowChanged DEF Kept

ClosedFollowups   == {i \in DOMAIN followups : followups[i].state # "OPEN"}
ReviewsDone       == {r \in DOMAIN reviews : ~IsActive(r)}
TakenBack         == {k \in DOMAIN packages : packages[k].state = "REVOKED"}
Answered          == {f \in DOMAIN feedback : feedback[f].state # "OPEN"}
ClosedHandoffs    == {h \in DOMAIN handoffs : Closed(h)}
VoidedSheets      == {k \in DOMAIN sheets : sheets[k].state = "VOIDED"}
ClosedObligations == {o \in DOMAIN obligations : IsTerminal(o)}
DecidedEpisodes   == {e \in DOMAIN episodes : IsDecided(e)}

LEMMA PeopleKept ==
  ASSUME TablesInv, PeopleStep \/ UNCHANGED peopleVars
  PROVE  Kept(followups, followups', ClosedFollowups) /\ Kept(reviews, reviews', ReviewsDone)
<1>1. IsTable(followups) /\ IsTable(reviews)
  BY DEF TablesInv
<1>2. ClosedFollowups \in SUBSET DOMAIN followups /\ ReviewsDone \in SUBSET DOMAIN reviews
  BY DEF ClosedFollowups, ReviewsDone
<1>3. followups' = followups => Kept(followups, followups', ClosedFollowups)
  BY <1>1, <1>2, KeptSame
<1>4. reviews' = reviews => Kept(reviews, reviews', ReviewsDone)
  BY <1>1, <1>2, KeptSame
<1>5. ASSUME NEW p, NEW s, CreateFollowup(p, s)
      PROVE  Kept(followups, followups', ClosedFollowups) /\ reviews' = reviews
  BY <1>1, <1>2, <1>5, KeptAppended DEF CreateFollowup
<1>6. ASSUME NEW i, NEW state, CloseFollowup(i, state)
      PROVE  Kept(followups, followups', ClosedFollowups) /\ reviews' = reviews
  <2>1. i \in DOMAIN followups /\ i \notin ClosedFollowups
        /\ followups' = [followups EXCEPT ![i] = [followups[i] EXCEPT !.state = state]]
    BY <1>6 DEF CloseFollowup, ClosedFollowups
  <2>2. reviews' = reviews
    BY <1>6 DEF CloseFollowup
  <2>3. Kept(followups, followups', ClosedFollowups)
    BY <2>1, <1>1, <1>2, KeptChanged
  <2> QED
    BY <2>2, <2>3
<1>7. ASSUME NEW x, NEW p, ProposeLink(x, p)
      PROVE  Kept(reviews, reviews', ReviewsDone) /\ followups' = followups
  BY <1>1, <1>2, <1>7, KeptAppended DEF ProposeLink, Open
<1>8. ASSUME NEW r, NEW state, Decide(r, state)
      PROVE  Kept(reviews, reviews', ReviewsDone) /\ followups' = followups
  <2>1. r \in DOMAIN reviews /\ r \notin ReviewsDone
        /\ reviews' = [reviews EXCEPT ![r] = [reviews[r] EXCEPT !.states = Append(@, state)]]
    BY <1>8 DEF Decide, MayFollow, ReviewsDone, IsActive
  <2>2. followups' = followups
    BY <1>8 DEF Decide
  <2>3. Kept(reviews, reviews', ReviewsDone)
    BY <2>1, <1>1, <1>2, KeptChanged
  <2> QED
    BY <2>2, <2>3
<1> QED
  BY <1>3, <1>4, <1>5, <1>6, <1>7, <1>8 DEF PeopleStep, CreatePerson, RecordAccount, peopleVars

LEMMA CollaborationKept ==
  ASSUME TablesInv, CollaborationStep \/ UNCHANGED handoffVars
  PROVE  Kept(packages, packages', TakenBack) /\ Kept(feedback, feedback', Answered)
<1>1. IsTable(packages) /\ IsTable(feedback)
  BY DEF TablesInv
<1>2. TakenBack \in SUBSET DOMAIN packages /\ Answered \in SUBSET DOMAIN feedback
  BY DEF TakenBack, Answered
<1>3. packages' = packages => Kept(packages, packages', TakenBack)
  BY <1>1, <1>2, KeptSame
<1>4. feedback' = feedback => Kept(feedback, feedback', Answered)
  BY <1>1, <1>2, KeptSame
<1>5. ASSUME NEW v, NEW p, PreparePackage(v, p)
      PROVE  Kept(packages, packages', TakenBack) /\ feedback' = feedback
  BY <1>1, <1>2, <1>5, KeptAppended DEF PreparePackage
<1>6. ASSUME NEW k, RevokePackage(k)
      PROVE  Kept(packages, packages', TakenBack) /\ feedback' = feedback
  <2>1. k \in DOMAIN packages /\ k \notin TakenBack
        /\ packages' = [packages EXCEPT ![k] = [packages[k] EXCEPT !.state = "REVOKED"]]
    BY <1>6 DEF RevokePackage, TakenBack
  <2>2. feedback' = feedback
    BY <1>6 DEF RevokePackage
  <2>3. Kept(packages, packages', TakenBack)
    BY <2>1, <1>1, <1>2, KeptChanged
  <2> QED
    BY <2>2, <2>3
<1>7. ASSUME NEW k, RecordFeedback(k)
      PROVE  Kept(feedback, feedback', Answered) /\ packages' = packages
  BY <1>1, <1>2, <1>7, KeptAppended DEF RecordFeedback, Say
<1>8. ASSUME NEW f, NEW v, AddressFeedback(f, v)
      PROVE  Kept(feedback, feedback', Answered) /\ packages' = packages
  <2>1. f \in DOMAIN feedback /\ f \notin Answered
        /\ feedback' = [feedback EXCEPT ![f] = [feedback[f] EXCEPT !.state = "ADDRESSED", !.response = v]]
    BY <1>8 DEF AddressFeedback, Answered
  <2>2. packages' = packages
    BY <1>8 DEF AddressFeedback
  <2>3. Kept(feedback, feedback', Answered)
    BY <2>1, <1>1, <1>2, KeptChanged
  <2> QED
    BY <2>2, <2>3
<1>9. ASSUME NEW f, DismissFeedback(f)
      PROVE  Kept(feedback, feedback', Answered) /\ packages' = packages
  <2>1. f \in DOMAIN feedback /\ f \notin Answered
        /\ feedback' = [feedback EXCEPT ![f] = [feedback[f] EXCEPT !.state = "DISMISSED"]]
    BY <1>9 DEF DismissFeedback, Answered
  <2>2. packages' = packages
    BY <1>9 DEF DismissFeedback
  <2>3. Kept(feedback, feedback', Answered)
    BY <2>1, <1>1, <1>2, KeptChanged
  <2> QED
    BY <2>2, <2>3
<1> QED
  BY <1>3, <1>4, <1>5, <1>6, <1>7, <1>8, <1>9 DEF CollaborationStep, handoffVars

LEMMA ProfessionalKept ==
  ASSUME TablesInv, ProfessionalStep \/ UNCHANGED handoffs
  PROVE  Kept(handoffs, handoffs', ClosedHandoffs)
<1>1. IsTable(handoffs) /\ ClosedHandoffs \in SUBSET DOMAIN handoffs
  BY DEF TablesInv, ClosedHandoffs
<1>2. handoffs' = handoffs => Kept(handoffs, handoffs', ClosedHandoffs)
  BY <1>1, KeptSame
<1>3. ASSUME NEW policy, NEW v, NEW complete, NEW prior, Submit(policy, v, complete, prior)
      PROVE  Kept(handoffs, handoffs', ClosedHandoffs)
  BY <1>1, <1>3, KeptAppended DEF Submit
<1>4. ASSUME NEW h \in DOMAIN handoffs, ~Closed(h), NEW state, Mark(h, state)
      PROVE  Kept(handoffs, handoffs', ClosedHandoffs)
  <2>1. h \notin ClosedHandoffs
        /\ handoffs' = [handoffs EXCEPT ![h] =
             [handoffs[h] EXCEPT !.state = state, !.receipt = @ \/ state = "ACCEPTED", !.since = Len(events) + 1]]
    BY <1>4 DEF Mark, ClosedHandoffs
  <2> QED
    BY <2>1, <1>1, KeptChanged
<1> QED
  BY <1>2, <1>3, <1>4 DEF ProfessionalStep, Accept, ReturnSubmission, VerifyFreshness, Closed

\* A sheet is changed while it is a draft, and its shares only then.
SheetChanged(k, row) ==
  /\ k \in DOMAIN sheets /\ sheets' = [sheets EXCEPT ![k] = row]
  /\ sheets[k].state # "VOIDED" /\ DOMAIN row = DOMAIN sheets[k]
  /\ sheets[k].state # "DRAFT" => row.shares = sheets[k].shares

LEMMA VoidChanges ==
  ASSUME SheetsInv, NEW k, VoidSplit(k)
  PROVE  \E row : SheetChanged(k, row)
<1> DEFINE row == [sheets[k] EXCEPT !.state = "VOIDED"]
<1>1. k \in DOMAIN sheets /\ sheets[k].state # "VOIDED" /\ sheets' = [sheets EXCEPT ![k] = row]
  BY DEF VoidSplit, SheetOn
<1>2. DOMAIN row = DOMAIN sheets[k] /\ row.shares = sheets[k].shares
  BY <1>1 DEF SheetsInv
<1> QED
  BY <1>1, <1>2 DEF SheetChanged

LEMMA CallChanges ==
  ASSUME TablesInv, SheetsInv, NEW f \in offered, NEW shares, NEW status, Call(f, shares, status)
  PROVE  \/ sheets' = sheets
         \/ \E s : sheets' = Append(sheets, [song |-> s, state |-> "DRAFT", saved |-> 0, said |-> <<>>,
                                             shares |-> [p \in Person |-> 0]])
         \/ \E k, row : SheetChanged(k, row)
<1>1. CASE f.kind = "CREDIT"
  BY <1>1 DEF Call, RecordCredit
<1>2. CASE f.kind = "CREATE"
  <2>1. CreateSplitDraft(f.song)
    BY <1>2 DEF Call
  <2> QED
    BY <2>1 DEF CreateSplitDraft
<1>3. CASE f.kind = "SAVE"
  <2> DEFINE k == f.sheet
             row == [sheets[k] EXCEPT !.shares = shares, !.saved = IF \E p \in Person : shares[p] > 0 THEN @ + 1 ELSE @]
  <2>1. SetDraftAllocations(k, shares)
    BY <1>3 DEF Call
  <2>2. k \in DOMAIN sheets /\ sheets[k].state = "DRAFT" /\ sheets' = [sheets EXCEPT ![k] = row]
    BY <2>1 DEF SetDraftAllocations
  <2>3. DOMAIN row = DOMAIN sheets[k]
    OBVIOUS
  <2> QED
    BY <2>2, <2>3 DEF SheetChanged
<1>4. CASE f.kind = "SUBMIT"
  <2> DEFINE k == f.sheet  row == [sheets[k] EXCEPT !.state = "OPEN_CONFIRMATION"]
  <2>1. SubmitSplit(k)
    BY <1>4 DEF Call
  <2>2. k \in DOMAIN sheets /\ sheets[k].state = "DRAFT" /\ sheets' = [sheets EXCEPT ![k] = row]
    BY <2>1 DEF SubmitSplit
  <2>3. DOMAIN row = DOMAIN sheets[k]
    OBVIOUS
  <2> QED
    BY <2>2, <2>3 DEF SheetChanged
<1>5. CASE f.kind = "CONFIRM"
  <2> DEFINE k == f.sheet
             row == [sheets[k] EXCEPT !.said = Append(@, [person |-> f.person, status |-> status])]
  <2>1. RecordConfirmation(k, f.person, status)
    BY <1>5 DEF Call
  <2>2. k \in DOMAIN sheets /\ sheets[k].state = "OPEN_CONFIRMATION" /\ sheets' = [sheets EXCEPT ![k] = row]
    BY <2>1 DEF RecordConfirmation
  <2>3. DOMAIN row = DOMAIN sheets[k] /\ row.shares = sheets[k].shares
    BY <2>2 DEF SheetsInv
  <2> QED
    BY <2>2, <2>3 DEF SheetChanged
<1>6. CASE f.kind = "VOID"
  <2>1. VoidSplit(f.sheet)
    BY <1>6 DEF Call
  <2> QED
    BY <2>1, VoidChanges
<1> QED
  BY <1>1, <1>2, <1>3, <1>4, <1>5, <1>6 DEF SheetsInv

\* What a step may make of the sheets and of the forms.
LEMMA SheetsMove ==
  ASSUME TablesInv, SheetsInv, CreditsStep \/ UNCHANGED creditVars
  PROVE  /\ \/ sheets' = sheets
            \/ \E s : sheets' = Append(sheets, [song |-> s, state |-> "DRAFT", saved |-> 0, said |-> <<>>,
                                                shares |-> [p \in Person |-> 0]])
            \/ \E k, row : SheetChanged(k, row)
         /\ \A f \in offered' : f.kind \in {"CREDIT", "CREATE", "SAVE", "SUBMIT", "CONFIRM", "VOID"}
<1> DEFINE Moved == \/ sheets' = sheets
                    \/ \E s : sheets' = Append(sheets, [song |-> s, state |-> "DRAFT", saved |-> 0, said |-> <<>>,
                                                        shares |-> [p \in Person |-> 0]])
                    \/ \E k, row : SheetChanged(k, row)
           Kinds == {"CREDIT", "CREATE", "SAVE", "SUBMIT", "CONFIRM", "VOID"}
<1>1. \A f \in offered : f.kind \in Kinds
  BY DEF SheetsInv
<1>2. CASE UNCHANGED creditVars
  BY <1>1, <1>2 DEF creditVars
<1>3. ASSUME NEW s, NEW p, RecordCredit(s, p), UNCHANGED offered
      PROVE  sheets' = sheets /\ offered' = offered
  BY <1>3 DEF RecordCredit
<1>4. ASSUME NEW k, VoidSplit(k), UNCHANGED offered
      PROVE  (\E row : SheetChanged(k, row)) /\ offered' = offered
  BY <1>4, VoidChanges
<1>5. ASSUME NEW f, Offer(f)
      PROVE  sheets' = sheets /\ offered' = offered \cup {f} /\ f.kind \in Kinds
  <2>1. f \in CreditsPage(active) /\ sheets' = sheets /\ offered' = offered \cup {f}
    BY <1>5 DEF Offer
  <2>2. f.kind \in Kinds
    BY <2>1 DEF CreditsPage, SheetForms, FormFor
  <2> QED
    BY <2>1, <2>2
<1>6. ASSUME NEW f, NEW shares, NEW status, Send(f, shares, status)
      PROVE  Moved /\ offered' \subseteq offered
  <2>1. f \in offered /\ offered' = offered \ {f}
    BY <1>6 DEF Send
  <2>2. Call(f, shares, status) \/ sheets' = sheets
    BY <1>6 DEF Send
  <2> QED
    BY <2>1, <2>2, CallChanges
<1> HIDE DEF Moved
<1>7. CreditsStep => Moved /\ \A f \in offered' : f.kind \in Kinds
  <2> SUFFICES ASSUME CreditsStep PROVE Moved /\ \A f \in offered' : f.kind \in Kinds
    OBVIOUS
  <2>1. CASE \E s \in Song, p \in Person : RecordCredit(s, p) /\ UNCHANGED offered
    BY <2>1, <1>1, <1>3 DEF Moved
  <2>2. CASE \E k \in DOMAIN sheets : VoidSplit(k) /\ UNCHANGED offered
    BY <2>2, <1>1, <1>4 DEF Moved
  <2>3. CASE \E f \in CreditsPage(active) : Offer(f)
    BY <2>3, <1>1, <1>5 DEF Moved
  <2>4. CASE \E f \in offered : \E typed \in TypedIn(f) : Send(f, typed[1], typed[2])
    BY <2>4, <1>1, <1>6
  <2> QED
    BY <2>1, <2>2, <2>3, <2>4 DEF CreditsStep
<1> QED
  BY <1>1, <1>2, <1>7 DEF Moved, creditVars

LEMMA CreditsKept ==
  ASSUME TablesInv, SheetsInv, CreditsStep \/ UNCHANGED creditVars
  PROVE  /\ Kept(sheets, sheets', VoidedSheets)
         /\ \A k \in DOMAIN sheets : sheets[k].state # "DRAFT" => sheets'[k].shares = sheets[k].shares
         /\ SheetsInv'
<1> DEFINE Draft(s) == [song |-> s, state |-> "DRAFT", saved |-> 0, said |-> <<>>,
                        shares |-> [p \in Person |-> 0]]
           Columns == \A k \in DOMAIN sheets' : DOMAIN sheets'[k] = {"song", "state", "saved", "said", "shares"}
           Shares  == \A k \in DOMAIN sheets : sheets[k].state # "DRAFT" => sheets'[k].shares = sheets[k].shares
<1>1. IsTable(sheets) /\ VoidedSheets \in SUBSET DOMAIN sheets
  BY DEF TablesInv, VoidedSheets
<1>2. \A k \in DOMAIN sheets : DOMAIN sheets[k] = {"song", "state", "saved", "said", "shares"}
  BY DEF SheetsInv
<1>3. sheets' = sheets => Kept(sheets, sheets', VoidedSheets) /\ Shares /\ Columns
  BY <1>1, <1>2, KeptSame
<1>4. ASSUME NEW s, sheets' = Append(sheets, Draft(s))
      PROVE  Kept(sheets, sheets', VoidedSheets) /\ Shares /\ Columns
  <2>1. DOMAIN Draft(s) = {"song", "state", "saved", "said", "shares"}
    OBVIOUS
  <2> HIDE DEF Draft
  <2>2. /\ DOMAIN sheets = 1..Len(sheets) /\ DOMAIN sheets' = 1..(Len(sheets) + 1) /\ Len(sheets) \in Nat
        /\ \A k \in DOMAIN sheets : sheets'[k] = sheets[k]
        /\ sheets'[Len(sheets) + 1] = Draft(s)
    BY <1>1, <1>4, RowAppended, TableIs
  <2>3. Kept(sheets, sheets', VoidedSheets)
    BY <1>1, <1>4, KeptAppended
  <2>4. \A k \in DOMAIN sheets' : k \in DOMAIN sheets \/ k = Len(sheets) + 1
    BY <2>2
  <2> QED
    BY <2>1, <2>2, <2>3, <2>4, <1>2
<1>5. ASSUME NEW k, NEW row, SheetChanged(k, row)
      PROVE  Kept(sheets, sheets', VoidedSheets) /\ Shares /\ Columns
  <2>1. /\ DOMAIN sheets' = DOMAIN sheets
        /\ \A j \in DOMAIN sheets : j # k => sheets'[j] = sheets[j]
        /\ sheets'[k] = row
    BY <1>1, <1>5, RowChanged DEF SheetChanged
  <2>2. k \notin VoidedSheets
    BY <1>5 DEF SheetChanged, VoidedSheets
  <2>3. Kept(sheets, sheets', VoidedSheets)
    BY <2>2, <1>1, <1>5, KeptChanged DEF SheetChanged
  <2> QED
    BY <2>1, <2>3, <1>2, <1>5 DEF SheetChanged
<1>6. Kept(sheets, sheets', VoidedSheets) /\ Shares /\ Columns
  BY <1>3, <1>4, <1>5, SheetsMove
<1> QED
  BY <1>6, SheetsMove DEF SheetsInv

LEMMA ObligationsKept ==
  ASSUME TablesInv, ObligationStep \/ UNCHANGED obligations
  PROVE  Kept(obligations, obligations', ClosedObligations)
<1>1. IsTable(obligations) /\ ClosedObligations \in SUBSET DOMAIN obligations
  BY DEF TablesInv, ClosedObligations
<1>2. obligations' = obligations => Kept(obligations, obligations', ClosedObligations)
  BY <1>1, KeptSame
<1>3. ASSUME NEW p, NEW s, NEW followup, NEW due, NEW awaits, NEW c,
             CreateObligation(p, s, followup, due, awaits, c)
      PROVE  Kept(obligations, obligations', ClosedObligations)
  BY <1>1, <1>3, KeptAppended DEF CreateObligation
<1>4. ASSUME NEW o, NEW c, RecordTrigger(o, c)
      PROVE  Kept(obligations, obligations', ClosedObligations)
  <2>1. o \in DOMAIN obligations /\ o \notin ClosedObligations
        /\ obligations' = [obligations EXCEPT ![o] = [obligations[o] EXCEPT !.triggers = Append(@, c)]]
    BY <1>4 DEF RecordTrigger, ClosedObligations
  <2> QED
    BY <2>1, <1>1, KeptChanged
<1>5. ASSUME NEW o \in DOMAIN obligations, NEW status, NEW c, Transition(o, status, c)
      PROVE  Kept(obligations, obligations', ClosedObligations)
  <2>1. o \notin ClosedObligations
        /\ obligations' = [obligations EXCEPT ![o] =
             [obligations[o] EXCEPT !.life = Append(@, [status |-> status, claim |-> c])]]
    BY <1>5 DEF Transition, Become, MayBecome, IsTerminal, ClosedObligations
  <2> QED
    BY <2>1, <1>1, KeptChanged
<1> QED
  BY <1>2, <1>3, <1>4, <1>5 DEF ObligationStep

LEMMA EpisodesKept ==
  ASSUME TablesInv, LearningStep \/ UNCHANGED episodes
  PROVE  Kept(episodes, episodes', DecidedEpisodes)
<1>1. IsTable(episodes) /\ DecidedEpisodes \in SUBSET DOMAIN episodes
  BY DEF TablesInv, DecidedEpisodes
<1>2. episodes' = episodes => Kept(episodes, episodes', DecidedEpisodes)
  BY <1>1, KeptSame
<1>3. ASSUME NEW i, CreateEpisode(i)
      PROVE  Kept(episodes, episodes', DecidedEpisodes)
  BY <1>1, <1>3, KeptAppended DEF CreateEpisode
<1>4. ASSUME NEW e, NEW source, AppendConsequence(e, source)
      PROVE  Kept(episodes, episodes', DecidedEpisodes)
  <2>1. e \in DOMAIN episodes /\ e \notin DecidedEpisodes
        /\ episodes' = [episodes EXCEPT ![e] = [episodes[e] EXCEPT !.observed = Append(@, source)]]
    BY <1>4 DEF AppendConsequence, DecidedEpisodes
  <2> QED
    BY <2>1, <1>1, KeptChanged
<1>5. ASSUME NEW e, DecideEpisode(e)
      PROVE  Kept(episodes, episodes', DecidedEpisodes)
  <2>1. e \in DOMAIN episodes /\ e \notin DecidedEpisodes
        /\ episodes' = [episodes EXCEPT ![e] = [episodes[e] EXCEPT !.decidedOn = Len(episodes[e].observed)]]
    BY <1>5 DEF DecideEpisode, DecidedEpisodes
  <2> QED
    BY <2>1, <1>1, KeptChanged
<1>6. ASSUME NEW k, NEW a, Assess(k, a) PROVE episodes' = episodes
  BY <1>6 DEF Assess
<1>7. ASSUME NEW b, NEW level, SendLearning(b, level)
      PROVE  Kept(episodes, episodes', DecidedEpisodes)
  BY <1>2, <1>3, <1>5, <1>6, <1>7 DEF SendLearning, StartEpisode, DecideBound, Correct
<1>8. ASSUME LearningStep PROVE Kept(episodes, episodes', DecidedEpisodes)
  <2>1. \A k, level : Declare(k, level) => episodes' = episodes
    BY <1>6 DEF Declare
  <2>2. \A e : AppendObservation(e) => Kept(episodes, episodes', DecidedEpisodes)
    BY <1>4 DEF AppendObservation
  <2>3. \A b : ShowLearning(b) => episodes' = episodes
    BY DEF ShowLearning
  <2> QED
    BY <2>1, <2>2, <2>3, <1>2, <1>3, <1>4, <1>5, <1>6, <1>7, <1>8 DEF LearningStep
<1> QED
  BY <1>2, <1>8

LEMMA TablesStart == Init => TablesInv /\ SheetsInv
<1> SUFFICES ASSUME Init PROVE TablesInv /\ SheetsInv
  OBVIOUS
<1>1. /\ followups = <<>> /\ reviews = <<>> /\ packages = <<>> /\ feedback = <<>>
      /\ handoffs = <<>> /\ sheets = <<>> /\ obligations = <<>> /\ episodes = <<>> /\ offered = {}
  BY DEF Init, PeopleInit, HandoffInit, ProfessionalInit, CreditsInit, ObligationsInit, LearningInit
<1> QED
  BY <1>1, EmptyTable DEF TablesInv, SheetsInv

LEMMA TablesStay == TablesInv /\ SheetsInv /\ [Next]_vars => TablesInv' /\ SheetsInv'
<1> SUFFICES ASSUME TablesInv, SheetsInv, [Next]_vars PROVE TablesInv' /\ SheetsInv'
  OBVIOUS
<1>1. CASE Next
  <2>1. /\ Kept(followups, followups', ClosedFollowups) /\ Kept(reviews, reviews', ReviewsDone)
        /\ Kept(packages, packages', TakenBack) /\ Kept(feedback, feedback', Answered)
        /\ Kept(handoffs, handoffs', ClosedHandoffs)
        /\ Kept(sheets, sheets', VoidedSheets) /\ SheetsInv'
        /\ Kept(obligations, obligations', ClosedObligations)
        /\ Kept(episodes, episodes', DecidedEpisodes)
    BY <1>1, Framed, PeopleKept, CollaborationKept, ProfessionalKept, CreditsKept, ObligationsKept, EpisodesKept
  <2> QED
    BY <2>1 DEF Kept, TablesInv
<1>2. CASE UNCHANGED vars
  BY <1>2 DEF vars, allVars, base, collabs, rights, making, peopleVars, handoffVars, creditVars, learningVars,
     TablesInv, SheetsInv
<1> QED
  BY <1>1, <1>2

(* What was decided is never decided again: a closed follow-up, a decided review, a  *)
(* package taken back, feedback that was answered, a handoff that was returned or is *)
(* stale, the shares of a sheet that was submitted, an obligation that is closed and *)
(* an experiment that was decided stay as they are, whatever call comes after.      *)
THEOREM DecisionsStay == Spec => DecidedStays
<1> DEFINE Stays ==
      /\ \A i \in DOMAIN followups : followups[i].state # "OPEN" => followups'[i] = followups[i]
      /\ \A r \in DOMAIN reviews : ~IsActive(r) => reviews'[r] = reviews[r]
      /\ \A k \in DOMAIN packages : packages[k].state = "REVOKED" => packages'[k] = packages[k]
      /\ \A f \in DOMAIN feedback : feedback[f].state # "OPEN" => feedback'[f] = feedback[f]
      /\ \A h \in DOMAIN handoffs : Closed(h) => handoffs'[h] = handoffs[h]
      /\ \A k \in DOMAIN sheets :
           /\ sheets[k].state # "DRAFT" => sheets'[k].shares = sheets[k].shares
           /\ sheets[k].state = "VOIDED" => sheets'[k] = sheets[k]
      /\ \A o \in DOMAIN obligations : IsTerminal(o) => obligations'[o] = obligations[o]
      /\ \A e \in DOMAIN episodes : IsDecided(e) => episodes'[e] = episodes[e]
<1>1. TablesInv /\ SheetsInv /\ [Next]_vars => [Stays]_allVars
  <2> SUFFICES ASSUME TablesInv, SheetsInv, Next PROVE Stays
    BY DEF vars
  <2>1. /\ Kept(followups, followups', ClosedFollowups) /\ Kept(reviews, reviews', ReviewsDone)
        /\ Kept(packages, packages', TakenBack) /\ Kept(feedback, feedback', Answered)
        /\ Kept(handoffs, handoffs', ClosedHandoffs)
        /\ Kept(sheets, sheets', VoidedSheets)
        /\ Kept(obligations, obligations', ClosedObligations)
        /\ Kept(episodes, episodes', DecidedEpisodes)
    BY Framed, PeopleKept, CollaborationKept, ProfessionalKept, CreditsKept, ObligationsKept, EpisodesKept
  <2>2. \A k \in DOMAIN sheets : sheets[k].state # "DRAFT" => sheets'[k].shares = sheets[k].shares
    BY Framed, CreditsKept
  <2> QED
    BY <2>1, <2>2 DEF Kept, ClosedFollowups, ReviewsDone, TakenBack, Answered, ClosedHandoffs, VoidedSheets,
       ClosedObligations, DecidedEpisodes
<1> QED
  BY <1>1, TablesStart, TablesStay, PTL DEF Spec, DecidedStays

-----------------------------------------------------------------------------
(* The chronology: the last line that tells of something                     *)

LEMMA TablesJoined ==
  ASSUME NEW t, IsTable(t), NEW u, IsTable(u)
  PROVE  /\ IsTable(t \o u) /\ Len(t \o u) = Len(t) + Len(u) /\ DOMAIN (t \o u) = 1..(Len(t) + Len(u))
         /\ \A i \in 1..Len(t) : (t \o u)[i] = t[i]
         /\ \A i \in 1..Len(u) : (t \o u)[Len(t) + i] = u[i]
<1> DEFINE S == Range(t) \cup Range(u)
<1>1. Len(t) \in Nat /\ Len(u) \in Nat
  BY TableIs
<1>2. t \in Seq(S) /\ u \in Seq(S)
  <2>1. t \in [1..Len(t) -> Range(t)] /\ u \in [1..Len(u) -> Range(u)]
    BY LenProperties DEF IsTable
  <2>2. t \in [1..Len(t) -> S] /\ u \in [1..Len(u) -> S]
    BY <2>1
  <2> QED
    BY <2>2, <1>1, SeqDef
<1>3. t \o u \in Seq(S) /\ Len(t \o u) = Len(t) + Len(u)
  BY <1>2, ConcatProperties
<1>4. \A i \in 1..(Len(t) + Len(u)) : (t \o u)[i] = IF i <= Len(t) THEN t[i] ELSE u[i - Len(t)]
  BY <1>2, ConcatProperties
<1>5. \A i \in 1..Len(t) : (t \o u)[i] = t[i]
  BY <1>1, <1>4
<1>6. \A i \in 1..Len(u) : (t \o u)[Len(t) + i] = u[i]
  <2> SUFFICES ASSUME NEW i \in 1..Len(u) PROVE (t \o u)[Len(t) + i] = u[i]
    OBVIOUS
  <2>1. Len(t) + i \in 1..(Len(t) + Len(u)) /\ ~(Len(t) + i <= Len(t)) /\ (Len(t) + i) - Len(t) = i
    BY <1>1
  <2> QED
    BY <2>1, <1>4
<1> QED
  BY <1>3, <1>5, <1>6, SequenceIsTable

\* The order of the ids, as a relation: a set of ids has a least element because it is
\* well founded.
Below == {p \in Nat \X Nat : p[1] < p[2]}

LEMMA LeastOf ==
  ASSUME NEW S \in SUBSET Nat, S # {}
  PROVE  \E i \in S : \A j \in S : i <= j
<1>1. IsWellFoundedOn(Below, Nat)
  BY NatLessThanWellFounded DEF OpToRel, Below
<1>2. PICK x \in S : \A y \in S : ~ (<<y, x>> \in Below)
  BY <1>1, WFMin
<1>3. ASSUME NEW y \in S PROVE x <= y
  <2>1. <<y, x>> \in Nat \X Nat
    OBVIOUS
  <2>2. <<y, x>>[1] = y /\ <<y, x>>[2] = x
    OBVIOUS
  <2>3. ~(y < x)
    BY <1>2, <2>1, <2>2 DEF Below
  <2> QED
    BY <2>3
<1> QED
  BY <1>3

Greatest(S) == CHOOSE i \in S : \A j \in S : j <= i

LEMMA GreatestIs ==
  ASSUME NEW n \in Nat, NEW S \in SUBSET (1..n), S # {}
  PROVE  Greatest(S) \in S /\ \A j \in S : j <= Greatest(S)
<1> DEFINE R == {n - i : i \in S}
<1>1. R \in SUBSET Nat /\ R # {}
  <2>1. \A i \in S : n - i \in Nat
    OBVIOUS
  <2> QED
    BY <2>1
<1>2. PICK r \in R : \A q \in R : r <= q
  BY <1>1, LeastOf
<1>3. PICK i \in S : r = n - i
  BY <1>2
<1>4. \A j \in S : n - i <= n - j
  BY <1>2, <1>3
<1>5. \A j \in S : j <= i
  BY <1>4
<1> QED
  BY <1>5 DEF Greatest

\* What LastBefore reads, of any chronology.
Telling(es, at, type, about) == {i \in 1..at : es[i].type = type /\ es[i].song \in about}

LastOf(es, at, type, about) ==
  LET of == Telling(es, at, type, about) IN
  IF of = {} THEN Event(None, None, None) ELSE es[Greatest(of)]

LEMMA LastBeforeIs ==
  ASSUME NEW at, NEW type, NEW about
  PROVE  LastBefore(at, type, about) = LastOf(events, at, type, about)
BY DEF LastBefore, LastOf, Telling, Greatest

\* Of chronologies that begin alike.
LEMMA LastKept ==
  ASSUME NEW es, NEW more, NEW at \in Nat, NEW type, NEW about, \A i \in 1..at : more[i] = es[i]
  PROVE  LastOf(more, at, type, about) = LastOf(es, at, type, about)
<1> DEFINE S == Telling(es, at, type, about)
<1>1. Telling(more, at, type, about) = S
  BY DEF Telling
<1>2. S \in SUBSET (1..at)
  BY DEF Telling
<1>3. S # {} => Greatest(S) \in 1..at
  BY <1>2, GreatestIs
<1>4. S # {} => more[Greatest(S)] = es[Greatest(S)]
  BY <1>3
<1> QED
  BY <1>1, <1>4 DEF LastOf

\* Lines that tell of something else, and the last line that tells of it.
LEMMA LastAmong ==
  ASSUME NEW es, IsTable(es), NEW more, IsTable(more), NEW type, NEW about
  PROVE  LET H == Telling(more, Len(more), type, about) IN
         /\ H = {} => LastOf(es \o more, Len(es \o more), type, about) = LastOf(es, Len(es), type, about)
         /\ H # {} => LastOf(es \o more, Len(es \o more), type, about) = more[Greatest(H)]
<1> DEFINE H == Telling(more, Len(more), type, about)
           n == Len(es)
           m == Len(more)
           all == es \o more
           old == Telling(es, n, type, about)
           new == Telling(all, Len(all), type, about)
<1>10. H = {k \in 1..m : more[k].type = type /\ more[k].song \in about}
  BY DEF Telling
<1>1. n \in Nat /\ m \in Nat /\ Len(all) = n + m
  BY TableIs, TablesJoined
<1>2. /\ \A i \in 1..n : all[i] = es[i]
      /\ \A i \in 1..m : all[n + i] = more[i]
  BY TablesJoined
<1>3. \A i \in 1..(n + m) : i \in 1..n \/ \E k \in 1..m : i = n + k
  <2> SUFFICES ASSUME NEW i \in 1..(n + m), i \notin 1..n PROVE \E k \in 1..m : i = n + k
    OBVIOUS
  <2>1. i - n \in 1..m /\ i = n + (i - n)
    BY <1>1
  <2> QED
    BY <2>1
<1>4. \A k \in 1..m : n + k \in 1..(n + m) /\ n + k > n
  BY <1>1
<1>5. \A i \in 1..n : i \in 1..(n + m)
  BY <1>1
<1>6. new = old \cup {n + k : k \in H}
  <2>1. ASSUME NEW i \in new PROVE i \in old \cup {n + k : k \in H}
    <3>1. i \in 1..(n + m) /\ all[i].type = type /\ all[i].song \in about
      BY <1>1 DEF Telling
    <3>2. CASE i \in 1..n
      BY <3>1, <3>2, <1>2 DEF Telling
    <3>3. CASE \E k \in 1..m : i = n + k
      BY <3>1, <3>3, <1>2, <1>10
    <3> QED
      BY <3>1, <3>2, <3>3, <1>3
  <2>2. ASSUME NEW i \in old PROVE i \in new
    BY <1>1, <1>2, <1>5 DEF Telling
  <2>3. ASSUME NEW k \in H PROVE n + k \in new
    BY <1>1, <1>2, <1>4, <1>10 DEF Telling
  <2> QED
    BY <2>1, <2>2, <2>3
<1>7. old \in SUBSET (1..n) /\ H \in SUBSET (1..m) /\ new \in SUBSET (1..(n + m))
  BY <1>1 DEF Telling
<1>8. CASE H = {}
  <2>1. new = old
    BY <1>6, <1>8
  <2>2. old # {} => Greatest(old) \in 1..n
    BY <1>1, <1>7, GreatestIs
  <2>3. LastOf(all, Len(all), type, about) = LastOf(es, n, type, about)
    BY <2>1, <2>2, <1>2 DEF LastOf
  <2> QED
    BY <2>3, <1>8
<1>9. CASE H # {}
  <2>1. Greatest(H) \in H /\ \A k \in H : k <= Greatest(H)
    BY <1>1, <1>7, <1>9, GreatestIs
  <2>2. n + Greatest(H) \in new /\ Greatest(H) \in 1..m
    BY <2>1, <1>6, <1>7
  <2>3. Greatest(new) \in new /\ \A i \in new : i <= Greatest(new)
    <3>1. n + m \in Nat /\ new # {}
      BY <1>1, <2>2
    <3> QED
      BY <3>1, <1>7, GreatestIs
  <2>4. \A i \in new : i <= n + Greatest(H)
    <3> SUFFICES ASSUME NEW i \in new PROVE i <= n + Greatest(H)
      OBVIOUS
    <3>1. CASE i \in old
      BY <3>1, <1>1, <1>7, <2>2
    <3>2. CASE \E k \in H : i = n + k
      BY <3>2, <1>1, <1>7, <2>1, <2>2
    <3> QED
      BY <3>1, <3>2, <1>6
  <2>5. Greatest(new) = n + Greatest(H)
    <3>1. Greatest(new) \in Nat /\ n + Greatest(H) \in Nat
      BY <2>2, <2>3, <1>1, <1>7
    <3>2. Greatest(new) <= n + Greatest(H) /\ n + Greatest(H) <= Greatest(new)
      BY <2>2, <2>3, <2>4
    <3> HIDE DEF new, n
    <3> QED
      BY <3>1, <3>2
  <2>6. LastOf(all, Len(all), type, about) = all[Greatest(new)]
    BY <2>2 DEF LastOf
  <2> QED
    BY <2>5, <2>6, <2>2, <1>2, <1>9
<1> QED
  BY <1>8, <1>9

\* One line more, and two.
LEMMA OneRow == ASSUME NEW e PROVE \E one : one = <<e>> /\ IsTable(one) /\ Len(one) = 1 /\ one[1] = e
<1>1. <<e>> \in Seq({e}) /\ Len(<<e>>) = 1 /\ <<e>>[1] = e
  OBVIOUS
<1>2. IsTable(<<e>>)
  BY <1>1, SequenceIsTable
<1> QED
  BY <1>1, <1>2

LEMMA TwoRows ==
  ASSUME NEW d, NEW e, NEW two, two = <<d, e>>
  PROVE  IsTable(two) /\ Len(two) = 2 /\ two[1] = d /\ two[2] = e
<1>1. two \in Seq({d, e}) /\ Len(two) = 2 /\ two[1] = d /\ two[2] = e
  OBVIOUS
<1> QED
  BY <1>1, SequenceIsTable

LEMMA PairJoined == ASSUME NEW d, NEW e PROVE <<d>> \o <<e>> = <<d, e>>
<1>1. <<d>> \in Seq({d, e}) /\ e \in {d, e}
  OBVIOUS
<1>2. Append(<<d>>, e) = <<d>> \o <<e>>
  BY <1>1, AppendIsConcat
<1>3. Append(<<d>>, e) = <<d, e>>
  <2>1. PICK a : a = Append(<<d>>, e)
    OBVIOUS
  <2>2. PICK c : c = <<d, e>>
    OBVIOUS
  <2>3. a \in Seq({d, e}) /\ Len(a) = Len(<<d>>) + 1 /\ a[1] = d /\ a[Len(<<d>>) + 1] = e /\ Len(<<d>>) = 1
    <3>1. Len(<<d>>) = 1 /\ <<d>>[1] = d
      OBVIOUS
    <3> QED
      BY <1>1, <2>1, <3>1, AppendProperties
  <2>4. c \in Seq({d, e}) /\ Len(c) = 2 /\ c[1] = d /\ c[2] = e
    BY <2>2
  <2>5. Len(a) = 2 /\ \A i \in 1..Len(a) : a[i] = c[i]
    BY <2>3, <2>4
  <2>6. a = c
    BY <2>3, <2>4, <2>5, SeqEqual
  <2> QED
    BY <2>1, <2>2, <2>6
<1> QED
  BY <1>2, <1>3

LEMMA ToldOnce ==
  ASSUME NEW es, IsTable(es), NEW e, NEW type, NEW about
  PROVE  LET more == es \o <<e>> IN
         /\ IsTable(more) /\ Len(more) = Len(es) + 1
         /\ LastOf(more, Len(more), type, about)
              = IF e.type = type /\ e.song \in about THEN e ELSE LastOf(es, Len(es), type, about)
<1>1. PICK one : one = <<e>> /\ IsTable(one) /\ Len(one) = 1 /\ one[1] = e
  BY OneRow
<1>2. PICK H : H = Telling(one, Len(one), type, about)
  OBVIOUS
<1>3. H = IF e.type = type /\ e.song \in about THEN {1} ELSE {}
  BY <1>1, <1>2 DEF Telling
<1>4. /\ H = {} => LastOf(es \o one, Len(es \o one), type, about) = LastOf(es, Len(es), type, about)
      /\ H # {} => LastOf(es \o one, Len(es \o one), type, about) = one[Greatest(H)]
  <2>1. IsTable(one)
    BY <1>1
  <2> QED
    BY <2>1, <1>2, LastAmong
<1>5. H \in SUBSET (1..1)
  BY <1>3
<1>6. H # {} => Greatest(H) = 1
  <2>0. \A k \in H : k = 1
    BY <1>5
  <2>1. 1 \in Nat
    OBVIOUS
  <2>2. H # {} => Greatest(H) \in H
    BY <1>5, <2>1, GreatestIs
  <2> QED
    BY <2>0, <2>2
<1>7. LastOf(es \o one, Len(es \o one), type, about)
        = IF e.type = type /\ e.song \in about THEN e ELSE LastOf(es, Len(es), type, about)
  BY <1>1, <1>3, <1>4, <1>6
<1>8. IsTable(es \o one) /\ Len(es \o one) = Len(es) + 1
  BY <1>1, TablesJoined
<1>9. es \o <<e>> = es \o one
  BY <1>1
<1> QED
  BY <1>7, <1>8, <1>9

LEMMA ToldTwice ==
  ASSUME NEW es, IsTable(es), NEW d, NEW e, NEW type, NEW about
  PROVE  LET more == es \o <<d, e>> IN
         /\ IsTable(more) /\ Len(more) = Len(es) + 2
         /\ LastOf(more, Len(more), type, about)
              = IF e.type = type /\ e.song \in about THEN e
                ELSE IF d.type = type /\ d.song \in about THEN d
                ELSE LastOf(es, Len(es), type, about)
<1>1. PICK two : two = <<d, e>>
  OBVIOUS
<1>2. IsTable(two) /\ Len(two) = 2 /\ two[1] = d /\ two[2] = e
  BY <1>1, TwoRows
<1>3. PICK H : H = Telling(two, Len(two), type, about)
  OBVIOUS
<1>4. H \in SUBSET (1..2)
  BY <1>2, <1>3 DEF Telling
<1>5. /\ 1 \in H <=> d.type = type /\ d.song \in about
      /\ 2 \in H <=> e.type = type /\ e.song \in about
  BY <1>2, <1>3 DEF Telling
<1>6. /\ H = {} => LastOf(es \o two, Len(es \o two), type, about) = LastOf(es, Len(es), type, about)
      /\ H # {} => LastOf(es \o two, Len(es \o two), type, about) = two[Greatest(H)]
  <2>1. IsTable(two)
    BY <1>2
  <2> QED
    BY <2>1, <1>3, LastAmong
<1>7. H # {} => Greatest(H) \in H /\ \A j \in H : j <= Greatest(H)
  BY <1>4, GreatestIs
<1>8. \A k \in H : k = 1 \/ k = 2
  BY <1>4
<1>9. 2 \in H => Greatest(H) = 2
  BY <1>7, <1>8
<1>10. 2 \notin H /\ 1 \in H => Greatest(H) = 1
  BY <1>7, <1>8
<1>11. H = {} <=> 1 \notin H /\ 2 \notin H
  BY <1>8
<1>12. LastOf(es \o two, Len(es \o two), type, about)
        = IF e.type = type /\ e.song \in about THEN e
          ELSE IF d.type = type /\ d.song \in about THEN d
          ELSE LastOf(es, Len(es), type, about)
  BY <1>2, <1>5, <1>6, <1>9, <1>10, <1>11
<1>13. IsTable(es \o two) /\ Len(es \o two) = Len(es) + 2
  <2>1. IsTable(two)
    BY <1>2
  <2>2. IsTable(es \o two) /\ Len(es \o two) = Len(es) + Len(two)
    BY <2>1, TablesJoined
  <2> QED
    BY <1>2, <2>2
<1>14. es \o <<d, e>> = es \o two
  BY <1>1
<1> QED
  BY <1>12, <1>13, <1>14

-----------------------------------------------------------------------------
(* Steps that tell nothing of which Song is active and which Version is current *)

Moving == {"SONG_SELECTED", "CURRENT_VERSION_CHANGED"}

Quiet ==
  \E es : IsTable(es) /\ events' = events \o es /\ \A i \in 1..Len(es) : es[i].type \notin Moving

LEMMA QuietNone == ASSUME IsTable(events), UNCHANGED events PROVE Quiet
<1>1. PICK none : none = <<>> /\ IsTable(none) /\ Len(none) = 0
  <2>1. IsTable(<<>>) /\ Len(<<>>) = 0
    BY EmptyTable
  <2> QED
    BY <2>1
<1>2. events = events \o none
  <2>1. events \in Seq(Range(events))
    BY DEF IsTable
  <2> QED
    BY <2>1, <1>1, ConcatEmptySeq
<1>3. \A i \in 1..Len(none) : none[i].type \notin Moving
  BY <1>1
<1> QED
  BY <1>1, <1>2, <1>3 DEF Quiet

LEMMA QuietOne ==
  ASSUME NEW type, NEW s, NEW v, type \notin Moving, Log(<<Event(type, s, v)>>)
  PROVE  Quiet
<1>1. PICK es : es = <<Event(type, s, v)>> /\ IsTable(es) /\ Len(es) = 1 /\ es[1] = Event(type, s, v)
  BY OneRow
<1>2. events' = events \o es
  BY <1>1 DEF Log
<1>3. es[1].type = type
  BY <1>1 DEF Event
<1>4. \A i \in 1..Len(es) : es[i].type \notin Moving
  BY <1>1, <1>3
<1> QED
  BY <1>1, <1>2, <1>4 DEF Quiet

LEMMA QuietTwo ==
  ASSUME NEW t1, NEW s1, NEW v1, NEW t2, NEW s2, NEW v2, t1 \notin Moving, t2 \notin Moving,
         Log(<<Event(t1, s1, v1), Event(t2, s2, v2)>>)
  PROVE  Quiet
<1> DEFINE d == Event(t1, s1, v1)  e == Event(t2, s2, v2)  es == <<d, e>>
<1>1. d.type = t1 /\ e.type = t2
  BY DEF Event
<1> HIDE DEF d, e
<1>2. es \in Seq({d, e}) /\ Len(es) = 2 /\ es[1] = d /\ es[2] = e
  OBVIOUS
<1>3. IsTable(es)
  BY <1>2, SequenceIsTable
<1>4. events' = events \o es
  BY DEF Log, d, e
<1>5. \A i \in 1..Len(es) : es[i] = d \/ es[i] = e
  BY <1>2
<1> QED
  BY <1>1, <1>3, <1>4, <1>5 DEF Quiet

\* A claim, and the claims it replaces.
LEMMA QuietClaim ==
  ASSUME IsTable(claims), NEW scope, NEW key, NEW source, NEW ref, NEW value, NEW replaces,
         Claim(scope, key, source, ref, value, replaces)
  PROVE  Quiet
<1> DEFINE n == Cardinality(replaces)
<1>1. n \in Nat
  <2>1. replaces \subseteq 1..Len(claims) /\ Len(claims) \in Nat
    BY TableIs DEF Claim, ActiveClaims
  <2>2. IsFiniteSet(1..Len(claims))
    BY <2>1, FS_Interval
  <2> QED
    BY <2>1, <2>2, FS_Subset, FS_CardinalityType
<1>2. PICK song, version :
        events' = events \o (<<Event("EVIDENCE_CLAIM_RECORDED", song, version)>>
                     \o [i \in 1..n |-> Event("EVIDENCE_SUPERSESSION_LINKED", song, version)])
  BY DEF Claim, Log, ClaimEvents
<1> DEFINE d == Event("EVIDENCE_CLAIM_RECORDED", song, version)
           e == Event("EVIDENCE_SUPERSESSION_LINKED", song, version)
           one == <<d>>
           rest == [i \in 1..n |-> e]
           es == one \o rest
<1>3. d.type = "EVIDENCE_CLAIM_RECORDED" /\ e.type = "EVIDENCE_SUPERSESSION_LINKED"
  BY DEF Event
<1>4. events' = events \o es
  BY <1>2
<1> HIDE DEF n, d, e
<1>5. one \in Seq({d, e}) /\ rest \in Seq({d, e})
  <2>1. rest \in [1..n -> {d, e}]
    OBVIOUS
  <2> QED
    BY <2>1, <1>1, SeqDef
<1>6. es \in Seq({d, e})
  BY <1>5, ConcatProperties
<1>7. IsTable(es) /\ \A i \in 1..Len(es) : es[i] = d \/ es[i] = e
  <2>1. \A i \in 1..Len(es) : es[i] \in {d, e}
    BY <1>6, ElementOfSeq
  <2> QED
    BY <2>1, <1>6, SequenceIsTable
<1> HIDE DEF es
<1> QED
  BY <1>3, <1>4, <1>7 DEF Quiet, Moving

LEMMA PeopleQuiet == ASSUME IsTable(events), PeopleStep PROVE Quiet
<1>1. ASSUME NEW p, CreatePerson(p) PROVE Quiet
  BY <1>1, QuietOne DEF CreatePerson, Moving
<1>2. ASSUME NEW p, NEW s, CreateFollowup(p, s) PROVE Quiet
  BY <1>2, QuietOne DEF CreateFollowup, Moving
<1>3. ASSUME NEW i, NEW state \in {"RESOLVED", "CANCELED"}, CloseFollowup(i, state) PROVE Quiet
  <2>1. FollowupTold[state] \notin Moving
    BY DEF FollowupTold, Moving
  <2> QED
    BY <1>3, <2>1, QuietOne DEF CloseFollowup
<1>4. ASSUME NEW x, RecordAccount(x) PROVE Quiet
  BY <1>4, QuietOne DEF RecordAccount, Moving
<1>5. ASSUME NEW x, NEW p, ProposeLink(x, p) PROVE Quiet
  BY <1>5, QuietTwo DEF ProposeLink, Open, Moving
<1>6. ASSUME NEW r, NEW state \in {"LINKED", "REJECTED", "SPLIT"}, Decide(r, state) PROVE Quiet
  <2>1. ReviewTold[state] \notin Moving
    BY DEF ReviewTold, Moving
  <2> QED
    BY <1>6, <2>1, QuietOne DEF Decide
<1> QED
  BY <1>1, <1>2, <1>3, <1>4, <1>5, <1>6 DEF PeopleStep

LEMMA CollaborationQuiet == ASSUME CollaborationStep PROVE Quiet
<1>1. ASSUME NEW type, NEW v, HandoffEvent(type, v), type \notin Moving PROVE Quiet
  BY <1>1, QuietOne DEF HandoffEvent
<1>2. ASSUME NEW v, NEW p, PreparePackage(v, p) PROVE Quiet
  BY <1>1, <1>2 DEF PreparePackage, Moving
<1>3. ASSUME NEW k, RevokePackage(k) PROVE Quiet
  BY <1>1, <1>3 DEF RevokePackage, Moving
<1>4. ASSUME NEW k, RecordFeedback(k) PROVE Quiet
  BY <1>1, <1>4 DEF RecordFeedback, Say, Moving
<1>5. ASSUME NEW f, NEW v, AddressFeedback(f, v) PROVE Quiet
  BY <1>1, <1>5 DEF AddressFeedback, FeedbackTold, Moving
<1>6. ASSUME NEW f, DismissFeedback(f) PROVE Quiet
  BY <1>1, <1>6 DEF DismissFeedback, FeedbackTold, Moving
<1> QED
  BY <1>2, <1>3, <1>4, <1>5, <1>6 DEF CollaborationStep

LEMMA ProfessionalQuiet == ASSUME ProfessionalStep PROVE Quiet
<1>1. ASSUME NEW state \in {"SUBMITTED", "RETURNED", "ACCEPTED", "STALE"}, NEW v, Log(<<StateEvent(state, v)>>)
      PROVE  Quiet
  <2>1. StateTold[state] \notin Moving
    BY DEF StateTold, Moving
  <2> QED
    BY <1>1, <2>1, QuietOne DEF StateEvent
<1>2. ASSUME NEW policy, NEW v, NEW complete, NEW prior, Submit(policy, v, complete, prior) PROVE Quiet
  BY <1>1, <1>2 DEF Submit
<1>3. ASSUME NEW h, NEW state \in {"RETURNED", "ACCEPTED", "STALE"}, Mark(h, state) PROVE Quiet
  BY <1>1, <1>3 DEF Mark
<1> QED
  BY <1>2, <1>3 DEF ProfessionalStep, Accept, ReturnSubmission, VerifyFreshness

LEMMA ObligationQuiet == ASSUME ObligationStep PROVE Quiet
<1>1. ASSUME NEW p, NEW s, NEW followup, NEW due, NEW awaits, NEW c, CreateObligation(p, s, followup, due, awaits, c)
      PROVE  Quiet
  BY <1>1, QuietTwo DEF CreateObligation, Moving
<1>2. ASSUME NEW o, NEW c, RecordTrigger(o, c) PROVE Quiet
  BY <1>2, QuietOne DEF RecordTrigger, Moving
<1>3. ASSUME NEW o, NEW status \in OpenStatus \cup Terminal, NEW c, Transition(o, status, c) PROVE Quiet
  <2>1. StatusTold[status] \notin Moving
    BY DEF StatusTold, OpenStatus, Terminal, Moving
  <2> QED
    BY <1>3, <2>1, QuietOne DEF Transition, Become
<1> QED
  BY <1>1, <1>2, <1>3 DEF ObligationStep

LEMMA SessionQuiet == ASSUME SessionStep PROVE Quiet
<1>1. ASSUME NEW s, NEW v, StartSession(s, v) PROVE Quiet
  BY <1>1, QuietOne DEF StartSession, Moving
<1>2. ASSUME NEW i, CloseSession(i) PROVE Quiet
  BY <1>2, QuietOne DEF CloseSession, Moving
<1> QED
  BY <1>1, <1>2 DEF SessionStep

LEMMA NoteQuiet == ASSUME IsTable(events), NoteStep PROVE Quiet
<1>1. ASSUME NEW i, NEW kind, NEW written, AppendScratch(i, kind, written) PROVE Quiet
  BY <1>1, QuietOne DEF AppendScratch, Moving
<1>2. ASSUME NEW i, NEW terms, Log(PromotionEvents(i, terms)) PROVE Quiet
  BY <1>2, QuietTwo DEF PromotionEvents, Moving
<1>3. ASSUME NEW i, NEW scope, PromoteDecision(i, scope) PROVE Quiet
  BY <1>2, <1>3 DEF PromoteDecision
<1>4. ASSUME NEW i, NEW scope, NEW key, RequestPromotion(i, scope, key) PROVE Quiet
  BY <1>4, QuietNone DEF RequestPromotion, lineageVars
<1>5. ASSUME NEW i, NEW scope, NEW key, RecordPromotion(i, scope, key) PROVE Quiet
  BY <1>2, <1>5 DEF RecordPromotion
<1>6. ASSUME NEW output, NEW input, RecordDerivation(output, input) PROVE Quiet
  BY <1>6, QuietOne DEF RecordDerivation, Moving
<1> QED
  BY <1>1, <1>3, <1>4, <1>5, <1>6 DEF NoteStep

LEMMA SuggestionQuiet == ASSUME IsTable(events), SuggestionStep PROVE Quiet
<1>1. ASSUME NEW key, NEW scope, Defer(key, scope) PROVE Quiet
  BY <1>1, QuietNone, QuietOne DEF Defer, Insert, Moving
<1>2. ASSUME NEW direction, RecordOpinion(direction) PROVE Quiet
  BY <1>2, QuietOne DEF RecordOpinion, Moving
<1>3. ASSUME NEW key, Suggest(key) PROVE Quiet
  BY <1>3, QuietNone DEF Suggest, lineageVars
<1>4. ASSUME ForgetPrompt PROVE Quiet
  BY <1>4, QuietNone DEF ForgetPrompt, lineageVars
<1> QED
  BY <1>1, <1>2, <1>3, <1>4 DEF SuggestionStep, PutOff, NotNow

LEMMA LearningQuiet == ASSUME IsTable(events), LearningStep PROVE Quiet
<1>1. ASSUME NEW type, NEW e, EpisodeEvent(type, e), type \notin Moving PROVE Quiet
  BY <1>1, QuietOne DEF EpisodeEvent
<1>2. ASSUME NEW i, CreateEpisode(i) PROVE Quiet
  BY <1>2, QuietOne DEF CreateEpisode, Moving
<1>3. ASSUME NEW e, NEW source, AppendConsequence(e, source) PROVE Quiet
  BY <1>1, <1>3 DEF AppendConsequence, Moving
<1>4. ASSUME NEW e, DecideEpisode(e) PROVE Quiet
  BY <1>1, <1>4 DEF DecideEpisode, Moving
<1>5. ASSUME NEW k, NEW a, Assess(k, a) PROVE Quiet
  BY <1>5, QuietOne DEF Assess, Moving
<1>6. ASSUME NEW b, ShowLearning(b) PROVE Quiet
  BY <1>6, QuietNone DEF ShowLearning, lineageVars
<1>7. ASSUME NEW b, NEW level, SendLearning(b, level) PROVE Quiet
  BY <1>2, <1>4, <1>5, <1>7, QuietNone DEF SendLearning, StartEpisode, DecideBound, Correct, lineageVars
<1> QED
  BY <1>2, <1>3, <1>4, <1>5, <1>6, <1>7 DEF LearningStep, AppendObservation, Declare

LEMMA FrictionQuiet == ASSUME IsTable(events), FrictionStep PROVE Quiet
<1>1. ASSUME NEW e, NEW key, NEW source, RecordFriction(e, key, source) PROVE Quiet
  BY <1>1, QuietOne DEF RecordFriction, Moving
<1>2. ASSUME NEW e, ShowFriction(e) PROVE Quiet
  BY <1>2, QuietNone DEF ShowFriction
<1>3. ASSUME NEW b, NEW key, SendFriction(b, key) PROVE Quiet
  BY <1>1, <1>3, QuietNone DEF SendFriction, RecordBound
<1> QED
  BY <1>1, <1>2, <1>3 DEF FrictionStep

LEMMA CareerQuiet == ASSUME IsTable(events), CareerStep PROVE Quiet
<1>1. ASSUME NEW state, NEW expected, RecordState(state, expected) PROVE Quiet
  BY <1>1, QuietNone, QuietOne DEF RecordState, Moving
<1> QED
  BY <1>1, QuietNone DEF CareerStep, ShowCareerState, SendCareerState

LEMMA CreditsQuiet == ASSUME IsTable(events), SheetsInv, CreditsStep PROVE Quiet
<1>1. ASSUME NEW s, NEW p, RecordCredit(s, p) PROVE Quiet
  BY <1>1, QuietOne DEF RecordCredit, Moving
<1>2. ASSUME NEW s, CreateSplitDraft(s) PROVE Quiet
  BY <1>2, QuietOne DEF CreateSplitDraft, Moving
<1>3. ASSUME NEW k, NEW shares, SetDraftAllocations(k, shares) PROVE Quiet
  BY <1>3, QuietNone DEF SetDraftAllocations
<1>4. ASSUME NEW k, SubmitSplit(k) PROVE Quiet
  BY <1>4, QuietOne DEF SubmitSplit, SplitEvent, Moving
<1>5. ASSUME NEW k, NEW p, NEW status, RecordConfirmation(k, p, status) PROVE Quiet
  BY <1>5, QuietOne DEF RecordConfirmation, SplitEvent, Moving
<1>6. ASSUME NEW k, VoidSplit(k) PROVE Quiet
  BY <1>6, QuietOne DEF VoidSplit, SplitEvent, Moving
<1>7. ASSUME NEW f \in offered, NEW shares, NEW status, Call(f, shares, status) PROVE Quiet
  <2>1. f.kind \in {"CREDIT", "CREATE", "SAVE", "SUBMIT", "CONFIRM", "VOID"}
    BY DEF SheetsInv
  <2> QED
    BY <2>1, <1>1, <1>2, <1>3, <1>4, <1>5, <1>6, <1>7 DEF Call
<1>8. ASSUME NEW f, NEW shares, NEW status, Send(f, shares, status) PROVE Quiet
  BY <1>7, <1>8, QuietNone DEF Send
<1>9. ASSUME NEW f, Offer(f) PROVE Quiet
  BY <1>9, QuietNone DEF Offer, lineageVars
<1> QED
  BY <1>1, <1>6, <1>8, <1>9 DEF CreditsStep

LEMMA TransactionQuiet == ASSUME IsTable(events), TransactionStep PROVE Quiet
<1>1. UNCHANGED events
  BY DEF TransactionStep, ClaimOperation, Bind, EndOperation, RunBound, Hand, lineageVars
<1> QED
  BY <1>1, QuietNone

LEMMA ViewsQuiet == ASSUME IsTable(events), RetentionStep \/ TemplateStep PROVE Quiet
<1>1. UNCHANGED events
  BY DEF RetentionStep, TemplateStep, base, lineageVars
<1> QED
  BY <1>1, QuietNone

\* What the steps that record claims record: one claim, or nothing.
RecordsClaim ==
  \/ UNCHANGED <<claims, events>>
  \/ \E scope, key, source, ref, value, replaces : Claim(scope, key, source, ref, value, replaces)

LEMMA ClaimsRecorded ==
  ASSUME ClaimStep \/ RightsStep \/ FactStep \/ FanStep \/ ReferenceStep
  PROVE  RecordsClaim
<1>1. ASSUME NEW scope, NEW key, NEW source, NEW ref, NEW value, NEW replaces,
             RecordClaim(scope, key, source, ref, value, replaces)
      PROVE  RecordsClaim
  BY <1>1 DEF RecordClaim, RecordsClaim
<1>2. CASE ClaimStep
  BY <1>1, <1>2 DEF ClaimStep
<1>3. CASE FactStep
  BY <1>1, <1>3 DEF FactStep
<1>4. CASE RightsStep
  <2>1. ASSUME NEW t, NEW stage, NEW source, NEW assertion, RecordReference(t, stage, source, assertion)
        PROVE  RecordsClaim
    BY <2>1 DEF RecordReference, RecordsClaim
  <2>2. ASSUME NEW t, NEW assertion, RecordReceipt(t, assertion) PROVE RecordsClaim
    BY <2>2 DEF RecordReceipt, RecordsClaim
  <2>3. ASSUME NEW t, NEW stage, AskForReference(t, stage) PROVE RecordsClaim
    BY <2>3 DEF AskForReference, RecordsClaim, lineageVars
  <2>4. ASSUME NEW f, NEW assertion, SendReference(f, assertion) PROVE RecordsClaim
    BY <2>1, <2>4 DEF SendReference, RecordsClaim
  <2> QED
    BY <1>4, <2>1, <2>2, <2>3, <2>4 DEF RightsStep, Observe, Receive
<1>5. CASE FanStep
  <2>1. ASSUME NEW kind, NEW p, NEW source, NEW value, RecordFan(kind, p, source, value) PROVE RecordsClaim
    BY <1>1, <2>1 DEF RecordFan
  <2>2. ASSUME NEW kind, NEW p, NEW value, NEW replaces, ProviderRecords(kind, p, value, replaces)
        PROVE  RecordsClaim
    BY <1>1, <2>2 DEF ProviderRecords
  <2>3. ASSUME NEW p, NEW s, NEW channel, NEW purpose, RecordContactIntent(p, s, channel, purpose)
        PROVE  RecordsClaim
    BY <2>1, <2>3 DEF RecordContactIntent
  <2>4. ASSUME NEW f, ShowAudience(f) \/ SendPlan(f) PROVE RecordsClaim
    BY <2>3, <2>4 DEF ShowAudience, SendPlan, RecordsClaim, lineageVars
  <2> QED
    BY <1>5, <2>1, <2>2, <2>3, <2>4 DEF FanStep, RecordStage, RecordContactPoint, RecordConsent
<1>6. CASE ReferenceStep
  BY <1>1, <1>6 DEF ReferenceStep, CreateReference, ReviseReference, Judge, ReferenceObserved
<1> QED
  BY <1>2, <1>3, <1>4, <1>5, <1>6

LEMMA ClaimsQuiet ==
  ASSUME IsTable(events), IsTable(claims), ClaimStep \/ RightsStep \/ FactStep \/ FanStep \/ ReferenceStep
  PROVE  Quiet
BY ClaimsRecorded, QuietNone, QuietClaim DEF RecordsClaim

\* Only the lineage moves a pointer, and nothing else tells of it.
LEMMA OthersQuiet ==
  ASSUME IsTable(events), IsTable(claims), SheetsInv, [Next]_vars, ~LineageStep
  PROVE  Quiet /\ UNCHANGED <<songs, active, versions>>
<1>1. CASE Next
  BY <1>1, Framed, PeopleQuiet, CollaborationQuiet, ProfessionalQuiet, ObligationQuiet, SessionQuiet, NoteQuiet,
     SuggestionQuiet, LearningQuiet, FrictionQuiet, CareerQuiet, CreditsQuiet, TransactionQuiet, ViewsQuiet,
     ClaimsQuiet DEF Next
<1>2. CASE UNCHANGED vars
  BY <1>2, QuietNone DEF vars, allVars, base, lineageVars, recordVars
<1> QED
  BY <1>1, <1>2

-----------------------------------------------------------------------------
(* The chronology tells which Song is active and which Version of each is current *)

ToldActive     == LastOf(events, Len(events), "SONG_SELECTED", Song).song
ToldCurrent(s) == LastOf(events, Len(events), "CURRENT_VERSION_CHANGED", {s}).version

PointersInv ==
  /\ IsTable(events) /\ IsTable(versions)
  /\ songs \in [Song -> {None} \cup SongRow]
  /\ active \in Song \cup {None} /\ (active # None => active \in Known)
  /\ ToldActive = active
  /\ \A s \in Song : ToldCurrent(s) = IF songs[s] = None THEN None ELSE songs[s].current

\* The chronology only ever gets longer.
Grows == \E es : IsTable(es) /\ events' = events \o es

LEMMA QuietTells ==
  ASSUME IsTable(events), Quiet, NEW type \in Moving, NEW about
  PROVE  LastOf(events', Len(events'), type, about) = LastOf(events, Len(events), type, about)
<1>1. PICK es : IsTable(es) /\ events' = events \o es /\ \A i \in 1..Len(es) : es[i].type \notin Moving
  BY DEF Quiet
<1>2. Telling(es, Len(es), type, about) = {}
  BY <1>1 DEF Telling
<1> QED
  BY <1>1, <1>2, LastAmong

LEMMA QuietPoints ==
  ASSUME PointersInv, Quiet, UNCHANGED <<songs, active>>, IsTable(versions')
  PROVE  PointersInv' /\ Grows
<1>1. PICK es : IsTable(es) /\ events' = events \o es
  BY DEF Quiet
<1>2. IsTable(events')
  BY <1>1, TablesJoined DEF PointersInv
<1>3. ToldActive' = ToldActive /\ \A s \in Song : ToldCurrent(s)' = ToldCurrent(s)
  BY QuietTells DEF PointersInv, ToldActive, ToldCurrent, Moving
<1> QED
  BY <1>1, <1>2, <1>3 DEF PointersInv, Grows, Known

\* What one line more tells, and two.
LEMMA TellsOnce ==
  ASSUME IsTable(events), NEW e, Log(<<e>>)
  PROVE  /\ IsTable(events') /\ Grows
         /\ ToldActive' = IF e.type = "SONG_SELECTED" /\ e.song \in Song THEN e.song ELSE ToldActive
         /\ \A s : ToldCurrent(s)' =
              IF e.type = "CURRENT_VERSION_CHANGED" /\ e.song \in {s} THEN e.version ELSE ToldCurrent(s)
<1>1. events' = events \o <<e>>
  BY DEF Log
<1>2. IsTable(events')
  BY <1>1, ToldOnce
<1>3. Grows
  <2>1. PICK one : one = <<e>> /\ IsTable(one) /\ Len(one) = 1 /\ one[1] = e
    BY OneRow
  <2> QED
    BY <1>1, <2>1 DEF Grows
<1>4. ASSUME NEW type, NEW about
      PROVE  LastOf(events', Len(events'), type, about) =
               IF e.type = type /\ e.song \in about THEN e ELSE LastOf(events, Len(events), type, about)
  BY <1>1, ToldOnce
<1> QED
  BY <1>2, <1>3, <1>4 DEF ToldActive, ToldCurrent

LEMMA TellsTwice ==
  ASSUME IsTable(events), NEW d, NEW e, Log(<<d, e>>)
  PROVE  /\ IsTable(events') /\ Grows
         /\ ToldActive' = IF e.type = "SONG_SELECTED" /\ e.song \in Song THEN e.song
                          ELSE IF d.type = "SONG_SELECTED" /\ d.song \in Song THEN d.song ELSE ToldActive
         /\ \A s : ToldCurrent(s)' =
              IF e.type = "CURRENT_VERSION_CHANGED" /\ e.song \in {s} THEN e.version
              ELSE IF d.type = "CURRENT_VERSION_CHANGED" /\ d.song \in {s} THEN d.version ELSE ToldCurrent(s)
<1>1. events' = events \o <<d, e>>
  BY DEF Log
<1>2. IsTable(events')
  BY <1>1, ToldTwice
<1>3. Grows
  <2>1. PICK two : two = <<d, e>>
    OBVIOUS
  <2>2. IsTable(two)
    BY <2>1, TwoRows
  <2> QED
    BY <1>1, <2>1, <2>2 DEF Grows
<1>4. ASSUME NEW type, NEW about
      PROVE  LastOf(events', Len(events'), type, about) =
               IF e.type = type /\ e.song \in about THEN e
               ELSE IF d.type = type /\ d.song \in about THEN d
               ELSE LastOf(events, Len(events), type, about)
  <2>1. LastOf(events \o <<d, e>>, Len(events \o <<d, e>>), type, about) =
               IF e.type = type /\ e.song \in about THEN e
               ELSE IF d.type = type /\ d.song \in about THEN d
               ELSE LastOf(events, Len(events), type, about)
    BY ToldTwice
  <2> QED
    BY <1>1, <2>1
<1> QED
  BY <1>2, <1>3, <1>4 DEF ToldActive, ToldCurrent

\* A Version that becomes current.
LEMMA MadeCurrent ==
  ASSUME PointersInv, NEW s \in Known, NEW v \in Nat, songs' = [songs EXCEPT ![s].current = v],
         UNCHANGED active, IsTable(events'), IsTable(versions'), ToldActive' = ToldActive,
         \A x : ToldCurrent(x)' = IF s \in {x} THEN v ELSE ToldCurrent(x)
  PROVE  PointersInv'
<1>1. s \in Song /\ songs[s] \in SongRow
  BY DEF Known, PointersInv
<1> DEFINE row == [songs[s] EXCEPT !.current = v]
<1>2. row \in SongRow /\ row.current = v /\ row # None
  BY <1>1, NoneAssumption DEF SongRow
<1>3. songs' = [songs EXCEPT ![s] = row]
  OBVIOUS
<1> HIDE DEF row
<1>4. songs' \in [Song -> {None} \cup SongRow]
  BY <1>1, <1>2, <1>3 DEF PointersInv
<1>5. \A x \in Song : songs'[x] = IF x = s THEN row ELSE songs[x]
  BY <1>1, <1>3 DEF PointersInv
<1>6. \A x \in Song : ToldCurrent(x)' = IF songs'[x] = None THEN None ELSE songs'[x].current
  BY <1>2, <1>5 DEF PointersInv
<1>7. Known \subseteq Known'
  BY <1>2, <1>5 DEF Known
<1> QED
  BY <1>4, <1>6, <1>7 DEF PointersInv

LEMMA LineagePoints ==
  ASSUME PointersInv, LineageStep
  PROVE  PointersInv' /\ Grows
<1>1. IsTable(events) /\ IsTable(versions) /\ songs \in [Song -> {None} \cup SongRow]
  BY DEF PointersInv
<1>2. versions' = versions => IsTable(versions')
  BY <1>1
<1>3. ASSUME NEW s \in Song, CreateSong(s) PROVE PointersInv' /\ Grows
  <2> DEFINE d == Event("SONG_CREATED", s, None)  e == Event("SONG_SELECTED", s, None)
             row == [current |-> None, approved |-> None]
  <2>1. songs[s] = None /\ songs' = [songs EXCEPT ![s] = row] /\ active' = s /\ Log(<<d, e>>) /\ versions' = versions
    BY <1>3 DEF CreateSong
  <2>2. d.type = "SONG_CREATED" /\ e.type = "SONG_SELECTED" /\ e.song = s
    BY DEF Event
  <2>3. row \in SongRow /\ row.current = None
    BY DEF SongRow
  <2>4. row # None
    BY <2>3, NoneAssumption
  <2> HIDE DEF d, e, row
  <2>5. IsTable(events') /\ Grows /\ ToldActive' = s /\ \A x : ToldCurrent(x)' = ToldCurrent(x)
    BY <1>1, <2>1, <2>2, TellsTwice
  <2>6. songs' \in [Song -> {None} \cup SongRow] /\ \A x \in Song : songs'[x] = IF x = s THEN row ELSE songs[x]
    BY <1>1, <2>1, <2>3
  <2>7. s \in Known'
    BY <2>4, <2>6 DEF Known
  <2>8. \A x \in Song : ToldCurrent(x)' = IF songs'[x] = None THEN None ELSE songs'[x].current
    BY <2>1, <2>3, <2>4, <2>5, <2>6 DEF PointersInv
  <2> QED
    BY <1>2, <2>1, <2>5, <2>6, <2>7, <2>8 DEF PointersInv
<1>4. ASSUME NEW s \in Song, SelectSong(s) PROVE PointersInv' /\ Grows
  <2> DEFINE e == Event("SONG_SELECTED", s, songs[s].current)
  <2>1. s \in Known /\ active' = s /\ Log(<<e>>) /\ UNCHANGED <<songs, versions>>
    BY <1>4 DEF SelectSong
  <2>2. e.type = "SONG_SELECTED" /\ e.song = s
    BY DEF Event
  <2> HIDE DEF e
  <2>3. IsTable(events') /\ Grows /\ ToldActive' = s /\ \A x : ToldCurrent(x)' = ToldCurrent(x)
    BY <1>1, <2>1, <2>2, TellsOnce
  <2> QED
    BY <1>2, <2>1, <2>3 DEF PointersInv, Known
<1>5. ASSUME NEW s, NEW d, AttachAsset(s, d) PROVE PointersInv' /\ Grows
  <2>1. Quiet
    BY <1>5, QuietOne DEF AttachAsset, Moving
  <2> QED
    BY <1>2, <1>5, <2>1, QuietPoints DEF AttachAsset
<1>6. ASSUME NEW s \in Known, NEW v \in DOMAIN versions, SetCurrentVersion(s, v) PROVE PointersInv' /\ Grows
  <2> DEFINE e == Event("CURRENT_VERSION_CHANGED", s, v)
  <2>1. songs' = [songs EXCEPT ![s].current = v] /\ Log(<<e>>) /\ UNCHANGED <<active, versions>>
    BY <1>6 DEF SetCurrentVersion
  <2>2. e.type = "CURRENT_VERSION_CHANGED" /\ e.song = s /\ e.version = v
    BY DEF Event
  <2> HIDE DEF e
  <2>3. /\ IsTable(events') /\ Grows /\ ToldActive' = ToldActive
        /\ \A x : ToldCurrent(x)' = IF s \in {x} THEN v ELSE ToldCurrent(x)
    BY <1>1, <2>1, <2>2, TellsOnce
  <2>4. v \in Nat
    BY <1>1, TableIs
  <2> QED
    BY <1>2, <2>1, <2>3, <2>4, MadeCurrent
<1>7. ASSUME NEW s \in Known, NEW v \in DOMAIN versions, ApproveVersion(s, v) PROVE PointersInv' /\ Grows
  <2> DEFINE row == [songs[s] EXCEPT !.approved = v]
  <2>1. songs' = [songs EXCEPT ![s] = row] /\ UNCHANGED <<active, versions>>
    BY <1>7 DEF ApproveVersion
  <2>2. Quiet
    BY <1>7, QuietOne DEF ApproveVersion, Moving
  <2>3. s \in Song /\ songs[s] \in SongRow /\ v \in Nat
    BY <1>1, TableIs DEF Known
  <2>4. row \in SongRow /\ row.current = songs[s].current /\ row # None /\ songs[s] # None
    BY <2>3, NoneAssumption DEF SongRow
  <2> HIDE DEF row
  <2>5. songs' \in [Song -> {None} \cup SongRow] /\ \A x \in Song : songs'[x] = IF x = s THEN row ELSE songs[x]
    BY <1>1, <2>1, <2>3, <2>4
  <2>6. ToldActive' = ToldActive /\ \A x \in Song : ToldCurrent(x)' = ToldCurrent(x)
    BY <1>1, <2>2, QuietTells DEF ToldActive, ToldCurrent, Moving
  <2>7. IsTable(events') /\ Grows
    BY <1>1, <2>2, TablesJoined DEF Quiet, Grows
  <2>8. Known \subseteq Known'
    BY <2>4, <2>5 DEF Known
  <2>9. \A x \in Song : ToldCurrent(x)' = IF songs'[x] = None THEN None ELSE songs'[x].current
    BY <2>4, <2>5, <2>6 DEF PointersInv
  <2> QED
    BY <1>2, <2>1, <2>5, <2>6, <2>7, <2>8, <2>9 DEF PointersInv
<1>8. ASSUME NEW s, NEW attached, NEW becomesCurrent \in BOOLEAN, CreateVersion(s, None, attached, becomesCurrent)
      PROVE  PointersInv' /\ Grows
  <2> DEFINE v == Len(versions) + 1
             d == Event("VERSION_CREATED", s, v)  e == Event("CURRENT_VERSION_CHANGED", s, v)
  <2>1. s \in Known /\ UNCHANGED active /\ IsTable(versions') /\ v \in Nat
    BY <1>1, <1>8, RowAppended, TableIs DEF CreateVersion, NewVersion
  <2>2. /\ d.type = "VERSION_CREATED" /\ d.song = s
        /\ e.type = "CURRENT_VERSION_CHANGED" /\ e.song = s /\ e.version = v
    BY DEF Event
  <2>3. CASE becomesCurrent
    <3>1. songs' = [songs EXCEPT ![s].current = v]
      BY <1>8, <2>3 DEF CreateVersion, NewVersion
    <3>2. Log(<<d>> \o <<e>>)
      BY <1>8, <2>3 DEF CreateVersion, VersionEvents
    <3> HIDE DEF d, e, v
    <3>3. Log(<<d, e>>)
      <4>1. <<d>> \o <<e>> = <<d, e>>
        BY PairJoined
      <4> QED
        BY <3>2, <4>1
    <3>4. /\ IsTable(events') /\ Grows /\ ToldActive' = ToldActive
          /\ \A x : ToldCurrent(x)' = IF s \in {x} THEN v ELSE ToldCurrent(x)
      BY <1>1, <2>2, <3>3, TellsTwice
    <3> QED
      BY <2>1, <3>1, <3>4, MadeCurrent
  <2>4. CASE ~becomesCurrent
    <3>1. songs' = songs
      BY <1>8, <2>4 DEF CreateVersion, NewVersion
    <3>2. Log(<<d>> \o <<>>)
      BY <1>8, <2>4 DEF CreateVersion, VersionEvents
    <3>3. Log(<<d>>)
      <4> HIDE DEF d
      <4>1. <<d>> \o <<>> = <<d>>
        OBVIOUS
      <4> QED
        BY <3>2, <4>1
    <3>4. Quiet
      BY <3>3, QuietOne DEF Moving
    <3> QED
      BY <2>1, <3>1, <3>4, QuietPoints
  <2> QED
    BY <2>3, <2>4
<1> QED
  BY <1>3, <1>4, <1>5, <1>6, <1>7, <1>8 DEF LineageStep, SetCurrentVersion, ApproveVersion

LEMMA PointersStart == Init => PointersInv /\ IsTable(claims)
<1> SUFFICES ASSUME Init PROVE PointersInv /\ IsTable(claims)
  OBVIOUS
<1>1. /\ songs = [s \in Song |-> None] /\ active = None /\ versions = <<>> /\ claims = <<>>
      /\ events = <<Event("ACTIVITY_TRACKING_ENABLED", None, None)>>
  BY DEF Init, LineageInit, ClaimsInit
<1>2. IsTable(versions) /\ IsTable(claims)
  BY <1>1, EmptyTable
<1>3. PICK one : /\ one = <<Event("ACTIVITY_TRACKING_ENABLED", None, None)>> /\ IsTable(one)
                 /\ Len(one) = 1 /\ one[1] = Event("ACTIVITY_TRACKING_ENABLED", None, None)
  BY OneRow
<1>4. events = one
  BY <1>1, <1>3
<1>5. ASSUME NEW type \in Moving, NEW about PROVE LastOf(events, Len(events), type, about) = Event(None, None, None)
  <2>1. one[1].type = "ACTIVITY_TRACKING_ENABLED"
    BY <1>3 DEF Event
  <2>2. Telling(one, Len(one), type, about) = {}
    BY <1>3, <2>1 DEF Telling, Moving
  <2> QED
    BY <1>4, <2>2 DEF LastOf
<1>6. ToldActive = None /\ \A s : ToldCurrent(s) = None
  BY <1>5 DEF ToldActive, ToldCurrent, Moving, Event
<1> QED
  BY <1>1, <1>2, <1>3, <1>4, <1>6 DEF PointersInv

LEMMA ClaimsStayTable ==
  ASSUME IsTable(claims), [Next]_vars
  PROVE  IsTable(claims')
<1>1. ASSUME NEW scope, NEW key, NEW source, NEW ref, NEW value, NEW replaces,
             Claim(scope, key, source, ref, value, replaces)
      PROVE  IsTable(claims')
  BY <1>1, RowAppended DEF Claim
<1>2. CASE Next
  BY <1>1, <1>2, Framed, ClaimsRecorded DEF RecordsClaim
<1>3. CASE UNCHANGED vars
  BY <1>3 DEF vars, allVars, base
<1> QED
  BY <1>2, <1>3

LEMMA PointersStay ==
  ASSUME PointersInv, IsTable(claims), SheetsInv, [Next]_vars
  PROVE  PointersInv' /\ Grows
<1>1. CASE LineageStep
  BY <1>1, LineagePoints
<1>2. CASE ~LineageStep
  <2>1. Quiet /\ UNCHANGED <<songs, active, versions>>
    BY <1>2, OthersQuiet DEF PointersInv
  <2> QED
    BY <2>1, QuietPoints DEF PointersInv
<1> QED
  BY <1>1, <1>2

-----------------------------------------------------------------------------
(* A transaction runs as it was bound                                        *)

\* An operation the journal has ended is not being executed.
RunsInv ==
  /\ operations \in [Operation -> {None} \cup OperationRow]
  /\ \A b \in bindings : b.operation \in Operation /\ operations[b.operation] # None
  /\ IsTable(runs)
  /\ \A r \in DOMAIN runs :
       runs[r].at \in Nat /\ runs[r].at <= Len(events)
  /\ \A e \in endings :
       /\ e.operation \in Operation /\ operations[e.operation] # None
       /\ operations[e.operation].state # "EXECUTING"
  /\ RunsAsBound

\* What RanAsBound says, of any chronology, runs and endings.
RanAs(es, rs, en, r) ==
  LET b == rs[r].of IN
  /\ LastOf(es, rs[r].at, "SONG_SELECTED", Song).song = b.song
  /\ LastOf(es, rs[r].at, "CURRENT_VERSION_CHANGED", {b.song}).version = b.current
  /\ \A e \in en : e.operation = b.operation => r <= e.after

LEMMA RunsAsBoundIs ==
  /\ RunsAsBound <=> \A r \in DOMAIN runs : RanAs(events, runs, endings, r)
  /\ RunsAsBound' <=> \A r \in DOMAIN runs' : RanAs(events', runs', endings', r)
BY DEF RunsAsBound, RanAsBound, RanAs, LastBefore, LastOf, Telling, Greatest

LEMMA RanStays ==
  ASSUME IsTable(events), Grows, IsTable(runs), NEW r \in DOMAIN runs, runs[r].at \in Nat, runs[r].at <= Len(events),
         runs'[r] = runs[r], \A e \in endings' : e \in endings \/ r <= e.after, RanAs(events, runs, endings, r)
  PROVE  RanAs(events', runs', endings', r)
<1>1. PICK es : IsTable(es) /\ events' = events \o es
  BY DEF Grows
<1>3. \A i \in 1..runs[r].at : events'[i] = events[i]
  <2>1. \A i \in 1..runs[r].at : i \in 1..Len(events)
    BY TableIs
  <2> QED
    BY <1>1, <2>1, TablesJoined
<1>4. ASSUME NEW type, NEW about
      PROVE  LastOf(events', runs[r].at, type, about) = LastOf(events, runs[r].at, type, about)
  <2>1. PICK at \in Nat : at = runs[r].at
    OBVIOUS
  <2>2. \A i \in 1..at : events'[i] = events[i]
    BY <1>3, <2>1
  <2>3. LastOf(events', at, type, about) = LastOf(events, at, type, about)
    BY <2>2, LastKept
  <2> QED
    BY <2>1, <2>3
<1> QED
  BY <1>4 DEF RanAs

\* The runs there were, after a step that hands nothing over.
LEMMA RunsStand ==
  ASSUME PointersInv, RunsInv, Grows, UNCHANGED runs,
         \A e \in endings' : e \in endings \/ e.after = Len(runs)
  PROVE  /\ \A r \in DOMAIN runs' : runs'[r].at \in Nat /\ runs'[r].at <= Len(events')
         /\ IsTable(runs') /\ RunsAsBound'
<1>1. Len(events) \in Nat /\ Len(events') \in Nat /\ Len(events) <= Len(events')
  <2>1. PICK es : IsTable(es) /\ events' = events \o es
    BY DEF Grows
  <2>2. Len(events) \in Nat /\ Len(es) \in Nat
    BY <2>1, TableIs DEF PointersInv
  <2>3. Len(events \o es) = Len(events) + Len(es)
    BY <2>1, TablesJoined DEF PointersInv
  <2> QED
    BY <2>1, <2>2, <2>3
<1>2. ASSUME NEW r \in DOMAIN runs PROVE RanAs(events', runs', endings', r) /\ runs'[r].at \in Nat /\ runs'[r].at <= Len(events')
  <2>1. runs[r].at \in Nat /\ runs[r].at <= Len(events) /\ RanAs(events, runs, endings, r) /\ IsTable(runs)
    BY RunsAsBoundIs DEF RunsInv
  <2>2. r <= Len(runs)
    BY <2>1, TableIs
  <2>3. RanAs(events', runs', endings', r)
    BY <2>1, <2>2, RanStays DEF PointersInv
  <2> QED
    BY <1>1, <2>1, <2>3
<1> QED
  BY <1>2, RunsAsBoundIs DEF RunsInv

LEMMA RunsStart == Init => RunsInv
<1> SUFFICES ASSUME Init PROVE RunsInv
  OBVIOUS
<1>1. operations = [o \in Operation |-> None] /\ bindings = {} /\ runs = <<>> /\ endings = {}
  BY DEF Init, TransactionsInit
<1>2. IsTable(runs) /\ DOMAIN runs = {}
  BY <1>1, EmptyTable
<1> QED
  BY <1>1, <1>2 DEF RunsInv, RunsAsBound

LEMMA RunsStay ==
  ASSUME PointersInv, RunsInv, IsTable(claims), SheetsInv, [Next]_vars
  PROVE  RunsInv'
<1>1. Grows
  BY PointersStay
<1>2. operations \in [Operation -> {None} \cup OperationRow]
  BY DEF RunsInv
<1>3. CASE UNCHANGED transactionVars
  BY <1>1, <1>3, RunsStand DEF RunsInv, transactionVars
<1>4. ASSUME NEW o \in Operation, NEW s, NEW target, ClaimOperation(o, s, target), target \in Nat \cup {None}
      PROVE  RunsInv'
  <2> DEFINE row == [song |-> s, target |-> target, state |-> "EXECUTING"]
  <2>1. operations[o] = None /\ operations' = [operations EXCEPT ![o] = row] /\ UNCHANGED <<bindings, runs, endings>> /\ s \in Song
    BY <1>4 DEF ClaimOperation, Known
  <2>2. row \in OperationRow
    BY <1>4, <2>1 DEF OperationRow, Outcome
  <2> HIDE DEF row
  <2>3. /\ operations' \in [Operation -> {None} \cup OperationRow]
        /\ \A p \in Operation : operations[p] # None => operations'[p] = operations[p]
    BY <1>2, <2>1, <2>2
  <2> QED
    BY <1>1, <2>1, <2>3, RunsStand DEF RunsInv
<1>5. ASSUME NEW o \in Operation, Bind(o) PROVE RunsInv'
  <2>1. /\ UNCHANGED <<operations, runs, endings>> /\ operations[o] # None
        /\ \A b \in bindings' : b \in bindings \/ b.operation = o
    BY <1>5 DEF Bind, Claimed
  <2> QED
    BY <1>1, <2>1, RunsStand DEF RunsInv
<1>6. ASSUME NEW o \in Operation, NEW outcome \in OperationEnd, EndOperation(o, outcome) PROVE RunsInv'
  <2> DEFINE row == [operations[o] EXCEPT !.state = outcome]
             new == [operation |-> o, after |-> Len(runs)]
  <2>1. /\ operations[o] # None /\ operations' = [operations EXCEPT ![o] = row] /\ UNCHANGED <<bindings, runs>>
        /\ endings' = endings \cup {new}
    BY <1>6 DEF EndOperation, Record, Claimed
  <2>2. row \in OperationRow /\ row.state # "EXECUTING" /\ new.operation = o /\ new.after = Len(runs)
    BY <1>2, <2>1 DEF OperationRow, Outcome, OperationEnd
  <2> HIDE DEF row, new
  <2>3. /\ operations' \in [Operation -> {None} \cup OperationRow]
        /\ \A p \in Operation : operations'[p] = IF p = o THEN row ELSE operations[p]
    BY <1>2, <2>1, <2>2
  <2>4. /\ operations'[o] # None /\ operations'[o].state # "EXECUTING"
        /\ \A p \in Operation : /\ operations[p] # None => operations'[p] # None
                                /\ operations[p].state # "EXECUTING" => operations'[p].state # "EXECUTING"
    BY <2>2, <2>3, OperationAssumption
  <2> QED
    BY <1>1, <2>1, <2>2, <2>3, <2>4, RunsStand DEF RunsInv
<1>7. ASSUME NEW b \in bindings, NEW outcome \in Outcome, RunBound(b, outcome) PROVE RunsInv'
  <2> DEFINE o == b.operation
             row == [operations[o] EXCEPT !.state = outcome]
             new == [of |-> b, at |-> Len(events)]
  <2>0. PICK n : n = Len(runs)
    OBVIOUS
  <2>1. /\ operations[o] = [song |-> b.song, target |-> b.target, state |-> "EXECUTING"]
        /\ active = b.song /\ songs[b.song].current = b.current
        /\ operations' = [operations EXCEPT ![o] = row]
        /\ runs' = Append(runs, new) /\ UNCHANGED <<bindings, events>>
        /\ \A e \in endings' : e \in endings \/ (e.operation = o /\ e.after = Len(runs') /\ outcome \in OperationEnd)
    BY <1>7 DEF RunBound, BindingStands, Hand, Record, lineageVars
  <2>2. o \in Operation /\ IsTable(runs) /\ n \in Nat /\ DOMAIN runs = 1..n
    BY <2>0, TableIs DEF RunsInv
  <2>3. operations[o].state = "EXECUTING" /\ operations[o].song = b.song
    BY <2>1
  <2>4. row \in OperationRow /\ row.state = outcome /\ operations[o] # None
    BY <1>2, <2>2 DEF OperationRow, RunsInv
  <2> HIDE DEF row
  <2>5. /\ operations' \in [Operation -> {None} \cup OperationRow]
        /\ \A p \in Operation : operations'[p] = IF p = o THEN row ELSE operations[p]
    BY <1>2, <2>1, <2>2, <2>4
  <2>6. row # None
    BY <2>4, OperationAssumption
  <2>7. active \in Song /\ songs[active] # None
    <3>1. operations[o] \in OperationRow
      BY <1>2, <2>2, <2>4
    <3>2. b.song \in Song
      BY <2>3, <3>1 DEF OperationRow
    <3> QED
      BY <2>1, <3>2, NoneAssumption DEF PointersInv, Known
  <2>8. /\ IsTable(runs') /\ DOMAIN runs' = 1..(n + 1) /\ \A r \in 1..n : runs'[r] = runs[r]
        /\ runs'[n + 1] = new /\ Len(runs') = n + 1
    BY <2>0, <2>1, <2>2, RowAppended
  <2>9. new.of = b /\ new.at = Len(events)
    OBVIOUS
  <2> HIDE DEF new
  <2>10. Len(events) \in Nat
    BY TableIs DEF PointersInv
  <2>11. \A r \in 1..n : RanAs(events', runs', endings', r)
    <3> SUFFICES ASSUME NEW r \in 1..n PROVE RanAs(events', runs', endings', r)
      OBVIOUS
    <3>1. runs[r].at \in Nat /\ runs[r].at <= Len(events) /\ RanAs(events, runs, endings, r)
      BY <2>2, RunsAsBoundIs DEF RunsInv
    <3>2. runs'[r] = runs[r] /\ \A e \in endings' : e \in endings \/ r <= e.after
      BY <2>1, <2>2, <2>8
    <3> QED
      BY <1>1, <2>2, <3>1, <3>2, RanStays DEF PointersInv
  <2>12. RanAs(events', runs', endings', n + 1)
    <3>1. ToldActive = b.song /\ ToldCurrent(b.song) = b.current
      BY <2>1, <2>7 DEF PointersInv
    <3>2. \A e \in endings' : e.operation = o => n + 1 <= e.after
      BY <2>1, <2>2, <2>3, <2>8 DEF RunsInv
    <3> QED
      BY <2>1, <2>2, <2>8, <2>9, <3>1, <3>2 DEF RanAs, ToldActive, ToldCurrent
  <2>13. \A r \in 1..(n + 1) : r \in 1..n \/ r = n + 1
    BY <2>2
  <2>14. \A r \in DOMAIN runs' : runs'[r].at \in Nat /\ runs'[r].at <= Len(events')
    BY <2>1, <2>2, <2>8, <2>9, <2>10, <2>13 DEF RunsInv
  <2>16. \A e \in endings' :
           /\ e.operation \in Operation /\ operations'[e.operation] # None
           /\ operations'[e.operation].state # "EXECUTING"
    <3>1. outcome \in OperationEnd => row.state # "EXECUTING"
      BY <2>4 DEF OperationEnd
    <3>2. \A e \in endings : e.operation # o
      BY <2>3 DEF RunsInv
    <3> QED
      BY <2>1, <2>2, <2>5, <2>6, <3>1, <3>2 DEF RunsInv
  <2>15. \A c \in bindings' : c.operation \in Operation /\ operations'[c.operation] # None
    BY <2>1, <2>5, <2>6 DEF RunsInv
  <2> QED
    BY <2>5, <2>8, <2>11, <2>12, <2>13, <2>14, <2>15, <2>16, RunsAsBoundIs DEF RunsInv
<1>8. ASSUME TransactionStep PROVE RunsInv'
  <2>1. \A v \in DOMAIN versions : v \in Nat
    BY TableIs DEF PointersInv
  <2> QED
    BY <1>4, <1>5, <1>6, <1>7, <1>8, <2>1 DEF TransactionStep
<1> QED
  <2>1. CASE Next
    BY <2>1, <1>3, <1>8, Framed
  <2>2. CASE UNCHANGED vars
    BY <2>2, <1>3 DEF vars, allVars, making
  <2> QED
    BY <2>1, <2>2

(* A transaction was only ever run on the Song and the current Version it was bound  *)
(* to, as the chronology tells them, and never again after the journal ended its     *)
(* operation, by an earlier run or without one.                                 *)
THEOREM RunsKeepToBindings == Spec => []RunsAsBound
<1> DEFINE IInv == PointersInv /\ RunsInv /\ IsTable(claims) /\ TablesInv /\ SheetsInv
<1>1. Init => IInv
  BY PointersStart, RunsStart, TablesStart
<1>2. IInv /\ [Next]_vars => IInv'
  BY PointersStay, RunsStay, ClaimsStayTable, TablesStay
<1>3. IInv => RunsAsBound
  BY DEF RunsInv
<1> QED
  BY <1>1, <1>2, <1>3, PTL DEF Spec

-----------------------------------------------------------------------------
(* The claims: what replaces what, and what a judgment and an intent name    *)

\* What a claim replaces is older, of the same scope and key.
ReplacesInv ==
  \A c \in DOMAIN claims : \A d \in claims[c].replaces :
    d \in 1..(c - 1) /\ claims[d].scope = claims[c].scope /\ claims[d].key = claims[c].key

\* A reference is one work that one Song is held against.
ReferencesInv ==
  /\ \A c \in DOMAIN claims : IsReferenceKey(claims[c].key) => claims[c].key[2] \in 1..c
  /\ \A c, d \in DOMAIN claims :
       IsReferenceKey(claims[c].key) /\ claims[d].key = claims[c].key => claims[d].scope = claims[c].scope

\* What was said of a reference before a claim, and was not superseded by then.
HeldBefore(rows, j, key) ==
  {d \in 1..(j - 1) : rows[d].key = key} \ UNION {rows[d].replaces : d \in 1..(j - 1)}

\* A judgment replaces nothing and names the one revision that was in force.
JudgmentHolds(rows, j, key, c) ==
  /\ rows[j].replaces = {} /\ rows[j].scope = OfSong(rows[j].scope[2])
  /\ IsReferenceKey(key) /\ c \in 1..(j - 1)
  /\ rows[c].key = key /\ rows[c].scope = rows[j].scope
  /\ HeldBefore(rows, j, key) = {c}

JudgmentsInv ==
  \A j \in DOMAIN claims :
    claims[j].key[1] = "judgment" => JudgmentHolds(claims, j, claims[j].key[2], claims[j].value.revision)

IsFanRow(row, kind, p) ==
  row.scope = Artist /\ row.key[1] = "fan" /\ row.key[2] = kind /\ row.key[3] = p

\* An intent rests on a consent and a contact point of its person that are older.
IntentHolds(rows, c, intent, p) ==
  /\ intent.consent \in 1..(c - 1) /\ intent.contact \in 1..(c - 1)
  /\ IsFanRow(rows[intent.consent], "consent", p) /\ IsFanRow(rows[intent.contact], "contact", p)
  /\ rows[intent.consent].value.channel = intent.channel

\* A fact on a channel replaces one on that channel.
FansInv ==
  \A c \in DOMAIN claims :
    /\ claims[c].key[1] = "fan" =>
         \A d \in claims[c].replaces : claims[d].value.channel = claims[c].value.channel
    /\ \A p : IsFanRow(claims[c], "intent", p) => IntentHolds(claims, c, claims[c].value, p)

ClaimsInv == IsTable(claims) /\ ReplacesInv /\ ReferencesInv /\ JudgmentsInv /\ FansInv

\* The rows that are recorded, of each of the memories over the claims.
PlainRow(row) == row.key \in {TermsKey, FactKey}

RightsReads(row) ==
  /\ row.value \in Assertion /\ row.ref = TRUE
  /\ row.key[3] = "PROVIDER_RECEIPT" => row.source = "PROVIDER_VERIFIED"

RightsRow(row) == row.key[1] = "rights" /\ row.replaces = {} /\ RightsReads(row)

IntentStands(intent, p) ==
  /\ intent.consent \in FanClaims("consent", p) /\ intent.contact \in FanClaims("contact", p)
  /\ claims[intent.consent].value.channel = intent.channel

FanRow(row) ==
  /\ row.scope = Artist /\ row.key[1] = "fan"
  /\ \A d \in row.replaces : claims[d].value.channel = row.value.channel
  /\ row.key[2] = "intent" => IntentStands(row.value, row.key[3])

ReferenceRow(row) ==
  /\ IsReferenceKey(row.key)
  /\ \/ row.key[2] = Len(claims) + 1
     \/ \E c \in DOMAIN claims : claims[c].scope = row.scope /\ claims[c].key = row.key

JudgmentRow(row) ==
  /\ row.key[1] = "judgment" /\ IsReferenceKey(row.key[2]) /\ row.replaces = {}
  /\ row.scope = OfSong(row.scope[2]) /\ Reference(row.scope[2], row.key[2]) # None
  /\ row.value.revision = Reference(row.scope[2], row.key[2])

RowKind(row) == PlainRow(row) \/ RightsRow(row) \/ FanRow(row) \/ ReferenceRow(row) \/ JudgmentRow(row)

Recorded(row) ==
  /\ claims' = Append(claims, row)
  /\ row.replaces \subseteq ActiveClaims(row.scope, row.key)
  /\ RowKind(row)

\* A claim, as its row.
RowOf(scope, key, source, ref, value, replaces) ==
  [scope |-> scope, key |-> key, source |-> source, ref |-> ref, value |-> value, replaces |-> replaces]

LEMMA RowIs ==
  ASSUME NEW scope, NEW key, NEW source, NEW ref, NEW value, NEW replaces,
         Claim(scope, key, source, ref, value, replaces),
         NEW row, row = RowOf(scope, key, source, ref, value, replaces)
  PROVE  /\ row.scope = scope /\ row.key = key /\ row.source = source
         /\ row.ref = ref /\ row.value = value /\ row.replaces = replaces
         /\ claims' = Append(claims, row) /\ replaces \subseteq ActiveClaims(scope, key)
BY DEF RowOf, Claim

\* A set of claims that is not empty has a last one.
LEMMA CurrentIs ==
  ASSUME IsTable(claims), NEW kind, NEW p, NEW channel, Current(kind, p, channel) # None
  PROVE  /\ Current(kind, p, channel) \in FanClaims(kind, p)
         /\ claims[Current(kind, p, channel)].value.channel = channel
         /\ \A d \in FanClaims(kind, p) : claims[d].value.channel = channel => d <= Current(kind, p, channel)
<1>1. PICK on : on = {c \in FanClaims(kind, p) : claims[c].value.channel = channel}
  OBVIOUS
<1>2. on # {} /\ Current(kind, p, channel) = CHOOSE c \in on : \A d \in on : d <= c
  BY <1>1 DEF Current
<1>3. Current(kind, p, channel) = Greatest(on)
  BY <1>2 DEF Greatest
<1>4. on \in SUBSET (1..Len(claims)) /\ Len(claims) \in Nat
  BY <1>1, TableIs DEF FanClaims
<1>5. Greatest(on) \in on /\ \A d \in on : d <= Greatest(on)
  BY <1>2, <1>4, GreatestIs
<1> HIDE DEF Greatest
<1> QED
  BY <1>1, <1>3, <1>5

LEMMA ReferenceIs ==
  ASSUME NEW s, NEW key, Reference(s, key) # None
  PROVE  ActiveClaims(OfSong(s), key) = {Reference(s, key)}
<1>1. PICK c \in ActiveClaims(OfSong(s), key) : ActiveClaims(OfSong(s), key) = {c}
  BY DEF Reference
<1>2. Reference(s, key) = CHOOSE d \in ActiveClaims(OfSong(s), key) : TRUE
  BY DEF Reference
<1> QED
  BY <1>1, <1>2

LEMMA PlainMoves ==
  ASSUME NEW scope, NEW key \in {TermsKey, FactKey}, NEW source, NEW ref, NEW value, NEW replaces,
         RecordClaim(scope, key, source, ref, value, replaces)
  PROVE  \E row : Recorded(row)
<1>1. PICK row : row = RowOf(scope, key, source, ref, value, replaces)
  OBVIOUS
<1> QED
  BY <1>1, RowIs DEF RecordClaim, Recorded, RowKind, PlainRow

LEMMA RightsMoves ==
  ASSUME RightsStep
  PROVE  UNCHANGED claims \/ \E row : Recorded(row)
<1>1. ASSUME NEW t, NEW stage, NEW source, NEW assertion \in Assertion,
             stage = "PROVIDER_RECEIPT" => source = "PROVIDER_VERIFIED",
             Claim(<<"SONG", SongOfTarget(t)>>, EvidenceKey(t, stage), source, TRUE, assertion, {})
      PROVE  \E row : Recorded(row)
  <2>1. PICK scope, ref, none : scope = <<"SONG", SongOfTarget(t)>> /\ ref = TRUE /\ none = {}
    OBVIOUS
  <2>2. EvidenceKey(t, stage)[1] = "rights" /\ EvidenceKey(t, stage)[3] = stage
    BY DEF EvidenceKey
  <2>3. PICK row : row = RowOf(scope, EvidenceKey(t, stage), source, ref, assertion, none)
    OBVIOUS
  <2>5. Claim(scope, EvidenceKey(t, stage), source, ref, assertion, none)
    BY <1>1, <2>1
  <2>4. /\ row.key = EvidenceKey(t, stage) /\ row.replaces = none /\ claims' = Append(claims, row)
        /\ row.ref = ref /\ row.value = assertion /\ row.source = source /\ row.scope = scope /\ none \subseteq ActiveClaims(scope, EvidenceKey(t, stage))
    BY <2>3, <2>5, RowIs
  <2>6. RightsRow(row)
    BY <1>1, <2>1, <2>2, <2>4 DEF RightsRow, RightsReads
  <2> QED
    BY <2>1, <2>4, <2>6 DEF Recorded, RowKind
<1>2. ASSUME NEW t, NEW stage, NEW source, NEW assertion \in Assertion, RecordReference(t, stage, source, assertion)
      PROVE  \E row : Recorded(row)
  <2>1. stage # "PROVIDER_RECEIPT"
    BY <1>2 DEF RecordReference, Recordable
  <2> QED
    BY <1>1, <1>2, <2>1 DEF RecordReference
<1>3. ASSUME NEW t, NEW assertion \in Assertion, RecordReceipt(t, assertion) PROVE \E row : Recorded(row)
  BY <1>1, <1>3 DEF RecordReceipt
<1>4. ASSUME NEW t, NEW stage, AskForReference(t, stage) PROVE UNCHANGED claims
  BY <1>4 DEF AskForReference
<1>5. ASSUME NEW f, NEW assertion \in Assertion, SendReference(f, assertion) PROVE UNCHANGED claims \/ \E row : Recorded(row)
  BY <1>2, <1>5 DEF SendReference
<1> QED
  BY <1>2, <1>3, <1>4, <1>5 DEF RightsStep, Observe, Receive

LEMMA FanMoves ==
  ASSUME IsTable(claims), FanStep
  PROVE  UNCHANGED claims \/ \E row : Recorded(row)
<1>1. ASSUME NEW kind, NEW p, NEW source, NEW value, RecordFan(kind, p, source, value),
             kind = "intent" => IntentStands(value, p)
      PROVE  \E row : Recorded(row)
  <2>1. PICK row : row = RowOf(Artist, FanKey(kind, p), source, source # "USER_DECLARED", value, {})
    OBVIOUS
  <2>2. FanKey(kind, p)[1] = "fan" /\ FanKey(kind, p)[2] = kind /\ FanKey(kind, p)[3] = p
    BY DEF FanKey
  <2>3. /\ row.scope = Artist /\ row.key = FanKey(kind, p) /\ row.value = value /\ row.replaces = {}
        /\ claims' = Append(claims, row)
    BY <1>1, <2>1, RowIs DEF RecordFan, RecordClaim
  <2>4. FanRow(row)
    BY <1>1, <2>2, <2>3 DEF FanRow
  <2> QED
    BY <2>3, <2>4 DEF Recorded, RowKind
<1>2. ASSUME NEW p, NEW value, NEW c \in FanClaims("consent", p), ProviderRecords("consent", p, value, {c})
      PROVE  \E row : Recorded(row)
  <2>1. claims[c].key[1] = "fan" /\ claims[c].key[2] = "consent" /\ claims[c].value.channel = value.channel
    BY <1>2 DEF FanClaims, IsFanClaim, ProviderRecords
  <2>2. RecordClaim(Artist, claims[c].key, "PROVIDER_VERIFIED", TRUE, value, {c})
    BY <1>2 DEF ProviderRecords
  <2>7. PICK key, ref, one : key = claims[c].key /\ ref = TRUE /\ one = {c}
    OBVIOUS
  <2>8. Claim(Artist, key, "PROVIDER_VERIFIED", ref, value, one)
    BY <2>2, <2>7 DEF RecordClaim
  <2>3. PICK row : row = RowOf(Artist, key, "PROVIDER_VERIFIED", ref, value, one)
    OBVIOUS
  <2>4. /\ row.scope = Artist /\ row.key = key /\ row.value = value /\ row.replaces = one
        /\ claims' = Append(claims, row) /\ one \subseteq ActiveClaims(Artist, key)
    BY <2>3, <2>8, RowIs
  <2>5. FanRow(row)
    BY <2>1, <2>4, <2>7 DEF FanRow
  <2> QED
    BY <2>4, <2>5 DEF Recorded, RowKind
<1>3. ASSUME NEW p, NEW s, NEW channel, NEW purpose, RecordContactIntent(p, s, channel, purpose)
      PROVE  \E row : Recorded(row)
  <2>1. PICK intent : intent = Intent(p, s, channel, purpose)
    OBVIOUS
  <2>2. /\ intent.channel = channel /\ intent.consent = Current("consent", p, channel)
        /\ intent.contact = Current("contact", p, channel)
    BY <2>1 DEF Intent
  <2>3. Current("consent", p, channel) # None /\ Current("contact", p, channel) # None
    BY <1>3 DEF RecordContactIntent, OptedIn
  <2>4. IntentStands(intent, p)
    BY <2>2, <2>3, CurrentIs DEF IntentStands
  <2> QED
    BY <1>1, <1>3, <2>1, <2>4 DEF RecordContactIntent
<1>4. ASSUME NEW f, ShowAudience(f) PROVE UNCHANGED claims
  BY <1>4 DEF ShowAudience
<1>5. ASSUME NEW f, SendPlan(f) PROVE UNCHANGED claims \/ \E row : Recorded(row)
  BY <1>3, <1>5 DEF SendPlan
<1>6. ASSUME NEW p, NEW channel, NEW status
      PROVE  /\ RecordStage(p, "OBSERVED") => \E row : Recorded(row)
             /\ RecordContactPoint(p, channel, "USER_DECLARED") => \E row : Recorded(row)
             /\ RecordConsent(p, channel, status, "USER_DECLARED") => \E row : Recorded(row)
  BY <1>1 DEF RecordStage, RecordContactPoint, RecordConsent
<1> QED
  BY <1>2, <1>3, <1>4, <1>5, <1>6 DEF FanStep

LEMMA ReferenceMoves ==
  ASSUME IsTable(claims), ReferenceStep
  PROVE  \E row : Recorded(row)
<1>1. ASSUME NEW s, NEW version, NEW source, NEW ref, CreateReference(s, version, source, ref)
      PROVE  \E row : Recorded(row)
  <2>1. PICK row : row = RowOf(OfSong(s), <<"reference", Len(claims) + 1>>, source, ref, [version |-> version], {})
    OBVIOUS
  <2>2. /\ row.key = <<"reference", Len(claims) + 1>> /\ row.replaces = {} /\ claims' = Append(claims, row)
    BY <1>1, <2>1, RowIs DEF CreateReference, RecordClaim
  <2>3. ReferenceRow(row)
    BY <2>2 DEF ReferenceRow, IsReferenceKey
  <2> QED
    BY <2>2, <2>3 DEF Recorded, RowKind
<1>2. ASSUME NEW s, NEW key, IsReferenceKey(key), NEW source, NEW ref, NEW value, NEW replaces,
             RecordClaim(OfSong(s), key, source, ref, value, replaces), Revisions(s, key) # {}
      PROVE  \E row : Recorded(row)
  <2>1. PICK row : row = RowOf(OfSong(s), key, source, ref, value, replaces)
    OBVIOUS
  <2>2. /\ row.scope = OfSong(s) /\ row.key = key /\ row.replaces = replaces
        /\ claims' = Append(claims, row) /\ replaces \subseteq ActiveClaims(OfSong(s), key)
    BY <1>2, <2>1, RowIs DEF RecordClaim
  <2>3. ReferenceRow(row)
    BY <1>2, <2>2 DEF ReferenceRow, Revisions
  <2> QED
    BY <2>2, <2>3 DEF Recorded, RowKind
<1>3. ASSUME NEW s, NEW key, Reference(s, key) # None PROVE Revisions(s, key) # {}
  BY <1>3 DEF Reference, ActiveClaims, Revisions
<1>4. ASSUME NEW s, NEW key, IsReferenceKey(key), NEW kind, Judge(s, key, kind)
      PROVE  \E row : Recorded(row)
  <2>5. PICK ref, value, none : ref = FALSE /\ value = [revision |-> Reference(s, key)] /\ none = {}
    OBVIOUS
  <2>6. Claim(OfSong(s), JudgmentKey(key, kind), "USER_DECLARED", ref, value, none) /\ Reference(s, key) # None
    BY <1>4, <2>5 DEF Judge, RecordClaim
  <2>1. PICK row : row = RowOf(OfSong(s), JudgmentKey(key, kind), "USER_DECLARED", ref, value, none)
    OBVIOUS
  <2>2. /\ row.scope = OfSong(s) /\ row.key = JudgmentKey(key, kind) /\ row.replaces = {}
        /\ row.value = [revision |-> Reference(s, key)] /\ claims' = Append(claims, row)
        /\ Reference(s, key) # None
    BY <2>1, <2>5, <2>6, RowIs
  <2>3. /\ row.key[1] = "judgment" /\ row.key[2] = key /\ row.scope[2] = s
        /\ row.value.revision = Reference(s, key)
    BY <2>2 DEF JudgmentKey, OfSong
  <2>4. JudgmentRow(row)
    BY <1>4, <2>2, <2>3 DEF JudgmentRow
  <2> QED
    BY <2>2, <2>4 DEF Recorded, RowKind
<1>5. ASSUME NEW s, NEW key, IsReferenceKey(key), NEW version, ReviseReference(s, key, version, "USER_DECLARED", FALSE)
      PROVE  \E row : Recorded(row)
  BY <1>2, <1>3, <1>5 DEF ReviseReference
<1>6. ASSUME NEW s, NEW key, IsReferenceKey(key), NEW version, NEW replaces,
             ReferenceObserved(s, key, version, replaces)
      PROVE  \E row : Recorded(row)
  BY <1>2, <1>6 DEF ReferenceObserved
<1>7. \A key \in {claims[c].key : c \in {x \in DOMAIN claims : IsReferenceKey(claims[x].key)}} : IsReferenceKey(key)
  OBVIOUS
<1> QED
  BY <1>1, <1>4, <1>5, <1>6, <1>7 DEF ReferenceStep

LEMMA ClaimsMove ==
  ASSUME IsTable(claims), [Next]_vars
  PROVE  UNCHANGED claims \/ \E row : Recorded(row)
<1>1. CASE ClaimStep
  BY <1>1, PlainMoves DEF ClaimStep
<1>2. CASE FactStep
  BY <1>2, PlainMoves DEF FactStep
<1>3. CASE UNCHANGED vars
  BY <1>3 DEF vars, allVars, base
<1> QED
  BY <1>1, <1>2, <1>3, Framed, RightsMoves, FanMoves, ReferenceMoves

\* What a claim was stays when another is appended.
LEMMA ClaimAppended ==
  ASSUME IsTable(claims), NEW row, claims' = Append(claims, row)
  PROVE  /\ Len(claims) \in Nat /\ DOMAIN claims = 1..Len(claims) /\ Len(claims') = Len(claims) + 1
         /\ DOMAIN claims' = 1..(Len(claims) + 1) /\ IsTable(claims')
         /\ \A c \in 1..Len(claims) : claims'[c] = claims[c]
         /\ claims'[Len(claims) + 1] = row
         /\ \A c \in DOMAIN claims' : c \in DOMAIN claims \/ c = Len(claims) + 1
BY TableIs, RowAppended

LEMMA RowKinds ==
  ASSUME NEW row, RowKind(row)
  PROVE  /\ IsReferenceKey(row.key) => ReferenceRow(row)
         /\ row.key[1] = "judgment" => JudgmentRow(row)
         /\ row.key[1] = "fan" => FanRow(row)
         /\ row.key[1] = "rights" => RightsRow(row)
<1>1. PlainRow(row) => row.key[1] \in {"terms", "fact"}
  BY DEF PlainRow, TermsKey, FactKey
<1>2. /\ RightsRow(row) => row.key[1] = "rights"
      /\ FanRow(row) => row.key[1] = "fan"
      /\ ReferenceRow(row) => row.key[1] = "reference"
      /\ JudgmentRow(row) => row.key[1] = "judgment"
  BY DEF RightsRow, FanRow, ReferenceRow, JudgmentRow, IsReferenceKey
<1> QED
  BY <1>1, <1>2 DEF RowKind, IsReferenceKey

LEMMA ReplacesStay ==
  ASSUME IsTable(claims), ReplacesInv, NEW row, Recorded(row)
  PROVE  ReplacesInv'
<1> SUFFICES ASSUME NEW c \in DOMAIN claims', NEW d \in claims'[c].replaces
             PROVE  d \in 1..(c - 1) /\ claims'[d].scope = claims'[c].scope /\ claims'[d].key = claims'[c].key
  BY DEF ReplacesInv
<1> DEFINE n == Len(claims)
<1>1. /\ n \in Nat /\ DOMAIN claims = 1..n /\ claims'[n + 1] = row
      /\ \A x \in 1..n : claims'[x] = claims[x]
      /\ c \in 1..n \/ c = n + 1
  BY ClaimAppended DEF Recorded
<1>2. CASE c \in 1..n
  <2>1. d \in 1..(c - 1) /\ claims[d].scope = claims[c].scope /\ claims[d].key = claims[c].key
    BY <1>1, <1>2 DEF ReplacesInv
  <2>2. d \in 1..n
    BY <1>1, <1>2, <2>1
  <2> QED
    BY <1>1, <1>2, <2>1, <2>2
<1>3. CASE c = n + 1
  <2>1. d \in 1..n /\ claims[d].scope = row.scope /\ claims[d].key = row.key
    BY <1>1, <1>3 DEF Recorded, ActiveClaims
  <2> QED
    BY <1>1, <1>3, <2>1
<1> QED
  BY <1>1, <1>2, <1>3

LEMMA ReferencesStay ==
  ASSUME IsTable(claims), ReferencesInv, NEW row, Recorded(row)
  PROVE  ReferencesInv'
<1> DEFINE n == Len(claims)
<1>1. /\ n \in Nat /\ DOMAIN claims = 1..n /\ claims'[n + 1] = row
      /\ \A x \in 1..n : claims'[x] = claims[x]
      /\ \A c \in DOMAIN claims' : c \in 1..n \/ c = n + 1
  BY ClaimAppended DEF Recorded
<1>2. IsReferenceKey(row.key) =>
        row.key[2] = n + 1 \/ \E c \in 1..n : claims[c].scope = row.scope /\ claims[c].key = row.key
  BY <1>1, RowKinds DEF Recorded, ReferenceRow
<1>3. \A c \in 1..n : IsReferenceKey(claims[c].key) => claims[c].key[2] \in 1..c
  BY <1>1 DEF ReferencesInv
<1>4. \A c, d \in 1..n : IsReferenceKey(claims[c].key) /\ claims[d].key = claims[c].key => claims[d].scope = claims[c].scope
  BY <1>1 DEF ReferencesInv
<1>5. IsReferenceKey(row.key) => \A d \in 1..n : claims[d].key = row.key => claims[d].scope = row.scope
  <2> SUFFICES ASSUME IsReferenceKey(row.key), NEW d \in 1..n, claims[d].key = row.key
               PROVE  claims[d].scope = row.scope
    OBVIOUS
  <2>1. row.key[2] # n + 1
    BY <1>1, <1>3
  <2> QED
    BY <1>2, <1>4, <2>1
<1>6. IsReferenceKey(row.key) => row.key[2] \in 1..(n + 1)
  <2>1. \A c \in 1..n : claims[c].key = row.key /\ IsReferenceKey(row.key) => row.key[2] \in 1..(n + 1)
    BY <1>1, <1>3
  <2> QED
    BY <1>1, <1>2, <2>1
<1>7. ASSUME NEW c \in DOMAIN claims', IsReferenceKey(claims'[c].key) PROVE claims'[c].key[2] \in 1..c
  BY <1>1, <1>3, <1>6, <1>7
<1>8. ASSUME NEW c \in DOMAIN claims', NEW d \in DOMAIN claims',
             IsReferenceKey(claims'[c].key), claims'[d].key = claims'[c].key
      PROVE  claims'[d].scope = claims'[c].scope
  <2>1. CASE c \in 1..n /\ d \in 1..n
    BY <1>1, <1>4, <1>8, <2>1
  <2>2. CASE c \in 1..n /\ d = n + 1
    BY <1>1, <1>5, <1>8, <2>2
  <2>3. CASE c = n + 1 /\ d \in 1..n
    BY <1>1, <1>5, <1>8, <2>3
  <2>4. CASE c = n + 1 /\ d = n + 1
    BY <2>4
  <2> QED
    BY <1>1, <2>1, <2>2, <2>3, <2>4
<1> QED
  BY <1>7, <1>8 DEF ReferencesInv

LEMMA JudgmentsStay ==
  ASSUME IsTable(claims), ReferencesInv, JudgmentsInv, NEW row, Recorded(row)
  PROVE  JudgmentsInv'
<1> DEFINE n == Len(claims)
<1>1. /\ n \in Nat /\ DOMAIN claims = 1..n /\ claims'[n + 1] = row
      /\ \A x \in 1..n : claims'[x] = claims[x]
      /\ \A c \in DOMAIN claims' : c \in 1..n \/ c = n + 1
  BY ClaimAppended DEF Recorded
<1>2. ASSUME NEW j \in 1..(n + 1), NEW key PROVE HeldBefore(claims', j, key) = HeldBefore(claims, j, key)
  <2>1. \A d \in 1..(j - 1) : claims'[d] = claims[d]
    BY <1>1
  <2> QED
    BY <2>1 DEF HeldBefore
<1>3. ASSUME NEW j \in 1..n, claims[j].key[1] = "judgment"
      PROVE  JudgmentHolds(claims', j, claims[j].key[2], claims[j].value.revision)
  <2>1. PICK key, c : key = claims[j].key[2] /\ c = claims[j].value.revision
    OBVIOUS
  <2>2. JudgmentHolds(claims, j, key, c)
    BY <1>1, <1>3, <2>1 DEF JudgmentsInv
  <2>3. c \in 1..n
    BY <1>1, <2>2 DEF JudgmentHolds
  <2>4. claims'[j] = claims[j] /\ claims'[c] = claims[c] /\ j \in 1..(n + 1)
    BY <1>1, <2>3
  <2>5. HeldBefore(claims', j, key) = HeldBefore(claims, j, key)
    BY <1>2, <2>4
  <2>6. JudgmentHolds(claims', j, key, c)
    BY <2>2, <2>4, <2>5 DEF JudgmentHolds
  <2> QED
    BY <2>1, <2>6
<1>4. ASSUME row.key[1] = "judgment"
      PROVE  JudgmentHolds(claims', n + 1, row.key[2], row.value.revision)
  <2>1. PICK key, c, s : key = row.key[2] /\ c = row.value.revision /\ s = row.scope[2]
    OBVIOUS
  <2>2. /\ row.replaces = {} /\ row.scope = OfSong(s) /\ IsReferenceKey(key)
        /\ Reference(s, key) # None /\ c = Reference(s, key)
    BY <1>4, <2>1, RowKinds DEF Recorded, JudgmentRow
  <2>3. ActiveClaims(OfSong(s), key) = {c}
    BY <2>2, ReferenceIs
  <2>4. c \in 1..n /\ claims[c].key = key /\ claims[c].scope = row.scope
    BY <1>1, <2>2, <2>3 DEF ActiveClaims
  <2>5. n + 1 - 1 = n /\ n + 1 \in 1..(n + 1)
    BY <1>1
  <2>6. HeldBefore(claims, n + 1, key) = {d \in DOMAIN claims : claims[d].key = key} \ Superseded
    BY <1>1, <2>5 DEF HeldBefore, Superseded
  <2>7. \A d \in DOMAIN claims : claims[d].key = key => claims[d].scope = OfSong(s)
    BY <1>1, <2>2, <2>4 DEF ReferencesInv
  <2>8. HeldBefore(claims, n + 1, key) = ActiveClaims(OfSong(s), key)
    BY <2>6, <2>7 DEF ActiveClaims
  <2>9. HeldBefore(claims', n + 1, key) = HeldBefore(claims, n + 1, key)
    BY <1>2, <2>5
  <2>10. claims'[c] = claims[c] /\ claims'[n + 1] = row
    BY <1>1, <2>4
  <2>12. c \in 1..(n + 1 - 1)
    BY <2>4, <2>5
  <2>13. claims'[n + 1].replaces = {} /\ claims'[n + 1].scope = OfSong(claims'[n + 1].scope[2])
    BY <2>1, <2>2, <2>10
  <2>14. claims'[c].key = key /\ claims'[c].scope = claims'[n + 1].scope
    BY <2>4, <2>10
  <2>15. HeldBefore(claims', n + 1, key) = {c}
    BY <2>3, <2>8, <2>9
  <2>16. PICK j, rows : j = n + 1 /\ rows = claims'
    OBVIOUS
  <2>17. JudgmentHolds(rows, j, key, c)
    BY <2>2, <2>12, <2>13, <2>14, <2>15, <2>16 DEF JudgmentHolds
  <2>11. JudgmentHolds(claims', n + 1, key, c)
    BY <2>16, <2>17
  <2> QED
    BY <2>1, <2>11
<1>5. ASSUME NEW j \in DOMAIN claims', claims'[j].key[1] = "judgment"
      PROVE  JudgmentHolds(claims', j, claims'[j].key[2], claims'[j].value.revision)
  <2>1. CASE j \in 1..n
    <3>1. claims'[j] = claims[j]
      BY <1>1, <2>1
    <3> QED
      BY <1>3, <1>5, <2>1, <3>1
  <2>2. CASE j = n + 1
    <3>1. claims'[j] = row
      BY <1>1, <2>2
    <3> QED
      BY <1>4, <1>5, <2>2, <3>1
  <2> QED
    BY <1>1, <2>1, <2>2
<1> QED
  BY <1>5 DEF JudgmentsInv

LEMMA FansStay ==
  ASSUME IsTable(claims), ReplacesInv, FansInv, NEW row, Recorded(row)
  PROVE  FansInv'
<1> DEFINE n == Len(claims)
<1>1. /\ n \in Nat /\ DOMAIN claims = 1..n /\ claims'[n + 1] = row
      /\ \A x \in 1..n : claims'[x] = claims[x]
      /\ \A c \in DOMAIN claims' : c \in 1..n \/ c = n + 1
  BY ClaimAppended DEF Recorded
<1>3. ASSUME NEW c \in DOMAIN claims', claims'[c].key[1] = "fan", NEW d \in claims'[c].replaces
      PROVE  claims'[d].value.channel = claims'[c].value.channel
  <2>1. CASE c \in 1..n
    <3>1. claims'[c] = claims[c] /\ d \in 1..n
      BY <1>1, <1>3, <2>1 DEF ReplacesInv
    <3> QED
      BY <1>1, <1>3, <2>1, <3>1 DEF FansInv
  <2>2. CASE c = n + 1
    <3>1. FanRow(row) /\ d \in row.replaces /\ d \in 1..n
      BY <1>1, <1>3, <2>2, RowKinds DEF Recorded, ActiveClaims
    <3> QED
      BY <1>1, <2>2, <3>1 DEF FanRow
  <2> QED
    BY <1>1, <2>1, <2>2
<1>4. ASSUME NEW c \in DOMAIN claims', NEW p, IsFanRow(claims'[c], "intent", p)
      PROVE  IntentHolds(claims', c, claims'[c].value, p)
  <2>1. PICK intent : intent = claims'[c].value
    OBVIOUS
  <2>2. IntentHolds(claims, c, intent, p)
    <3>1. CASE c \in 1..n
      BY <1>1, <1>4, <2>1, <3>1 DEF FansInv
    <3>2. CASE c = n + 1
      <4>1. row.key[1] = "fan" /\ row.key[2] = "intent" /\ row.key[3] = p /\ row.value = intent
        BY <1>1, <1>4, <2>1, <3>2 DEF IsFanRow
      <4>2. IntentStands(intent, p)
        BY <4>1, RowKinds DEF Recorded, FanRow
      <4>3. c - 1 = n
        BY <1>1, <3>2
      <4> QED
        BY <1>1, <4>2, <4>3 DEF IntentStands, FanClaims, IsFanClaim, IsFanRow, IntentHolds
    <3> QED
      BY <1>1, <3>1, <3>2
  <2>3. \A d \in 1..(c - 1) : claims'[d] = claims[d]
    BY <1>1
  <2>4. IntentHolds(claims', c, intent, p)
    BY <2>2, <2>3 DEF IntentHolds
  <2> QED
    BY <2>1, <2>4
<1> QED
  BY <1>3, <1>4 DEF FansInv

LEMMA ClaimsStart == Init => ClaimsInv
<1> SUFFICES ASSUME Init PROVE ClaimsInv
  OBVIOUS
<1>1. claims = <<>>
  BY DEF Init, ClaimsInit
<1> QED
  BY <1>1, EmptyTable DEF ClaimsInv, ReplacesInv, ReferencesInv, JudgmentsInv, FansInv

LEMMA ClaimsStay == ClaimsInv /\ [Next]_vars => ClaimsInv'
<1> SUFFICES ASSUME ClaimsInv, [Next]_vars PROVE ClaimsInv'
  OBVIOUS
<1>1. CASE UNCHANGED claims
  BY <1>1 DEF ClaimsInv, ReplacesInv, ReferencesInv, JudgmentsInv, FansInv
<1>2. ASSUME NEW row, Recorded(row) PROVE ClaimsInv'
  <2>1. IsTable(claims')
    BY <1>2, ClaimAppended DEF ClaimsInv, Recorded
  <2> QED
    BY <1>2, <2>1, ReplacesStay, ReferencesStay, JudgmentsStay, FansStay DEF ClaimsInv
<1> QED
  BY <1>1, <1>2, ClaimsMove DEF ClaimsInv

-----------------------------------------------------------------------------
(* Judgments and intents                                                     *)

\* The last of the claims that have a key, or more in common, was not superseded.
LEMMA LastStands ==
  ASSUME ClaimsInv, NEW c \in DOMAIN claims,
         \A d \in DOMAIN claims : c \in claims[d].replaces => d <= c
  PROVE  c \notin Superseded
<1> SUFFICES ASSUME NEW d \in DOMAIN claims, c \in claims[d].replaces PROVE FALSE
  BY DEF Superseded
<1>1. c \in 1..(d - 1) /\ d <= c /\ d \in Nat
  BY TableIs DEF ClaimsInv, ReplacesInv
<1> QED
  BY <1>1

\* A judgment is never superseded: no claim replaces one.
LEMMA JudgmentsLast ==
  ASSUME ClaimsInv, NEW j \in DOMAIN claims, claims[j].key[1] = "judgment"
  PROVE  j \notin Superseded
<1> SUFFICES ASSUME NEW d \in DOMAIN claims, j \in claims[d].replaces PROVE FALSE
  BY DEF Superseded
<1>1. claims[d].key = claims[j].key
  BY DEF ClaimsInv, ReplacesInv
<1>2. claims[d].replaces = {}
  BY <1>1 DEF ClaimsInv, JudgmentsInv, JudgmentHolds
<1> QED
  BY <1>2

\* Something is still held of every reference that was ever described.
LEMMA ReferencesLast ==
  ASSUME ClaimsInv, NEW c \in DOMAIN claims, IsReferenceKey(claims[c].key)
  PROVE  \E d \in DOMAIN claims \ Superseded :
           claims[d].key = claims[c].key /\ claims[d].scope = claims[c].scope
<1>1. PICK of : of = {d \in DOMAIN claims : claims[d].key = claims[c].key}
  OBVIOUS
<1>2. PICK last : last = Greatest(of)
  OBVIOUS
<1>3. of \in SUBSET (1..Len(claims)) /\ Len(claims) \in Nat /\ of # {}
  BY <1>1, TableIs DEF ClaimsInv
<1>4. last \in of /\ \A d \in of : d <= last
  BY <1>2, <1>3, GreatestIs
<1>5. \A d \in DOMAIN claims : last \in claims[d].replaces => d \in of
  BY <1>1, <1>4 DEF ClaimsInv, ReplacesInv
<1>6. last \notin Superseded
  BY <1>1, <1>4, <1>5, LastStands
<1> QED
  BY <1>1, <1>4, <1>6 DEF ClaimsInv, ReferencesInv

LEMMA ClaimsJudge == ClaimsInv => JudgedAsItStood
<1> SUFFICES ASSUME ClaimsInv, NEW j \in DOMAIN claims, claims[j].key[1] = "judgment"
             PROVE  LET key    == claims[j].key[2]
                        before == {d \in 1..(j - 1) : claims[d].key = key}
                        s      == claims[j].scope[2]
                    IN /\ before \ UNION {claims[d].replaces : d \in 1..(j - 1)} = {claims[j].value.revision}
                       /\ ReferencesOf(s) # None => j \in Judgments(s, key, claims[j].key[3]) /\ JudgmentReads(s, j)
  BY DEF JudgedAsItStood
<1>1. PICK key, c, s : key = claims[j].key[2] /\ c = claims[j].value.revision /\ s = claims[j].scope[2]
  OBVIOUS
<1>2. JudgmentHolds(claims, j, key, c)
  BY <1>1 DEF ClaimsInv, JudgmentsInv
<1>3. /\ c \in DOMAIN claims /\ claims[c].key = key /\ claims[c].scope = OfSong(s)
      /\ claims[j].scope = OfSong(s) /\ IsReferenceKey(key) /\ HeldBefore(claims, j, key) = {c}
  BY <1>1, <1>2, TableIs DEF JudgmentHolds, ClaimsInv
<1>4. ASSUME ReferencesOf(s) # None PROVE j \in Judgments(s, key, claims[j].key[3]) /\ JudgmentReads(s, j)
  <2>1. PICK d \in DOMAIN claims \ Superseded : claims[d].key = key /\ claims[d].scope = OfSong(s)
    BY <1>3, ReferencesLast
  <2>2. Reference(s, claims[d].key) # None
    BY <1>3, <1>4, <2>1 DEF ReferencesOf
  <2>3. j \notin Superseded
    BY JudgmentsLast
  <2>4. j \in Judgments(s, key, claims[j].key[3])
    BY <1>1, <1>3, <2>1, <2>2, <2>3 DEF Judgments
  <2>5. JudgmentReads(s, j)
    BY <1>1, <1>3 DEF JudgmentReads, Revisions
  <2> QED
    BY <2>4, <2>5
<1>5. HeldBefore(claims, j, key) = {d \in 1..(j - 1) : claims[d].key = key} \ UNION {claims[d].replaces : d \in 1..(j - 1)}
  BY DEF HeldBefore
<1> QED
  BY <1>1, <1>3, <1>4, <1>5

(* A note or a decision about a reference names the one revision that was in force   *)
(* when it was made, and is read again with the reference whenever that can be.    *)
THEOREM JudgmentsStand == Spec => []JudgedAsItStood
BY ClaimsStart, ClaimsStay, ClaimsJudge, PTL DEF Spec

\* The current fact of a person on a channel is the last one there ever was of it.
LEMMA CurrentIsLast ==
  ASSUME ClaimsInv, NEW kind, NEW p, NEW channel, NEW d \in DOMAIN claims,
         IsFanClaim(d, kind, p), claims[d].value.channel = channel,
         Current(kind, p, channel) # None
  PROVE  d <= Current(kind, p, channel)
<1>1. PICK of : of = {x \in DOMAIN claims : IsFanClaim(x, kind, p) /\ claims[x].value.channel = channel}
  OBVIOUS
<1>2. PICK last : last = Greatest(of)
  OBVIOUS
<1>3. of \in SUBSET (1..Len(claims)) /\ Len(claims) \in Nat /\ d \in of
  BY <1>1, TableIs DEF ClaimsInv
<1>4. last \in of /\ \A x \in of : x <= last
  BY <1>2, <1>3, GreatestIs
<1>5. \A x \in DOMAIN claims : last \in claims[x].replaces => x \in of
  <2> SUFFICES ASSUME NEW x \in DOMAIN claims, last \in claims[x].replaces PROVE x \in of
    OBVIOUS
  <2>1. claims[x].scope = claims[last].scope /\ claims[x].key = claims[last].key
    BY DEF ClaimsInv, ReplacesInv
  <2>2. IsFanClaim(x, kind, p) /\ claims[x].key[1] = "fan"
    BY <1>1, <1>4, <2>1 DEF IsFanClaim
  <2> QED
    BY <1>1, <1>4, <2>2 DEF ClaimsInv, FansInv
<1>6. last \in FanClaims(kind, p) /\ claims[last].value.channel = channel
  BY <1>1, <1>4, <1>5, LastStands DEF FanClaims
<1>7. last <= Current(kind, p, channel) /\ Current(kind, p, channel) \in Nat
  BY <1>6, CurrentIs, TableIs DEF ClaimsInv, FanClaims
<1> QED
  BY <1>3, <1>4, <1>7

LEMMA ClaimsReview == ClaimsInv => NothingNewerIsKnown
<1> SUFFICES ASSUME ClaimsInv, NEW p \in people, NEW c \in FanClaims("intent", p)
             PROVE  LET intent == claims[c].value IN
                    IF Parses(c)
                      THEN AssessIntent(c) = "REVIEWABLE" =>
                             \A d \in (c + 1)..Len(claims) :
                               IsFanClaim(d, "consent", p) \/ IsFanClaim(d, "contact", p)
                                 => claims[d].value.channel # intent.channel
                      ELSE intent.consent \in Superseded
  BY DEF NothingNewerIsKnown
<1>1. PICK intent : intent = claims[c].value
  OBVIOUS
<1>2. c \in DOMAIN claims /\ IsFanClaim(c, "intent", p) /\ claims[c].key[3] = p
  BY DEF FanClaims, IsFanClaim
<1>3. IntentHolds(claims, c, intent, p)
  BY <1>1, <1>2 DEF ClaimsInv, FansInv, IsFanClaim, IsFanRow
<1>4. c \in Nat /\ Len(claims) \in Nat /\ DOMAIN claims = 1..Len(claims)
  BY <1>2, TableIs DEF ClaimsInv
<1>5. ASSUME AssessIntent(c) = "REVIEWABLE", NEW d \in (c + 1)..Len(claims),
             IsFanClaim(d, "consent", p) \/ IsFanClaim(d, "contact", p)
      PROVE  claims[d].value.channel # intent.channel
  <2>1. /\ Current("consent", p, intent.channel) = intent.consent /\ Current("consent", p, intent.channel) # None
        /\ Current("contact", p, intent.channel) = intent.contact /\ Current("contact", p, intent.channel) # None
    BY <1>1, <1>2, <1>5 DEF AssessIntent
  <2>2. intent.consent \in 1..(c - 1) /\ intent.contact \in 1..(c - 1)
    BY <1>3 DEF IntentHolds
  <2>3. d \in DOMAIN claims /\ ~(d <= intent.consent) /\ ~(d <= intent.contact)
    BY <1>4, <2>2
  <2> QED
    BY <1>5, <2>1, <2>3, CurrentIsLast
<1>6. ASSUME ~Parses(c) PROVE intent.consent \in Superseded
  BY <1>1, <1>2, <1>3, <1>4, <1>6 DEF Parses, FanClaims, IntentHolds, IsFanClaim, IsFanRow
<1> QED
  BY <1>1, <1>5, <1>6

(* An intent is offered for review only while nothing newer is known of how its       *)
(* person can be reached or whether they agreed, and is unreadable only once the     *)
(* very consent it was formed on was superseded.                                 *)
THEOREM IntentsAreLatest == Spec => []NothingNewerIsKnown
BY ClaimsStart, ClaimsStay, ClaimsReview, PTL DEF Spec

-----------------------------------------------------------------------------
(* Declaring and the chain of evidence                                       *)

\* A stage is supported when all that is held of it agrees and some of it counts.
LEMMA StageIs ==
  ASSUME NEW t, NEW stage
  PROVE  /\ StageStatus(t, stage) = "SUPPORTED" <=>
              /\ {claims[c].value : c \in ItemsOf(t, stage)} = {"SUPPORTS"}
              /\ \E c \in ItemsOf(t, stage) : Qualifies(stage, c)
         /\ StageStatus(t, stage)' = "SUPPORTED" <=>
              /\ {claims'[c].value : c \in ItemsOf(t, stage)'} = {"SUPPORTS"}
              /\ \E c \in ItemsOf(t, stage)' : Qualifies(stage, c)'
<1>1. Cardinality({"SUPPORTS"}) = 1
  BY FS_Singleton
<1>2. ASSUME NEW found, NEW assertions, NEW qualifying \in SUBSET found,
             found # {} => assertions # {},
             NEW status,
             status = CASE assertions = {}                                -> "UNKNOWN"
                        [] Cardinality(assertions) > 1                    -> "CONFLICT"
                        [] Cardinality(assertions) = 1 /\ qualifying = {} -> "UNVERIFIED"
                        [] assertions = {"SUPPORTS"} /\ qualifying # {}   -> "SUPPORTED"
                        [] OTHER                                          -> "CONTRADICTED"
      PROVE  status = "SUPPORTED" <=> assertions = {"SUPPORTS"} /\ qualifying # {}
  <2>1. CASE assertions = {"SUPPORTS"} /\ qualifying # {}
    <3>1. assertions # {} /\ ~(Cardinality(assertions) > 1)
      BY <1>1, <2>1
    <3> QED
      BY <1>2, <2>1, <3>1
  <2>2. CASE ~(assertions = {"SUPPORTS"} /\ qualifying # {})
    BY <1>2, <2>2
  <2> QED
    BY <2>1, <2>2
<1>3. StageStatus(t, stage) = "SUPPORTED" <=>
              /\ {claims[c].value : c \in ItemsOf(t, stage)} = {"SUPPORTS"}
              /\ \E c \in ItemsOf(t, stage) : Qualifies(stage, c)
  <2>1. PICK found, assertions, qualifying :
          /\ found = ItemsOf(t, stage) /\ assertions = {claims[c].value : c \in found}
          /\ qualifying = {c \in found : Qualifies(stage, c)}
    OBVIOUS
  <2>2. qualifying \in SUBSET found /\ (found # {} => assertions # {})
    BY <2>1
  <2>4. PICK status : status = StageStatus(t, stage)
    OBVIOUS
  <2>5. status =
           CASE assertions = {}                                -> "UNKNOWN"
             [] Cardinality(assertions) > 1                    -> "CONFLICT"
             [] Cardinality(assertions) = 1 /\ qualifying = {} -> "UNVERIFIED"
             [] assertions = {"SUPPORTS"} /\ qualifying # {}   -> "SUPPORTED"
             [] OTHER                                          -> "CONTRADICTED"
    BY <2>1, <2>4 DEF StageStatus
  <2>3. StageStatus(t, stage) = "SUPPORTED" <=> assertions = {"SUPPORTS"} /\ qualifying # {}
    BY <1>2, <2>2, <2>4, <2>5
  <2> QED
    BY <2>1, <2>3
<1>4. StageStatus(t, stage)' = "SUPPORTED" <=>
              /\ {claims'[c].value : c \in ItemsOf(t, stage)'} = {"SUPPORTS"}
              /\ \E c \in ItemsOf(t, stage)' : Qualifies(stage, c)'
  <2>1. PICK found, assertions, qualifying :
          /\ found = ItemsOf(t, stage)' /\ assertions = {claims'[c].value : c \in found}
          /\ qualifying = {c \in found : Qualifies(stage, c)'}
    OBVIOUS
  <2>2. qualifying \in SUBSET found /\ (found # {} => assertions # {})
    BY <2>1
  <2>4. PICK status : status = StageStatus(t, stage)'
    OBVIOUS
  <2>5. status =
           CASE assertions = {}                                -> "UNKNOWN"
             [] Cardinality(assertions) > 1                    -> "CONFLICT"
             [] Cardinality(assertions) = 1 /\ qualifying = {} -> "UNVERIFIED"
             [] assertions = {"SUPPORTS"} /\ qualifying # {}   -> "SUPPORTED"
             [] OTHER                                          -> "CONTRADICTED"
    BY <2>1, <2>4 DEF StageStatus
  <2>3. StageStatus(t, stage)' = "SUPPORTED" <=> assertions = {"SUPPORTS"} /\ qualifying # {}
    BY <1>2, <2>2, <2>4, <2>5
  <2> QED
    BY <2>1, <2>3
<1> QED
  BY <1>3, <1>4

\* What the artist declares replaces nothing a chain holds, and supports no stage.
LEMMA DeclaredSupports ==
  ASSUME IsTable(claims), NEW row, Recorded(row), row.source = "USER_DECLARED", UNCHANGED creditVars,
         NEW t, NEW stage \in {"COMMUNICATION_CONFIRMATION", "SIGNED_DOCUMENT", "PROVIDER_RECEIPT"},
         StageStatus(t, stage)' = "SUPPORTED"
  PROVE  StageStatus(t, stage) = "SUPPORTED"
<1>0. PICK n : n = Len(claims)
  OBVIOUS
<1>1. PICK scope, key : scope = <<"SONG", SongOfTarget(t)>> /\ key = EvidenceKey(t, stage)
  OBVIOUS
<1>2. /\ n \in Nat /\ DOMAIN claims = 1..n /\ claims'[n + 1] = row /\ DOMAIN claims' = 1..(n + 1)
      /\ \A x \in 1..n : claims'[x] = claims[x]
      /\ \A c \in DOMAIN claims' : c \in 1..n \/ c = n + 1
  BY <1>0, ClaimAppended DEF Recorded
<1>3. ItemsOf(t, stage) = {c \in 1..n \ Superseded : claims[c].scope = scope /\ claims[c].key = key}
  BY <1>1, <1>2 DEF ItemsOf, ActiveClaims
<1>4. ItemsOf(t, stage)' = {c \in 1..(n + 1) \ Superseded' : claims'[c].scope = scope /\ claims'[c].key = key}
  BY <1>1, <1>2 DEF ItemsOf, ActiveClaims, SongOfTarget, EvidenceKey, creditVars
<1>5. Superseded' = Superseded \cup row.replaces
  BY <1>2 DEF Superseded
<1>6. key[1] = "rights"
  BY <1>1 DEF EvidenceKey
<1>7. row.key = key => row.replaces = {}
  <2>1. row.key = key => RightsRow(row)
    BY <1>6 DEF Recorded, RowKind, PlainRow, TermsKey, FactKey, FanRow, ReferenceRow, JudgmentRow, IsReferenceKey
  <2> QED
    BY <2>1 DEF RightsRow
<1>8. \A c \in 1..n : claims[c].key = key => c \notin row.replaces
  BY <1>7 DEF Recorded, ActiveClaims
<1>9. \A c \in 1..n : c \in ItemsOf(t, stage) <=> c \in ItemsOf(t, stage)'
  BY <1>2, <1>3, <1>4, <1>5, <1>8
<1>10. \A c \in ItemsOf(t, stage)' : c \in 1..n \/ c = n + 1
  BY <1>2, <1>4
<1>11. ItemsOf(t, stage) \subseteq 1..n
  BY <1>3
<1>12. /\ {claims'[c].value : c \in ItemsOf(t, stage)'} = {"SUPPORTS"}
       /\ \E c \in ItemsOf(t, stage)' : Qualifies(stage, c)'
  BY StageIs
<1>13. ~Qualifies(stage, n + 1)'
  BY <1>2 DEF Qualifies
<1>14. \A c \in 1..n : Qualifies(stage, c)' <=> Qualifies(stage, c)
  BY <1>2 DEF Qualifies
<1>15. \E c \in ItemsOf(t, stage) : Qualifies(stage, c)
  BY <1>9, <1>10, <1>12, <1>13, <1>14
<1>16. {claims[c].value : c \in ItemsOf(t, stage)} = {"SUPPORTS"}
  <2>1. \A c \in ItemsOf(t, stage) : claims[c].value = "SUPPORTS"
    <3> SUFFICES ASSUME NEW c \in ItemsOf(t, stage) PROVE claims[c].value = "SUPPORTS"
      OBVIOUS
    <3>1. c \in ItemsOf(t, stage)' /\ claims'[c] = claims[c]
      BY <1>2, <1>9, <1>11
    <3>2. claims'[c].value \in {"SUPPORTS"}
      BY <1>12, <3>1
    <3> QED
      BY <3>1, <3>2
  <2> QED
    BY <1>15, <2>1
<1> QED
  BY <1>15, <1>16, StageIs

\* How far a chain reaches: up to the first stage that is not supported.
LEMMA ReachIs ==
  ASSUME NEW t
  PROVE  /\ Reach(t) \in 0..3
         /\ \A i \in 1..Reach(t) : StageStatus(t, Stages[i]) = "SUPPORTED"
         /\ Reach(t) < 3 => StageStatus(t, Stages[Reach(t) + 1]) # "SUPPORTED"
         /\ Reach(t)' \in 0..3
         /\ \A i \in 1..Reach(t)' : StageStatus(t, Stages[i])' = "SUPPORTED"
<1>1. Len(Stages) = 3
  BY DEF Stages
<1>2. ASSUME NEW S \in SUBSET (1..3)
      PROVE  \E m \in 0..3 : (\A i \in 1..m : i \in S) /\ (m < 3 => m + 1 \notin S)
  <2>1. CASE 1 \notin S
    BY <2>1
  <2>2. CASE 1 \in S /\ 2 \notin S
    BY <2>2
  <2>3. CASE 1 \in S /\ 2 \in S /\ 3 \notin S
    BY <2>3
  <2>4. CASE 1 \in S /\ 2 \in S /\ 3 \in S
    BY <2>4
  <2> QED
    BY <2>1, <2>2, <2>3, <2>4
<1>3. PICK S, T : /\ S = {i \in 1..3 : StageStatus(t, Stages[i]) = "SUPPORTED"}
                  /\ T = {i \in 1..3 : StageStatus(t, Stages[i])' = "SUPPORTED"}
  OBVIOUS
<1>4. /\ \A m \in 0..3 : \A i \in 1..m : i \in S <=> StageStatus(t, Stages[i]) = "SUPPORTED"
      /\ \A m \in 0..3 : m < 3 => (m + 1 \in S <=> StageStatus(t, Stages[m + 1]) = "SUPPORTED")
      /\ \A m \in 0..3 : \A i \in 1..m : i \in T <=> StageStatus(t, Stages[i])' = "SUPPORTED"
      /\ \A m \in 0..3 : m < 3 => (m + 1 \in T <=> StageStatus(t, Stages[m + 1])' = "SUPPORTED")
  BY <1>3
<1>5. \E m \in 0..Len(Stages) :
        /\ \A i \in 1..m : StageStatus(t, Stages[i]) = "SUPPORTED"
        /\ m < Len(Stages) => StageStatus(t, Stages[m + 1]) # "SUPPORTED"
  BY <1>1, <1>2, <1>3, <1>4
<1>6. \E m \in 0..Len(Stages) :
        /\ \A i \in 1..m : StageStatus(t, Stages[i])' = "SUPPORTED"
        /\ m < Len(Stages) => StageStatus(t, Stages[m + 1])' # "SUPPORTED"
  BY <1>1, <1>2, <1>3, <1>4
<1>7. /\ Reach(t) \in 0..Len(Stages)
      /\ \A i \in 1..Reach(t) : StageStatus(t, Stages[i]) = "SUPPORTED"
      /\ Reach(t) < Len(Stages) => StageStatus(t, Stages[Reach(t) + 1]) # "SUPPORTED"
  BY <1>5 DEF Reach
<1>8. /\ Reach(t)' \in 0..Len(Stages)
      /\ \A i \in 1..Reach(t)' : StageStatus(t, Stages[i])' = "SUPPORTED"
  BY <1>6 DEF Reach
<1> QED
  BY <1>1, <1>7, <1>8

LEMMA ClaimsAlone ==
  ASSUME [Next]_vars, claims' # claims
  PROVE  UNCHANGED creditVars
<1>1. CASE Next
  BY <1>1, Framed DEF CreditsStep
<1>2. CASE UNCHANGED vars
  BY <1>2 DEF vars, allVars, rights
<1> QED
  BY <1>1, <1>2

LEMMA DeclaringAdvancesNothing ==
  ASSUME IsTable(claims), [Next]_vars, Len(claims') > Len(claims),
         claims'[Len(claims')].source = "USER_DECLARED", NEW t
  PROVE  Reach(t)' <= Reach(t)
<1>1. PICK row : Recorded(row)
  BY ClaimsMove, TableIs
<1>2. row.source = "USER_DECLARED" /\ claims' # claims
  BY <1>1, ClaimAppended, TableIs DEF Recorded
<1>3. PICK r, q : r = Reach(t) /\ q = Reach(t)'
  OBVIOUS
<1>4. /\ r \in 0..3 /\ q \in 0..3 /\ \A i \in 1..q : StageStatus(t, Stages[i])' = "SUPPORTED"
      /\ r < 3 => StageStatus(t, Stages[r + 1]) # "SUPPORTED"
  BY <1>3, ReachIs
<1>5. ASSUME q > r PROVE FALSE
  <2>1. r + 1 \in 1..3 /\ r + 1 \in 1..q
    BY <1>4, <1>5
  <2>2. Stages[r + 1] \in {"COMMUNICATION_CONFIRMATION", "SIGNED_DOCUMENT", "PROVIDER_RECEIPT"}
    BY <2>1 DEF Stages
  <2>3. StageStatus(t, Stages[r + 1])' = "SUPPORTED" /\ StageStatus(t, Stages[r + 1]) # "SUPPORTED"
    BY <1>4, <1>5, <2>1
  <2> QED
    BY <1>1, <1>2, <2>2, <2>3, ClaimsAlone, DeclaredSupports
<1> QED
  BY <1>3, <1>4, <1>5

(* What the artist enters about a credit or a split never takes its chain of         *)
(* evidence further, whatever was observed or received before.                   *)
THEOREM DeclaringStays == Spec => DeclaringNeverAdvances
<1>1. Init => ClaimsInv
  BY ClaimsStart
<1>2. ClaimsInv /\ [Next]_vars => ClaimsInv'
  BY ClaimsStay
<1>3. ClaimsInv /\ [Next]_vars =>
        [(Len(claims') > Len(claims) /\ claims'[Len(claims')].source = "USER_DECLARED") =>
           \A t \in Targets : Reach(t)' <= Reach(t)]_allVars
  BY DeclaringAdvancesNothing DEF ClaimsInv
<1> QED
  BY <1>1, <1>2, <1>3, PTL DEF Spec, DeclaringNeverAdvances

-----------------------------------------------------------------------------
(* Forms: what was shown, and what a mark of it still tells                  *)

Sharing(row) == \E p \in Person : row.shares[p] > 0

\* A sheet somebody has a share of was saved.
SheetRow(row) ==
  /\ row.shares \in [Person -> Nat] /\ row.saved \in Nat /\ IsTable(row.said)
  /\ Sharing(row) => row.saved > 0

MarkOf(row) == IF Sharing(row) THEN row.saved ELSE 0

\* What a sheet may have become since a page showed it.
SheetSince(then, now) ==
  /\ then.saved <= now.saved
  /\ Sharing(then) /\ Sharing(now) /\ then.saved = now.saved => then.shares = now.shares
  /\ Len(then.said) <= Len(now.said) /\ \A i \in DOMAIN then.said : now.said[i] = then.said[i]

\* What one step makes of a sheet.
SheetMoves(row, next) ==
  /\ \/ next.shares = row.shares /\ next.saved = row.saved
     \/ Sharing(next) /\ next.saved = row.saved + 1
     \/ ~Sharing(next) /\ next.saved = row.saved
  /\ next.said = row.said \/ \E word : next.said = Append(row.said, word)

\* A form of a sheet carries the marks of what its page showed.
FormHolds(f, rows) ==
  f.sheet # 0 =>
    /\ f.sheet \in DOMAIN rows /\ SheetRow(f.seen) /\ SheetSince(f.seen, rows[f.sheet])
    /\ f.kind \in {"SAVE", "SUBMIT", "VOID"} => f.marks[1] = MarkOf(f.seen)
    /\ f.kind \in {"CONFIRM", "VOID"} => f.marks[3] = Len(f.seen.said)

FormsInv ==
  /\ \A k \in DOMAIN sheets : SheetRow(sheets[k])
  /\ \A f \in offered : FormHolds(f, sheets)

LEMMA TablesEqual ==
  ASSUME NEW t, NEW u, IsTable(t), IsTable(u), Len(t) = Len(u), \A i \in DOMAIN t : t[i] = u[i]
  PROVE  t = u
<1>1. t \in [1..Len(t) -> Range(t)] /\ u \in [1..Len(u) -> Range(u)]
  BY LenProperties DEF IsTable
<1>2. t = [i \in 1..Len(t) |-> t[i]] /\ u = [i \in 1..Len(t) |-> u[i]]
  BY <1>1
<1> QED
  BY <1>1, <1>2

LEMMA SinceMoves ==
  ASSUME NEW then, NEW row, NEW next, SheetRow(then), SheetRow(row), SheetRow(next),
         SheetSince(then, row), SheetMoves(row, next)
  PROVE  SheetSince(then, next)
<1>1. /\ then.saved <= next.saved
      /\ Sharing(then) /\ Sharing(next) /\ then.saved = next.saved => then.shares = next.shares
  <2>1. CASE next.shares = row.shares /\ next.saved = row.saved
    BY <2>1 DEF SheetSince, Sharing
  <2>2. CASE Sharing(next) /\ next.saved = row.saved + 1
    BY <2>2 DEF SheetSince, SheetRow
  <2>3. CASE ~Sharing(next) /\ next.saved = row.saved
    BY <2>3 DEF SheetSince
  <2> QED
    BY <2>1, <2>2, <2>3 DEF SheetMoves
<1>2. /\ Len(then.said) <= Len(next.said)
      /\ \A i \in DOMAIN then.said : next.said[i] = then.said[i]
  <2>1. CASE next.said = row.said
    BY <2>1 DEF SheetSince
  <2>2. ASSUME NEW word, next.said = Append(row.said, word)
        PROVE  /\ Len(then.said) <= Len(next.said)
               /\ \A i \in DOMAIN then.said : next.said[i] = then.said[i]
    <3>1. /\ Len(next.said) = Len(row.said) + 1
          /\ \A i \in DOMAIN row.said : next.said[i] = row.said[i]
      BY <2>2, RowAppended DEF SheetRow
    <3>2. /\ Len(then.said) \in Nat /\ DOMAIN then.said = 1..Len(then.said)
          /\ Len(row.said) \in Nat /\ DOMAIN row.said = 1..Len(row.said)
      BY TableIs DEF SheetRow
    <3>3. Len(then.said) <= Len(row.said) /\ \A i \in DOMAIN then.said : row.said[i] = then.said[i]
      BY DEF SheetSince
    <3>4. \A i \in DOMAIN then.said : i \in DOMAIN row.said
      BY <3>2, <3>3
    <3> QED
      BY <3>1, <3>2, <3>3, <3>4
  <2> QED
    BY <2>1, <2>2 DEF SheetMoves
<1> QED
  BY <1>1, <1>2 DEF SheetSince

RowMoves(k, row) ==
  /\ k \in DOMAIN sheets /\ sheets' = [sheets EXCEPT ![k] = row]
  /\ SheetMoves(sheets[k], row) /\ SheetRow(row)

LEMMA VoidMoves ==
  ASSUME SheetsInv, FormsInv, NEW k, VoidSplit(k)
  PROVE  \E row : RowMoves(k, row)
<1>1. PICK row : row = [sheets[k] EXCEPT !.state = "VOIDED"]
  OBVIOUS
<1>2. k \in DOMAIN sheets /\ sheets' = [sheets EXCEPT ![k] = row]
  BY <1>1 DEF VoidSplit
<1>3. row.shares = sheets[k].shares /\ row.saved = sheets[k].saved /\ row.said = sheets[k].said
  BY <1>1, <1>2 DEF SheetsInv
<1>4. SheetRow(sheets[k])
  BY <1>2 DEF FormsInv
<1> QED
  BY <1>2, <1>3, <1>4 DEF RowMoves, SheetMoves, SheetRow, Sharing

LEMMA CallMoves ==
  ASSUME SheetsInv, FormsInv, NEW f \in offered, NEW typed \in TypedIn(f), Call(f, typed[1], typed[2])
  PROVE  \/ sheets' = sheets
         \/ \E s : sheets' = Append(sheets, [song |-> s, state |-> "DRAFT", saved |-> 0, said |-> <<>>,
                                             shares |-> [p \in Person |-> 0]])
         \/ \E k, row : RowMoves(k, row)
<1>0. PICK k, shares, status : k = f.sheet /\ shares = typed[1] /\ status = typed[2]
  OBVIOUS
<1>1. CASE f.kind = "CREDIT"
  BY <1>1 DEF Call, RecordCredit
<1>2. CASE f.kind = "CREATE"
  <2>1. CreateSplitDraft(f.song)
    BY <1>2 DEF Call
  <2> QED
    BY <2>1 DEF CreateSplitDraft
<1>3. CASE f.kind = "SAVE"
  <2>1. PICK saved : saved = IF \E p \in Person : shares[p] > 0 THEN sheets[k].saved + 1 ELSE sheets[k].saved
    OBVIOUS
  <2>2. PICK row : row = [sheets[k] EXCEPT !.shares = shares, !.saved = saved]
    OBVIOUS
  <2>3. SetDraftAllocations(k, shares)
    BY <1>0, <1>3 DEF Call
  <2>4. k \in DOMAIN sheets /\ sheets' = [sheets EXCEPT ![k] = row]
    BY <2>1, <2>2, <2>3 DEF SetDraftAllocations
  <2>5. row.shares = shares /\ row.saved = saved /\ row.said = sheets[k].said
    BY <2>2, <2>4 DEF SheetsInv
  <2>6. shares \in [Person -> Nat]
    <3>1. typed \in [Person -> {0} \cup Share] \X {None}
      BY <1>3 DEF TypedIn
    <3>2. shares \in [Person -> {0} \cup Share] /\ {0} \cup Share \subseteq Nat
      BY <1>0, <3>1, ShareAssumption
    <3> QED
      BY <3>2
  <2>7. SheetRow(sheets[k])
    BY <2>4 DEF FormsInv
  <2>8. /\ saved \in Nat /\ (Sharing(row) => saved = sheets[k].saved + 1 /\ saved > 0)
        /\ (~Sharing(row) => saved = sheets[k].saved)
    BY <2>1, <2>5, <2>7 DEF Sharing, SheetRow
  <2> QED
    BY <2>4, <2>5, <2>6, <2>7, <2>8 DEF RowMoves, SheetMoves, SheetRow
<1>4. CASE f.kind = "SUBMIT"
  <2>1. PICK row : row = [sheets[k] EXCEPT !.state = "OPEN_CONFIRMATION"]
    OBVIOUS
  <2>2. SubmitSplit(k)
    BY <1>0, <1>4 DEF Call
  <2>3. k \in DOMAIN sheets /\ sheets' = [sheets EXCEPT ![k] = row]
    BY <2>1, <2>2 DEF SubmitSplit
  <2>4. row.shares = sheets[k].shares /\ row.saved = sheets[k].saved /\ row.said = sheets[k].said
    BY <2>1, <2>3 DEF SheetsInv
  <2>5. SheetRow(sheets[k])
    BY <2>3 DEF FormsInv
  <2> QED
    BY <2>3, <2>4, <2>5 DEF RowMoves, SheetMoves, SheetRow, Sharing
<1>5. CASE f.kind = "CONFIRM"
  <2>1. PICK word, said : word = [person |-> f.person, status |-> status] /\ said = Append(sheets[k].said, word)
    OBVIOUS
  <2>2. PICK row : row = [sheets[k] EXCEPT !.said = said]
    OBVIOUS
  <2>3. RecordConfirmation(k, f.person, status)
    BY <1>0, <1>5 DEF Call
  <2>4. k \in DOMAIN sheets /\ sheets' = [sheets EXCEPT ![k] = row]
    BY <2>1, <2>2, <2>3 DEF RecordConfirmation
  <2>5. row.shares = sheets[k].shares /\ row.saved = sheets[k].saved /\ row.said = said
    BY <2>2, <2>4 DEF SheetsInv
  <2>6. SheetRow(sheets[k])
    BY <2>4 DEF FormsInv
  <2>7. IsTable(said)
    BY <2>1, <2>6, RowAppended DEF SheetRow
  <2> QED
    BY <2>1, <2>4, <2>5, <2>6, <2>7 DEF RowMoves, SheetMoves, SheetRow, Sharing
<1>6. CASE f.kind = "VOID"
  BY <1>6, VoidMoves DEF Call
<1> QED
  BY <1>1, <1>2, <1>3, <1>4, <1>5, <1>6 DEF SheetsInv

\* Every sheet moves on, and a form that is new was just shown.
LEMMA SheetsAdvance ==
  ASSUME TablesInv, SheetsInv, FormsInv, CreditsStep \/ UNCHANGED creditVars
  PROVE  /\ DOMAIN sheets \subseteq DOMAIN sheets'
         /\ \A k \in DOMAIN sheets : SheetMoves(sheets[k], sheets'[k])
         /\ \A k \in DOMAIN sheets' : SheetRow(sheets'[k])
         /\ \A f \in offered' : f \in offered \/ (f \in CreditsPage(active) /\ sheets' = sheets)
<1> DEFINE Draft(s) == [song |-> s, state |-> "DRAFT", saved |-> 0, said |-> <<>>, shares |-> [p \in Person |-> 0]]
           Advanced == /\ DOMAIN sheets \subseteq DOMAIN sheets'
                       /\ \A k \in DOMAIN sheets : SheetMoves(sheets[k], sheets'[k])
                       /\ \A k \in DOMAIN sheets' : SheetRow(sheets'[k])
<1>0. IsTable(sheets) /\ \A k \in DOMAIN sheets : SheetRow(sheets[k])
  BY DEF TablesInv, FormsInv
<1>1. ASSUME sheets' = sheets PROVE Advanced
  BY <1>0, <1>1 DEF SheetMoves
<1>2. ASSUME NEW s, sheets' = Append(sheets, Draft(s)) PROVE Advanced
  <2>1. PICK row : row = Draft(s)
    OBVIOUS
  <2>2. SheetRow(row)
    <3>1. row.shares = [p \in Person |-> 0] /\ row.saved = 0 /\ row.said = <<>>
      BY <2>1
    <3> QED
      BY <3>1, EmptyTable DEF SheetRow, Sharing
  <2>3. /\ DOMAIN sheets \subseteq DOMAIN sheets'
        /\ \A k \in DOMAIN sheets : sheets'[k] = sheets[k]
        /\ \A k \in DOMAIN sheets' : k \in DOMAIN sheets \/ sheets'[k] = row
    BY <1>0, <1>2, <2>1, RowAppended, TableIs
  <2> QED
    BY <1>0, <2>2, <2>3 DEF SheetMoves
<1>3. ASSUME NEW k, NEW row, RowMoves(k, row) PROVE Advanced
  <2>1. /\ DOMAIN sheets' = DOMAIN sheets /\ sheets'[k] = row
        /\ \A j \in DOMAIN sheets : j # k => sheets'[j] = sheets[j]
    BY <1>0, <1>3, RowChanged DEF RowMoves
  <2>2. SheetMoves(sheets[k], row) /\ SheetRow(row)
    BY <1>3 DEF RowMoves
  <2>3. \A j \in DOMAIN sheets : SheetMoves(sheets[j], sheets[j])
    BY DEF SheetMoves
  <2> QED
    BY <1>0, <2>1, <2>2, <2>3
<1> HIDE DEF Advanced
<1>4. ASSUME NEW s, NEW p, RecordCredit(s, p), UNCHANGED offered PROVE Advanced /\ offered' = offered
  BY <1>1, <1>4 DEF RecordCredit
<1>5. ASSUME NEW k, VoidSplit(k), UNCHANGED offered PROVE Advanced /\ offered' = offered
  BY <1>3, <1>5, VoidMoves
<1>6. ASSUME NEW f, Offer(f)
      PROVE  Advanced /\ sheets' = sheets /\ \A g \in offered' : g \in offered \/ g \in CreditsPage(active)
  BY <1>1, <1>6 DEF Offer
<1>7. ASSUME NEW f, NEW typed \in TypedIn(f), Send(f, typed[1], typed[2]) PROVE Advanced /\ offered' \subseteq offered
  <2>1. f \in offered /\ offered' \subseteq offered /\ (Call(f, typed[1], typed[2]) \/ sheets' = sheets)
    BY <1>7 DEF Send
  <2> HIDE DEF Draft
  <2>2. Call(f, typed[1], typed[2]) =>
          sheets' = sheets \/ (\E s : sheets' = Append(sheets, Draft(s))) \/ \E k, row : RowMoves(k, row)
    BY <1>7, <2>1, CallMoves DEF Draft
  <2> QED
    BY <1>1, <1>2, <1>3, <2>1, <2>2
<1>8. CASE UNCHANGED creditVars
  <2>1. Advanced /\ offered' = offered
    BY <1>1, <1>8 DEF creditVars
  <2> QED
    BY <2>1 DEF Advanced
<1>9. CASE CreditsStep
  <2>1. CASE \E s \in Song, p \in Person : RecordCredit(s, p) /\ UNCHANGED offered
    BY <2>1, <1>4 DEF Advanced
  <2>2. CASE \E k \in DOMAIN sheets : VoidSplit(k) /\ UNCHANGED offered
    BY <2>2, <1>5 DEF Advanced
  <2>3. CASE \E f \in CreditsPage(active) : Offer(f)
    BY <2>3, <1>6 DEF Advanced
  <2>4. CASE \E f \in offered : \E typed \in TypedIn(f) : Send(f, typed[1], typed[2])
    BY <2>4, <1>7 DEF Advanced
  <2> QED
    BY <1>9, <2>1, <2>2, <2>3, <2>4 DEF CreditsStep
<1> QED
  BY <1>8, <1>9

\* A form of a page carries what the page shows.
LEMMA PageHolds ==
  ASSUME SheetsInv, FormsInv, NEW s, NEW f \in CreditsPage(s)
  PROVE  FormHolds(f, sheets)
<1>1. PICK kind, k, p : f = FormFor(kind, s, k, p) /\ (k = 0 \/ k \in DOMAIN sheets)
  BY DEF CreditsPage, SheetForms, ActiveSheets, SheetsOf
<1>2. PICK seen, marks : marks = Marks(kind, k) /\ seen = IF k = 0 THEN None ELSE sheets[k]
  OBVIOUS
<1>3. f.kind = kind /\ f.sheet = k /\ f.marks = marks /\ f.seen = seen
  BY <1>1, <1>2 DEF FormFor
<1>4. ASSUME k # 0 PROVE FormHolds(f, sheets)
  <2>1. k \in DOMAIN sheets /\ seen = sheets[k] /\ SheetRow(seen)
    BY <1>1, <1>2, <1>4 DEF FormsInv
  <2>2. SheetSince(seen, seen)
    BY <2>1, TableIs DEF SheetSince, SheetRow
  <2>3. AllocationMark(k) = MarkOf(seen) /\ ConfirmationMark(k) = Len(seen.said)
    BY <2>1 DEF AllocationMark, ConfirmationMark, MarkOf, Participants, Sharing
  <2>4. kind \in {"SAVE", "SUBMIT", "VOID"} => marks[1] = MarkOf(seen)
    BY <1>2, <2>3 DEF Marks
  <2>5. kind \in {"CONFIRM", "VOID"} => marks[3] = Len(seen.said)
    BY <1>2, <2>3 DEF Marks
  <2> QED
    BY <1>3, <2>1, <2>2, <2>4, <2>5 DEF FormHolds
<1> QED
  BY <1>3, <1>4 DEF FormHolds

LEMMA FormsStart == Init => FormsInv
BY EmptyTable DEF Init, CreditsInit, FormsInv

LEMMA FormsStay == TablesInv /\ SheetsInv /\ FormsInv /\ [Next]_vars => FormsInv'
<1> SUFFICES ASSUME TablesInv, SheetsInv, FormsInv, [Next]_vars PROVE FormsInv'
  OBVIOUS
<1>1. CreditsStep \/ UNCHANGED creditVars
  BY Framed DEF vars, allVars, rights
<1>2. /\ DOMAIN sheets \subseteq DOMAIN sheets'
      /\ \A k \in DOMAIN sheets : SheetMoves(sheets[k], sheets'[k])
      /\ \A k \in DOMAIN sheets' : SheetRow(sheets'[k])
      /\ \A f \in offered' : f \in offered \/ (f \in CreditsPage(active) /\ sheets' = sheets)
  BY <1>1, SheetsAdvance
<1>3. ASSUME NEW f \in offered PROVE FormHolds(f, sheets')
  <2>1. FormHolds(f, sheets)
    BY DEF FormsInv
  <2>2. ASSUME f.sheet # 0 PROVE SheetSince(f.seen, sheets'[f.sheet])
    <3>1. f.sheet \in DOMAIN sheets /\ SheetRow(f.seen) /\ SheetSince(f.seen, sheets[f.sheet])
      BY <2>1, <2>2 DEF FormHolds
    <3>2. SheetRow(sheets[f.sheet]) /\ SheetRow(sheets'[f.sheet]) /\ SheetMoves(sheets[f.sheet], sheets'[f.sheet])
      BY <1>2, <3>1 DEF FormsInv
    <3> QED
      BY <3>1, <3>2, SinceMoves
  <2> QED
    BY <1>2, <2>1, <2>2 DEF FormHolds
<1>4. ASSUME NEW f \in offered' PROVE FormHolds(f, sheets')
  <2>1. CASE f \in offered
    BY <1>3, <2>1
  <2>2. CASE f \in CreditsPage(active) /\ sheets' = sheets
    BY <2>2, PageHolds
  <2> QED
    BY <1>2, <2>1, <2>2
<1> QED
  BY <1>2, <1>4 DEF FormsInv

\* A form of a sheet that changed it had shown what its kind is about.
LEMMA SheetShown ==
  ASSUME FormsInv, [Next]_vars, NEW f \in offered, f \notin offered', f.sheet # 0,
         sheets'[f.sheet] # sheets[f.sheet]
  PROVE  /\ f.kind \in {"SAVE", "SUBMIT", "VOID"} => f.seen.shares = sheets[f.sheet].shares
         /\ f.kind \in {"CONFIRM", "VOID"} => f.seen.said = sheets[f.sheet].said
<1>1. FormStands(f)
  <2>1. CreditsStep
    BY Framed DEF creditVars
  <2>2. ~(\E s \in Song, p \in Person : RecordCredit(s, p) /\ UNCHANGED offered)
        /\ ~(\E k \in DOMAIN sheets : VoidSplit(k) /\ UNCHANGED offered)
        /\ ~(\E g \in CreditsPage(active) : Offer(g))
    BY DEF Offer
  <2>3. PICK g, typed : g \in offered /\ Send(g, typed[1], typed[2])
    BY <2>1, <2>2 DEF CreditsStep
  <2>4. f = g
    BY <2>3 DEF Send
  <2> QED
    BY <2>3, <2>4 DEF Send
<1>2. PICK now, then, k, marks : now = sheets[f.sheet] /\ then = f.seen /\ k = f.sheet /\ marks = f.marks
  OBVIOUS
<1>3. /\ SheetRow(then) /\ SheetRow(now) /\ SheetSince(then, now)
      /\ f.kind \in {"SAVE", "SUBMIT", "VOID"} => marks[1] = MarkOf(then)
      /\ f.kind \in {"CONFIRM", "VOID"} => marks[3] = Len(then.said)
  BY <1>2 DEF FormsInv, FormHolds
<1>4. AllocationMark(k) = MarkOf(now) /\ ConfirmationMark(k) = Len(now.said)
  BY <1>2 DEF AllocationMark, ConfirmationMark, MarkOf, Participants, Sharing
<1>5. /\ f.kind \in {"SAVE", "SUBMIT", "VOID"} => marks[1] = AllocationMark(k)
      /\ f.kind \in {"CONFIRM", "VOID"} => marks[3] = ConfirmationMark(k)
  BY <1>1, <1>2 DEF FormStands, Marks
<1>6. ASSUME MarkOf(then) = MarkOf(now) PROVE then.shares = now.shares
  <2>1. CASE Sharing(then) /\ Sharing(now)
    BY <1>3, <1>6, <2>1 DEF MarkOf, SheetSince
  <2>2. CASE ~Sharing(then) /\ ~Sharing(now)
    <3>1. \A p \in Person : then.shares[p] = 0 /\ now.shares[p] = 0
      BY <1>3, <2>2 DEF SheetRow, Sharing
    <3> QED
      BY <1>3, <3>1 DEF SheetRow
  <2>3. Sharing(then) <=> Sharing(now)
    BY <1>3, <1>6 DEF MarkOf, SheetRow
  <2> QED
    BY <2>1, <2>2, <2>3
<1>7. ASSUME Len(then.said) = Len(now.said) PROVE then.said = now.said
  <2>1. \A i \in DOMAIN then.said : then.said[i] = now.said[i]
    BY <1>3 DEF SheetSince
  <2> QED
    BY <1>3, <1>7, <2>1, TablesEqual DEF SheetRow
<1> QED
  BY <1>2, <1>3, <1>4, <1>5, <1>6, <1>7

LEMMA LearningShown ==
  ASSUME [Next]_vars, NEW b \in bound, b \notin bound'
  PROVE  /\ b.kind = "decide" /\ episodes'[b.on] # episodes[b.on] => b.seen = episodes[b.on].observed
         /\ b.kind = "correct" /\ skills'[b.on] # skills[b.on] => b.seen = Latest(b.on)
<1>1. LearningStep
  BY Framed
<1>2. PICK c, level : c \in bound /\ SendLearning(c, level)
  BY <1>1 DEF LearningStep, ShowLearning
<1>3. b = c
  BY <1>2 DEF SendLearning
<1> QED
  BY <1>2, <1>3 DEF SendLearning, DecideBound, Correct

LEMMA CareerShown ==
  ASSUME [Next]_vars, NEW shown \in reviewed, shown \notin reviewed', seasons' # seasons
  PROVE  shown = Len(seasons)
<1>1. CareerStep
  BY Framed
<1>2. PICK was, state : was \in reviewed /\ SendCareerState(was, state)
  BY <1>1 DEF CareerStep, ShowCareerState
<1>3. shown = was
  BY <1>2 DEF SendCareerState
<1> QED
  BY <1>2, <1>3 DEF SendCareerState, RecordState, CurrentState

LEMMA TemplateShown ==
  ASSUME IsTable(selections), [Next]_vars, NEW f \in starts, f \notin starts', f.kind = "select",
         selections' # selections
  PROVE  f.song = active /\ CurrentSelection(f.song)' = f.template
<1>1. TemplateStep
  BY Framed DEF catalogVars
<1>2. PICK g, meaning : g \in starts /\ SendTemplate(g, meaning)
  BY <1>1 DEF TemplateStep, ShowTemplates
<1>3. f = g
  BY <1>2 DEF SendTemplate
<1>4. active = f.song /\ SelectForSong(f.song, f.template)
  BY <1>2, <1>3 DEF SendTemplate
<1>5. PICK n, s, row : n = Len(selections) + 1 /\ s = f.song /\ row = [song |-> f.song, template |-> f.template]
  OBVIOUS
<1>6. selections' = Append(selections, row) /\ row.song = s /\ row.template = f.template
  BY <1>4, <1>5 DEF SelectForSong
<1>7. n \in Nat /\ DOMAIN selections' = 1..n /\ selections'[n] = row /\ n \in 1..n
  BY <1>5, <1>6, RowAppended, TableIs
<1>8. PICK mine : mine = {i \in DOMAIN selections' : selections'[i].song = s}
  OBVIOUS
<1>9. n \in mine /\ mine \in SUBSET (1..n)
  BY <1>6, <1>7, <1>8
<1>10. Greatest(mine) = n
  <2>1. PICK last : last = Greatest(mine)
    OBVIOUS
  <2>2. last \in mine /\ n <= last
    BY <1>7, <1>9, <2>1, GreatestIs
  <2>3. last \in 1..n
    BY <1>9, <2>2, Zenon
  <2>4. last \in Nat /\ last <= n
    BY <1>7, <2>3
  <2> QED
    BY <1>7, <2>1, <2>2, <2>4
<1>11. CurrentSelection(s)' = selections'[Greatest(mine)].template
  BY <1>8, <1>9 DEF CurrentSelection, Greatest
<1> QED
  BY <1>4, <1>5, <1>6, <1>7, <1>10, <1>11

LEMMA FrictionShown ==
  ASSUME [Next]_vars, NEW b \in captures, b \notin captures', frictions' # frictions
  PROVE  b.song = active
<1>1. FrictionStep
  BY Framed
<1>2. PICK c, key : c \in captures /\ SendFriction(c, key)
  BY <1>1 DEF FrictionStep, ShowFriction
<1>3. b = c
  BY <1>2 DEF SendFriction
<1> QED
  BY <1>2, <1>3 DEF SendFriction, RecordBound

LEMMA PlanShown ==
  ASSUME IsTable(claims), [Next]_vars, NEW f \in plans, f \notin plans', claims' # claims
  PROVE  claims'[Len(claims')].value = f.intent /\ OptedIn(f.person, f.intent.channel)
<1>1. FanStep
  BY Framed
<1>2. PICK g \in plans : SendPlan(g)
  BY <1>1 DEF FanStep, ShowAudience
<1>3. f = g
  BY <1>2 DEF SendPlan
<1>4. PICK p, intent : p = f.person /\ intent = f.intent
  OBVIOUS
<1>5. PlanStands(f) /\ RecordContactIntent(p, active, intent.channel, intent.purpose)
  BY <1>2, <1>3, <1>4 DEF SendPlan
<1>6. Intent(p, active, intent.channel, intent.purpose) = intent /\ OptedIn(p, intent.channel)
  BY <1>4, <1>5 DEF PlanStands
<1>7. RecordFan("intent", p, "USER_DECLARED", intent)
  BY <1>5, <1>6 DEF RecordContactIntent
<1>8. PICK key, ref, none : key = FanKey("intent", p) /\ none = {} /\ ref = ("USER_DECLARED" # "USER_DECLARED")
  OBVIOUS
<1>9. Claim(Artist, key, "USER_DECLARED", ref, intent, none)
  BY <1>7, <1>8 DEF RecordFan, RecordClaim
<1>10. PICK row : row = RowOf(Artist, key, "USER_DECLARED", ref, intent, none)
  OBVIOUS
<1>11. row.value = intent /\ claims' = Append(claims, row)
  BY <1>9, <1>10, RowIs
<1>12. claims'[Len(claims')] = row
  BY <1>11, ClaimAppended
<1> QED
  BY <1>4, <1>6, <1>11, <1>12

LEMMA SelectionsStay ==
  ASSUME IsTable(selections), [Next]_vars
  PROVE  IsTable(selections')
<1>1. \/ selections' = selections
      \/ \E row : selections' = Append(selections, row)
  <2>1. CASE TemplateStep
    BY <2>1 DEF TemplateStep, SaveTemplate, ShowTemplates, SendTemplate, CreateTemplate, InitializeSchema, SelectForSong
  <2> QED
    BY <2>1, Framed DEF catalogVars
<1>2. ASSUME NEW row, selections' = Append(selections, row) PROVE IsTable(selections')
  BY <1>2, RowAppended
<1> QED
  BY <1>1, <1>2

(* A form changes only what it showed, whatever was done on other pages since: a      *)
(* split with the shares and the words it showed, a decision on the observations, a  *)
(* season and a correction over the one that was shown, a start for its own Song,    *)
(* and an intent that rests on the consent of the page.                          *)
THEOREM PagesActAsShown == Spec => ActedOnAsShown
<1> DEFINE IInv == TablesInv /\ SheetsInv /\ FormsInv /\ IsTable(claims) /\ IsTable(selections)
<1>1. Init => IInv
  <2>1. Init => selections = <<>>
    BY DEF Init, CatalogInit
  <2> QED
    BY <2>1, TablesStart, FormsStart, ClaimsStart, EmptyTable DEF ClaimsInv
<1>2. IInv /\ [Next]_vars => IInv'
  BY TablesStay, FormsStay, ClaimsStayTable, SelectionsStay
<1>3. IInv /\ [Next]_vars =>
        [/\ \A f \in offered : f \notin offered' /\ f.sheet # 0 =>
             LET now == sheets[f.sheet] IN
             sheets'[f.sheet] # now =>
               /\ f.kind \in {"SAVE", "SUBMIT", "VOID"} => f.seen.shares = now.shares
               /\ f.kind \in {"CONFIRM", "VOID"} => f.seen.said = now.said
         /\ \A b \in bound : b \notin bound' =>
             /\ b.kind = "decide" /\ episodes'[b.on] # episodes[b.on] => b.seen = episodes[b.on].observed
             /\ b.kind = "correct" /\ skills'[b.on] # skills[b.on] => b.seen = Latest(b.on)
         /\ \A shown \in reviewed : shown \notin reviewed' /\ seasons' # seasons => shown = Len(seasons)
         /\ \A f \in starts : f \notin starts' /\ f.kind = "select" /\ selections' # selections =>
             f.song = active /\ CurrentSelection(f.song)' = f.template
         /\ \A b \in captures : b \notin captures' /\ frictions' # frictions => b.song = active
         /\ \A f \in plans : f \notin plans' /\ claims' # claims =>
             claims'[Len(claims')].value = f.intent /\ OptedIn(f.person, f.intent.channel)]_allVars
  BY SheetShown, LearningShown, CareerShown, TemplateShown, FrictionShown, PlanShown
<1> QED
  BY <1>1, <1>2, <1>3, PTL DEF Spec, ActedOnAsShown

-----------------------------------------------------------------------------
(* Counting: rows in a state, lines of a type                                *)

LEMMA RowsTyped ==
  ASSUME NEW t, IsTable(t), NEW S, \A i \in DOMAIN t : t[i] \in S
  PROVE  t \in Seq(S)
<1>1. Len(t) \in Nat /\ DOMAIN t = 1..Len(t)
  BY TableIs
<1>2. t \in [1..Len(t) -> Range(t)]
  BY LenProperties DEF IsTable
<1>3. t \in [1..Len(t) -> S]
  BY <1>1, <1>2
<1> QED
  BY <1>1, <1>3, SeqDef

\* A part of the ids of a table is finite.
LEMMA SomeRows ==
  ASSUME NEW t, IsTable(t), NEW A \in SUBSET DOMAIN t
  PROVE  IsFiniteSet(A) /\ Cardinality(A) \in Nat
<1>1. Len(t) \in Nat /\ A \subseteq 1..Len(t)
  BY TableIs
<1>2. IsFiniteSet(1..Len(t))
  BY <1>1, FS_Interval
<1> QED
  BY <1>1, <1>2, FS_Subset, FS_CardinalityType

LEMMA OneMore ==
  ASSUME NEW A, IsFiniteSet(A), NEW x, x \notin A
  PROVE  /\ IsFiniteSet(A \cup {x}) /\ Cardinality(A) \in Nat
         /\ Cardinality(A \cup {x}) = Cardinality(A) + 1
BY FS_AddElement, FS_CardinalityType

LEMMA OneLess ==
  ASSUME NEW A, IsFiniteSet(A), NEW x \in A
  PROVE  /\ IsFiniteSet(A \ {x}) /\ Cardinality(A) \in Nat
         /\ Cardinality(A \ {x}) = Cardinality(A) - 1
BY FS_RemoveElement, FS_CardinalityType

LEMMA AtMostOne ==
  ASSUME NEW A, \A x, y \in A : x = y
  PROVE  Cardinality(A) <= 1
<1>1. CASE A = {}
  BY <1>1, FS_EmptySet
<1>2. ASSUME NEW x \in A PROVE Cardinality(A) <= 1
  <2>1. A = {x}
    OBVIOUS
  <2> QED
    BY <2>1, FS_Singleton
<1> QED
  BY <1>1, <1>2

LEMMA InStateAppended ==
  ASSUME NEW t, IsTable(t), NEW row, NEW st
  PROVE  /\ InState(t, st) \in Nat
         /\ InState(Append(t, row), st) = IF row.state = st THEN InState(t, st) + 1 ELSE InState(t, st)
<1>1. PICK A, B, u : A = {i \in DOMAIN t : t[i].state = st} /\ u = Append(t, row) /\ B = {i \in DOMAIN u : u[i].state = st}
  OBVIOUS
<1>2. /\ Len(t) \in Nat /\ DOMAIN t = 1..Len(t) /\ DOMAIN u = 1..(Len(t) + 1)
      /\ \A i \in DOMAIN t : u[i] = t[i]
      /\ u[Len(t) + 1] = row
  BY <1>1, RowAppended, TableIs
<1>3. B = IF row.state = st THEN A \cup {Len(t) + 1} ELSE A
  BY <1>1, <1>2
<1>4. IsFiniteSet(A) /\ Cardinality(A) \in Nat
  BY <1>1, SomeRows
<1>5. Len(t) + 1 \notin A
  BY <1>1, <1>2
<1>6. Cardinality(B) = IF row.state = st THEN Cardinality(A) + 1 ELSE Cardinality(A)
  BY <1>3, <1>4, <1>5, OneMore
<1> QED
  BY <1>1, <1>4, <1>6 DEF InState

LEMMA InStateChanged ==
  ASSUME NEW t, IsTable(t), NEW i \in DOMAIN t, NEW row, NEW st
  PROVE  /\ InState(t, st) \in Nat
         /\ InState([t EXCEPT ![i] = row], st) =
              IF row.state = st
                THEN IF t[i].state = st THEN InState(t, st) ELSE InState(t, st) + 1
                ELSE IF t[i].state = st THEN InState(t, st) - 1 ELSE InState(t, st)
<1>1. PICK A, B, u : A = {j \in DOMAIN t : t[j].state = st} /\ u = [t EXCEPT ![i] = row]
                     /\ B = {j \in DOMAIN u : u[j].state = st}
  OBVIOUS
<1>2. DOMAIN u = DOMAIN t /\ u[i] = row /\ \A j \in DOMAIN t : j # i => u[j] = t[j]
  BY <1>1, RowChanged
<1>3. IsFiniteSet(A) /\ Cardinality(A) \in Nat
  BY <1>1, SomeRows
<1>4. i \in A <=> t[i].state = st
  BY <1>1
<1>5. B = IF row.state = st THEN A \cup {i} ELSE A \ {i}
  BY <1>1, <1>2
<1>6. Cardinality(B) = IF row.state = st
                         THEN IF t[i].state = st THEN Cardinality(A) ELSE Cardinality(A) + 1
                         ELSE IF t[i].state = st THEN Cardinality(A) - 1 ELSE Cardinality(A)
  <2>1. CASE i \in A
    <3>1. A \cup {i} = A
      BY <2>1
    <3> QED
      BY <2>1, <3>1, <1>3, <1>4, <1>5, OneLess
  <2>2. CASE i \notin A
    <3>1. A \ {i} = A
      BY <2>2
    <3> QED
      BY <2>2, <3>1, <1>3, <1>4, <1>5, OneMore
  <2> QED
    BY <2>1, <2>2
<1> QED
  BY <1>1, <1>3, <1>6 DEF InState

\* Nobody has a share.
LEMMA NothingShared ==
  ASSUME NEW shares, \A p \in Person : ~(shares[p] > 0)
  PROVE  Total(shares) = 0
<1>1. {p \in Person : shares[p] > 0} = {}
  OBVIOUS
<1>2. Total(shares) = MapThenSumSet(LAMBDA p : shares[p], {p \in Person : shares[p] > 0})
  BY DEF Total
<1>3. MapThenSumSet(LAMBDA p : shares[p], {}) = 0
  BY DEF MapThenSumSet, MapThenFoldSet
<1>4. Total(shares) = MapThenSumSet(LAMBDA p : shares[p], {})
  BY <1>1, <1>2
<1> QED
  BY <1>3, <1>4

-----------------------------------------------------------------------------
(* What the chronology has of a type, and what a step adds to it             *)

Superseding == "EVIDENCE_SUPERSESSION_LINKED"

Tally(es, type) == Cardinality({i \in DOMAIN es : es[i].type = type})

\* A line names a Song that is there and a Version of it, or none.
LineReads(s, v) == s \in Known \cup {None} /\ (v = None \/ v \in VersionsOf(s))

LinesInv ==
  /\ IsTable(events) /\ 1 \in DOMAIN events
  /\ \A i \in DOMAIN events :
       /\ events[i] = Event(events[i].type, events[i].song, events[i].version)
       /\ LineReads(events[i].song, events[i].version)

\* A step leaves the lines that are there and adds one of each of the types.
Writes(types) ==
  /\ Kept(events, events', DOMAIN events)
  /\ \A i \in DOMAIN events' : i \in DOMAIN events \/
       \E t, s, v : events'[i] = Event(t, s, v) /\ LineReads(s, v)'
  /\ \A t : t # Superseding =>
       Tally(events', t) = IF t \in types THEN Tally(events, t) + 1 ELSE Tally(events, t)

LEMMA ToldIs == ASSUME NEW type PROVE Told(type) = Tally(events, type)
<1>1. {i \in DOMAIN events : events[i].type \in {type}} = {i \in DOMAIN events : events[i].type = type}
  OBVIOUS
<1> QED
  BY <1>1 DEF Told, Lines, Tally

LEMMA TallyAppended ==
  ASSUME NEW es, IsTable(es), NEW line, NEW type
  PROVE  /\ Tally(es, type) \in Nat
         /\ Tally(Append(es, line), type) = IF line.type = type THEN Tally(es, type) + 1 ELSE Tally(es, type)
<1>1. PICK A, B, u : A = {i \in DOMAIN es : es[i].type = type} /\ u = Append(es, line)
                     /\ B = {i \in DOMAIN u : u[i].type = type}
  OBVIOUS
<1>2. /\ Len(es) \in Nat /\ DOMAIN es = 1..Len(es) /\ DOMAIN u = 1..(Len(es) + 1)
      /\ \A i \in DOMAIN es : u[i] = es[i]
      /\ u[Len(es) + 1] = line
  BY <1>1, RowAppended, TableIs
<1>3. B = IF line.type = type THEN A \cup {Len(es) + 1} ELSE A
  BY <1>1, <1>2
<1>4. IsFiniteSet(A) /\ Cardinality(A) \in Nat
  BY <1>1, SomeRows
<1>5. Len(es) + 1 \notin A
  BY <1>1, <1>2
<1>6. Cardinality(B) = IF line.type = type THEN Cardinality(A) + 1 ELSE Cardinality(A)
  BY <1>3, <1>4, <1>5, OneMore
<1> QED
  BY <1>1, <1>4, <1>6 DEF Tally

LEMMA OneJoined ==
  ASSUME NEW es, IsTable(es), NEW line
  PROVE  es \o <<line>> = Append(es, line)
<1> DEFINE S == Range(es) \cup {line}
<1>1. es \in Seq(S) /\ line \in S
  <2>1. es \in [1..Len(es) -> Range(es)] /\ Len(es) \in Nat
    BY LenProperties DEF IsTable
  <2>2. es \in [1..Len(es) -> S]
    BY <2>1
  <2> QED
    BY <2>1, <2>2, SeqDef
<1> QED
  BY <1>1, AppendIsConcat

LEMMA TwoJoined ==
  ASSUME NEW es, IsTable(es), NEW d, NEW e
  PROVE  es \o <<d, e>> = Append(Append(es, d), e)
<1>1. PICK one : one = Append(es, d) /\ IsTable(one) /\ Len(one) = Len(es) + 1 /\ DOMAIN one = 1..(Len(es) + 1)
                 /\ (\A i \in DOMAIN es : one[i] = es[i]) /\ one[Len(es) + 1] = d
  BY RowAppended
<1>2. PICK two : two = Append(one, e)
  OBVIOUS
<1>10. /\ IsTable(two) /\ Len(two) = Len(one) + 1 /\ DOMAIN two = 1..(Len(one) + 1)
       /\ (\A i \in DOMAIN one : two[i] = one[i]) /\ two[Len(one) + 1] = e
  <2>1. IsTable(one)
    BY <1>1
  <2> QED
    BY <2>1, <1>2, RowAppended
<1>3. PICK pair : pair = <<d, e>>
  OBVIOUS
<1>4. IsTable(pair) /\ Len(pair) = 2 /\ pair[1] = d /\ pair[2] = e
  BY <1>3, TwoRows
<1>5. PICK all : all = es \o pair
  OBVIOUS
<1>6. /\ IsTable(all) /\ Len(all) = Len(es) + 2
      /\ \A i \in 1..Len(es) : all[i] = es[i]
      /\ \A i \in 1..2 : all[Len(es) + i] = pair[i]
  <2>1. IsTable(pair)
    BY <1>4
  <2>2. /\ IsTable(all) /\ Len(all) = Len(es) + Len(pair)
        /\ \A i \in 1..Len(es) : all[i] = es[i]
        /\ \A i \in 1..Len(pair) : all[Len(es) + i] = pair[i]
    BY <2>1, <1>5, TablesJoined
  <2> QED
    BY <1>4, <2>2
<1>7. Len(es) \in Nat /\ DOMAIN es = 1..Len(es)
  BY TableIs
<1>8. Len(two) = Len(all) /\ \A i \in 1..Len(all) : two[i] = all[i]
  <2>1. all[Len(es) + 1] = d /\ all[Len(es) + 2] = e
    BY <1>4, <1>6, <1>7
  <2> QED
    BY <2>1, <1>1, <1>10, <1>6, <1>7
<1>9. two = all
  BY <1>10, <1>6, <1>8, TablesEqual
<1> QED
  BY <1>1, <1>2, <1>3, <1>5, <1>9

LEMMA WritesNothing == ASSUME IsTable(events), UNCHANGED events PROVE Writes({})
<1>1. Kept(events, events', DOMAIN events)
  BY KeptSame
<1> QED
  BY <1>1 DEF Writes

LEMMA WritesOne ==
  ASSUME IsTable(events), NEW type, NEW s, NEW v, Log(<<Event(type, s, v)>>), LineReads(s, v)'
  PROVE  Writes({type}) /\ Len(events) + 1 \in DOMAIN events' /\ events'[Len(events) + 1] = Event(type, s, v)
<1>1. events' = Append(events, Event(type, s, v))
  BY OneJoined DEF Log
<1>2. /\ IsTable(events') /\ DOMAIN events' = 1..(Len(events) + 1) /\ DOMAIN events = 1..Len(events) /\ Len(events) \in Nat
      /\ \A i \in DOMAIN events : events'[i] = events[i]
      /\ events'[Len(events) + 1] = Event(type, s, v)
  BY <1>1, RowAppended, TableIs
<1>3. Event(type, s, v).type = type
  BY DEF Event
<1>4. \A t : Tally(events', t) = IF t \in {type} THEN Tally(events, t) + 1 ELSE Tally(events, t)
  BY <1>1, <1>3, TallyAppended
<1>5. \A i \in DOMAIN events' : i \in DOMAIN events \/ \E t, r, w : events'[i] = Event(t, r, w) /\ LineReads(r, w)'
  BY <1>2
<1> QED
  BY <1>2, <1>4, <1>5 DEF Writes, Kept

LEMMA WritesTwo ==
  ASSUME IsTable(events), NEW t1, NEW s1, NEW v1, NEW t2, NEW s2, NEW v2, t1 # t2,
         Log(<<Event(t1, s1, v1), Event(t2, s2, v2)>>), LineReads(s1, v1)', LineReads(s2, v2)'
  PROVE  Writes({t1, t2})
<1>1. PICK mid : mid = Append(events, Event(t1, s1, v1))
  OBVIOUS
<1>2. events' = Append(mid, Event(t2, s2, v2))
  BY <1>1, TwoJoined DEF Log
<1>3. /\ IsTable(mid) /\ Len(mid) = Len(events) + 1 /\ DOMAIN mid = 1..(Len(events) + 1)
      /\ DOMAIN events = 1..Len(events) /\ Len(events) \in Nat
      /\ \A i \in DOMAIN events : mid[i] = events[i]
      /\ mid[Len(events) + 1] = Event(t1, s1, v1)
  BY <1>1, RowAppended, TableIs
<1>4. /\ IsTable(events') /\ DOMAIN events' = 1..(Len(mid) + 1)
      /\ \A i \in DOMAIN mid : events'[i] = mid[i]
      /\ events'[Len(mid) + 1] = Event(t2, s2, v2)
  BY <1>2, <1>3, RowAppended
<1>5. Event(t1, s1, v1).type = t1 /\ Event(t2, s2, v2).type = t2
  BY DEF Event
<1>6. \A t : Tally(mid, t) = IF t = t1 THEN Tally(events, t) + 1 ELSE Tally(events, t)
  BY <1>1, <1>5, TallyAppended
<1>7. \A t : Tally(events', t) = IF t = t2 THEN Tally(mid, t) + 1 ELSE Tally(mid, t)
  BY <1>2, <1>3, <1>5, TallyAppended
<1>8. \A t : Tally(events', t) = IF t \in {t1, t2} THEN Tally(events, t) + 1 ELSE Tally(events, t)
  BY <1>6, <1>7
<1>9. \A i \in DOMAIN events' : i \in DOMAIN events \/ \E t, r, w : events'[i] = Event(t, r, w) /\ LineReads(r, w)'
  BY <1>3, <1>4
<1>10. Kept(events, events', DOMAIN events)
  BY <1>3, <1>4 DEF Kept
<1> QED
  BY <1>8, <1>9, <1>10 DEF Writes

\* What is there stays, and the lines that were added read.
LEMMA LinesStay ==
  ASSUME LinesInv, NEW types, Writes(types), \A s, v : LineReads(s, v) => LineReads(s, v)'
  PROVE  LinesInv'
<1>1. Kept(events, events', DOMAIN events)
  BY DEF Writes
<1>2. IsTable(events') /\ 1 \in DOMAIN events'
  BY <1>1 DEF LinesInv, Kept
<1>3. ASSUME NEW i \in DOMAIN events'
      PROVE  /\ events'[i] = Event(events'[i].type, events'[i].song, events'[i].version)
             /\ LineReads(events[i].song, events[i].version)'
  <2>1. CASE i \in DOMAIN events
    <3>1. PICK s, v : s = events[i].song /\ v = events[i].version
      OBVIOUS
    <3>2. events'[i] = Event(events[i].type, s, v) /\ LineReads(s, v) /\ events'[i] = events[i]
      BY <1>1, <2>1, <3>1 DEF LinesInv, Kept
    <3>3. LineReads(s, v)'
      BY <3>2
    <3>4. s = events'[i].song /\ v = events'[i].version
      BY <3>1, <3>2
    <3> QED
      BY <3>2, <3>3, <3>4
  <2>2. CASE i \notin DOMAIN events
    <3>1. PICK t, s, v : events'[i] = Event(t, s, v) /\ LineReads(s, v)'
      BY <2>2 DEF Writes
    <3>2. events'[i].type = t /\ events'[i].song = s /\ events'[i].version = v
      BY <3>1 DEF Event
    <3> QED
      BY <3>1, <3>2
  <2> QED
    BY <2>1, <2>2
<1> QED
  BY <1>2, <1>3 DEF LinesInv

-----------------------------------------------------------------------------
(* The lineage: what is written stays, and what points somewhere points there  *)

VersionRow ==
  [song : Known, ordinal : Nat \ {0}, parent : DOMAIN versions \cup {None}, assets : SUBSET DOMAIN assets]

AssetRow == [song : Known, digest : Digest, managed : BOOLEAN]

VersionsInv ==
  /\ IsTable(assets)
  /\ \A v \in DOMAIN versions : versions[v] \in VersionRow
  /\ \A a \in DOMAIN assets : assets[a] \in AssetRow
  /\ \A s \in Known : {songs[s].current, songs[s].approved} \subseteq VersionsOf(s) \cup {None}

RowsKept ==
  /\ Known \subseteq Known'
  /\ Kept(versions, versions', DOMAIN versions) /\ Kept(assets, assets', DOMAIN assets)

LineageWords ==
  {"SONG_CREATED", "SONG_SELECTED", "ASSET_ATTACHED", "VERSION_CREATED", "CURRENT_VERSION_CHANGED", "VERSION_APPROVED"}

LEMMA StillReads ==
  ASSUME RowsKept
  PROVE  /\ \A s, v : LineReads(s, v) => LineReads(s, v)'
         /\ \A s : VersionsOf(s) \subseteq VersionsOf(s)'
<1>1. \A s : VersionsOf(s) \subseteq VersionsOf(s)'
  BY DEF RowsKept, Kept, VersionsOf
<1> QED
  BY <1>1 DEF RowsKept, LineReads

LEMMA VersionsKept ==
  ASSUME VersionsInv, RowsKept,
         \A v \in DOMAIN versions' : v \in DOMAIN versions \/ (versions[v] \in VersionRow)',
         \A a \in DOMAIN assets' : a \in DOMAIN assets \/ (assets[a] \in AssetRow)',
         \A s \in Known' : \A v \in {songs'[s].current, songs'[s].approved} :
           \/ v \in VersionsOf(s)' \cup {None}
           \/ s \in Known /\ v \in {songs[s].current, songs[s].approved}
  PROVE  VersionsInv'
<1>1. VersionRow \subseteq VersionRow' /\ AssetRow \subseteq AssetRow'
  BY DEF RowsKept, Kept, VersionRow, AssetRow
<1>2. \A v \in DOMAIN versions' : (versions[v] \in VersionRow)'
  BY <1>1 DEF RowsKept, Kept, VersionsInv
<1>3. \A a \in DOMAIN assets' : (assets[a] \in AssetRow)'
  BY <1>1 DEF RowsKept, Kept, VersionsInv
<1>4. \A s : VersionsOf(s) \subseteq VersionsOf(s)'
  BY StillReads
<1>5. ASSUME NEW s \in Known', NEW v \in {songs'[s].current, songs'[s].approved}
      PROVE  v \in VersionsOf(s)' \cup {None}
  <2>1. CASE s \in Known /\ v \in {songs[s].current, songs[s].approved}
    BY <2>1, <1>4 DEF VersionsInv
  <2> QED
    BY <2>1
<1>6. IsTable(assets')
  BY DEF RowsKept, Kept
<1> QED
  BY <1>2, <1>3, <1>5, <1>6 DEF VersionsInv

LEMMA LineageWritten ==
  ASSUME PointersInv, VersionsInv, LinesInv, LineageStep
  PROVE  RowsKept /\ VersionsInv' /\ \E T \in SUBSET LineageWords : Writes(T)
<1> DEFINE Written == RowsKept /\ VersionsInv' /\ \E T \in SUBSET LineageWords : Writes(T)
<1>1. /\ IsTable(events) /\ IsTable(versions) /\ IsTable(assets) /\ songs \in [Song -> {None} \cup SongRow]
      /\ Kept(versions, versions, DOMAIN versions) /\ Kept(assets, assets, DOMAIN assets)
  BY KeptSame DEF PointersInv, VersionsInv
<1>2. ASSUME NEW s \in Song, NEW row \in SongRow, songs' = [songs EXCEPT ![s] = row]
      PROVE  Known' = Known \cup {s} /\ \A x \in Song : songs'[x] = IF x = s THEN row ELSE songs[x]
  <2>1. row # None
    BY NoneAssumption
  <2> QED
    BY <1>1, <1>2, <2>1 DEF Known
<1>3. ASSUME NEW s \in Song, CreateSong(s) PROVE RowsKept /\ VersionsInv' /\ \E T \in SUBSET LineageWords : Writes(T)
  <2> DEFINE row == [current |-> None, approved |-> None]
  <2>1. /\ songs[s] = None /\ songs' = [songs EXCEPT ![s] = row] /\ UNCHANGED <<versions, assets>>
        /\ Log(<<Event("SONG_CREATED", s, None), Event("SONG_SELECTED", s, None)>>)
    BY <1>3 DEF CreateSong
  <2>2. row \in SongRow /\ row.current = None /\ row.approved = None
    BY DEF SongRow
  <2> HIDE DEF row
  <2>3. Known' = Known \cup {s} /\ \A x \in Song : songs'[x] = IF x = s THEN row ELSE songs[x]
    BY <1>2, <2>1, <2>2
  <2>4. RowsKept
    BY <1>1, <2>1, <2>3 DEF RowsKept
  <2>5. Writes({"SONG_CREATED", "SONG_SELECTED"})
    <3>1. LineReads(s, None)'
      BY <2>3 DEF LineReads
    <3>2. "SONG_CREATED" # "SONG_SELECTED"
      OBVIOUS
    <3> QED
      BY <1>1, <2>1, <3>1, <3>2, WritesTwo
  <2>6. VersionsInv'
    <3>1. \A x \in Known' : \A v \in {songs'[x].current, songs'[x].approved} :
            v = None \/ (x \in Known /\ v \in {songs[x].current, songs[x].approved})
      BY <2>2, <2>3 DEF Known
    <3> QED
      BY <2>1, <2>4, <3>1, VersionsKept
  <2> QED
    BY <2>4, <2>5, <2>6 DEF LineageWords
<1>4. ASSUME NEW s \in Song, SelectSong(s) PROVE RowsKept /\ VersionsInv' /\ \E T \in SUBSET LineageWords : Writes(T)
  <2>1. s \in Known /\ UNCHANGED <<songs, versions, assets>> /\ Log(<<Event("SONG_SELECTED", s, songs[s].current)>>)
    BY <1>4 DEF SelectSong
  <2>2. Known' = Known /\ \A x : VersionsOf(x)' = VersionsOf(x)
    BY <2>1 DEF Known, VersionsOf
  <2>3. RowsKept
    BY <1>1, <2>1, <2>2 DEF RowsKept
  <2>4. VersionsInv'
    BY <2>1, <2>2 DEF VersionsInv, VersionRow, AssetRow
  <2>5. PICK v : v = songs[s].current
    OBVIOUS
  <2>6. LineReads(s, v)'
    BY <2>1, <2>2, <2>5 DEF LineReads, VersionsInv
  <2>7. Writes({"SONG_SELECTED"})
    BY <1>1, <2>1, <2>5, <2>6, WritesOne
  <2> QED
    BY <2>3, <2>4, <2>7 DEF LineageWords
<1>5. ASSUME NEW s, NEW d \in Digest, AttachAsset(s, d)
      PROVE  Written
  <2> DEFINE row == [song |-> s, digest |-> d, managed |-> FALSE]
  <2>1. s \in Known /\ UNCHANGED <<songs, versions>> /\ assets' = Append(assets, row) /\ Log(<<Event("ASSET_ATTACHED", s, None)>>)
    BY <1>5 DEF AttachAsset
  <2>2. Known' = Known
    BY <2>1 DEF Known
  <2>3. (row \in AssetRow)'
    BY <2>1, <2>2 DEF AssetRow
  <2> HIDE DEF row
  <2>4. /\ IsTable(assets') /\ DOMAIN assets' = 1..(Len(assets) + 1) /\ DOMAIN assets = 1..Len(assets) /\ Len(assets) \in Nat
        /\ \A i \in DOMAIN assets : assets'[i] = assets[i]
        /\ assets'[Len(assets) + 1] = row
    BY <1>1, <2>1, RowAppended, TableIs
  <2>5. RowsKept
    BY <1>1, <2>1, <2>2, <2>4 DEF RowsKept, Kept
  <2>6. \A a \in DOMAIN assets' : a \in DOMAIN assets \/ (assets[a] \in AssetRow)'
    BY <2>3, <2>4 DEF row
  <2>7. VersionsInv'
    BY <2>1, <2>2, <2>5, <2>6, VersionsKept
  <2>8. LineReads(s, None)'
    BY <2>1, <2>2 DEF LineReads
  <2>9. Writes({"ASSET_ATTACHED"})
    BY <1>1, <2>1, <2>8, WritesOne
  <2> QED
    BY <2>5, <2>7, <2>9 DEF LineageWords
<1>6. ASSUME NEW s \in Known, NEW v \in DOMAIN versions, v \in VersionsOf(s), UNCHANGED <<versions, assets>>,
             NEW row \in SongRow, songs' = [songs EXCEPT ![s] = row],
             {row.current, row.approved} \subseteq {v, songs[s].current, songs[s].approved},
             NEW type \in LineageWords, Log(<<Event(type, s, v)>>)
      PROVE  Written
  <2>1. Known' = Known /\ \A x \in Song : songs'[x] = IF x = s THEN row ELSE songs[x]
    BY <1>2, <1>6 DEF Known
  <2>2. \A x : VersionsOf(x)' = VersionsOf(x)
    BY <1>6 DEF VersionsOf
  <2>3. RowsKept
    BY <1>1, <1>6, <2>1 DEF RowsKept
  <2>4. \A x \in Known' : \A w \in {songs'[x].current, songs'[x].approved} :
          w \in VersionsOf(x)' \/ (x \in Known /\ w \in {songs[x].current, songs[x].approved})
    BY <1>6, <2>1, <2>2 DEF Known
  <2>5. VersionsInv'
    BY <1>6, <2>3, <2>4, VersionsKept
  <2>6. LineReads(s, v)'
    BY <1>6, <2>1, <2>2 DEF LineReads
  <2>7. Writes({type})
    BY <1>1, <1>6, <2>6, WritesOne
  <2> QED
    BY <2>3, <2>5, <2>7
<1>7. ASSUME NEW s, NEW v, SetCurrentVersion(s, v) \/ ApproveVersion(s, v)
      PROVE  Written
  <2>1. s \in Known /\ v \in VersionsOf(s) /\ v \in DOMAIN versions /\ UNCHANGED <<versions, assets>>
    BY <1>7 DEF SetCurrentVersion, ApproveVersion, VersionsOf
  <2>2. songs[s] \in SongRow /\ v \in Nat
    BY <1>1, <2>1, TableIs DEF Known
  <2>3. /\ [songs[s] EXCEPT !.current = v] \in SongRow /\ [songs[s] EXCEPT !.approved = v] \in SongRow
        /\ [songs[s] EXCEPT !.current = v].current = v /\ [songs[s] EXCEPT !.current = v].approved = songs[s].approved
        /\ [songs[s] EXCEPT !.approved = v].approved = v /\ [songs[s] EXCEPT !.approved = v].current = songs[s].current
    BY <2>2 DEF SongRow
  <2>4. CASE SetCurrentVersion(s, v)
    <3>1. PICK row : row = [songs[s] EXCEPT !.current = v]
      OBVIOUS
    <3>2. songs' = [songs EXCEPT ![s] = row] /\ Log(<<Event("CURRENT_VERSION_CHANGED", s, v)>>)
      BY <2>4, <3>1 DEF SetCurrentVersion
    <3>3. "CURRENT_VERSION_CHANGED" \in LineageWords
      BY DEF LineageWords
    <3> QED
      BY <1>6, <2>1, <2>3, <3>1, <3>2, <3>3
  <2>5. CASE ApproveVersion(s, v)
    <3>1. PICK row : row = [songs[s] EXCEPT !.approved = v]
      OBVIOUS
    <3>2. songs' = [songs EXCEPT ![s] = row] /\ Log(<<Event("VERSION_APPROVED", s, v)>>)
      BY <2>5, <3>1 DEF ApproveVersion
    <3>3. "VERSION_APPROVED" \in LineageWords
      BY DEF LineageWords
    <3> QED
      BY <1>6, <2>1, <2>3, <3>1, <3>2, <3>3
  <2> QED
    BY <1>7, <2>4, <2>5
<1>8. ASSUME NEW s, NEW attached \in {{}, DOMAIN assets}, NEW becomesCurrent \in BOOLEAN,
             CreateVersion(s, None, attached, becomesCurrent)
      PROVE  Written
  <2>0. PICK v, n, row : v = Len(versions) + 1 /\ n = NextOrdinal(s)
                         /\ row = [song |-> s, ordinal |-> n, parent |-> None, assets |-> attached]
    OBVIOUS
  <2>1. s \in Known /\ UNCHANGED assets /\ versions' = Append(versions, row) /\ Log(VersionEvents(s, becomesCurrent))
    BY <1>8, <2>0 DEF CreateVersion, NewVersion
  <2>2. v \in Nat /\ songs[s] \in SongRow
    BY <1>1, <2>0, <2>1, TableIs DEF Known
  <2>3. /\ IsTable(versions') /\ DOMAIN versions' = 1..v /\ DOMAIN versions = 1..Len(versions) /\ Len(versions) \in Nat
        /\ \A i \in DOMAIN versions : versions'[i] = versions[i]
        /\ versions'[v] = row
    BY <1>1, <2>0, <2>1, RowAppended, TableIs
  <2>4. n \in Nat \ {0}
    <3>1. VersionsOf(s) \in SUBSET DOMAIN versions
      BY DEF VersionsOf
    <3>2. Cardinality(VersionsOf(s)) \in Nat
      BY <1>1, <3>1, SomeRows
    <3> QED
      BY <2>0, <3>2 DEF NextOrdinal
  <2>5. row.song = s
    BY <2>0
  <2>6. ASSUME Known' = Known PROVE (row \in VersionRow)'
    BY <1>8, <2>0, <2>1, <2>4, <2>6 DEF VersionRow
  <2>7. VersionEvents(s, becomesCurrent) =
          <<Event("VERSION_CREATED", s, v)>> \o (IF becomesCurrent THEN <<Event("CURRENT_VERSION_CHANGED", s, v)>> ELSE <<>>)
    BY <2>0 DEF VersionEvents
  <2>8. songs' = IF becomesCurrent THEN [songs EXCEPT ![s].current = v] ELSE songs
    BY <1>8, <2>0 DEF CreateVersion, NewVersion
  <2>10. v \in VersionsOf(s)'
    BY <2>0, <2>2, <2>3, <2>5 DEF VersionsOf
  <2>11. Known' = Known /\ \A x \in Known : \A w \in {songs'[x].current, songs'[x].approved} :
           w \in VersionsOf(x)' \/ (x \in Known /\ w \in {songs[x].current, songs[x].approved})
    <3>1. CASE becomesCurrent
      <4>1. PICK next : next = [songs[s] EXCEPT !.current = v]
        OBVIOUS
      <4>2. next \in SongRow /\ next.current = v /\ next.approved = songs[s].approved
        BY <2>2, <4>1 DEF SongRow
      <4>3. songs' = [songs EXCEPT ![s] = next]
        BY <2>8, <3>1, <4>1
      <4>4. Known' = Known \cup {s} /\ \A x \in Song : songs'[x] = IF x = s THEN next ELSE songs[x]
        BY <1>2, <2>1, <4>2, <4>3 DEF Known
      <4> QED
        BY <2>1, <2>10, <4>2, <4>4 DEF Known
    <3>2. CASE ~becomesCurrent
      BY <2>8, <3>2 DEF Known
    <3> QED
      BY <3>1, <3>2
  <2>12. RowsKept
    BY <1>1, <2>0, <2>1, <2>2, <2>3, <2>11 DEF RowsKept, Kept
  <2>13. VersionsInv'
    <3>1. \A w \in DOMAIN versions' : w \in DOMAIN versions \/ (versions[w] \in VersionRow)'
      BY <2>0, <2>3, <2>6, <2>11
    <3> QED
      BY <2>1, <2>11, <2>12, <3>1, VersionsKept
  <2>14. LineReads(s, v)'
    BY <2>1, <2>10, <2>11 DEF LineReads
  <2>15. CASE becomesCurrent
    <3>1. <<Event("VERSION_CREATED", s, v)>> \o <<Event("CURRENT_VERSION_CHANGED", s, v)>>
            = <<Event("VERSION_CREATED", s, v), Event("CURRENT_VERSION_CHANGED", s, v)>>
      BY PairJoined
    <3>2. Log(<<Event("VERSION_CREATED", s, v), Event("CURRENT_VERSION_CHANGED", s, v)>>)
      BY <2>1, <2>7, <2>15, <3>1
    <3>3. "VERSION_CREATED" # "CURRENT_VERSION_CHANGED"
      OBVIOUS
    <3>4. Writes({"VERSION_CREATED", "CURRENT_VERSION_CHANGED"})
      BY <1>1, <2>14, <3>2, <3>3, WritesTwo
    <3> QED
      BY <2>12, <2>13, <3>4 DEF LineageWords
  <2>16. CASE ~becomesCurrent
    <3>1. <<Event("VERSION_CREATED", s, v)>> \o <<>> = <<Event("VERSION_CREATED", s, v)>>
      OBVIOUS
    <3>2. Log(<<Event("VERSION_CREATED", s, v)>>)
      BY <2>1, <2>7, <2>16, <3>1
    <3>3. Writes({"VERSION_CREATED"})
      BY <1>1, <2>14, <3>2, WritesOne
    <3> QED
      BY <2>12, <2>13, <3>3 DEF LineageWords
  <2> QED
    BY <2>15, <2>16
<1> QED
  BY <1>3, <1>4, <1>5, <1>7, <1>8 DEF LineageStep

-----------------------------------------------------------------------------
(* The people, what is owed between them and their accounts                  *)

LEMMA SameReads ==
  ASSUME UNCHANGED <<songs, versions>>
  PROVE  Known' = Known /\ \A s, v : LineReads(s, v) => LineReads(s, v)'
BY DEF Known, VersionsOf, LineReads

FollowupReads == [person : people, song : Known \cup {None}, state : {"OPEN", "RESOLVED", "CANCELED"}]

ReviewLives ==
  {<<"REVIEW_REQUIRED">>, <<"REVIEW_REQUIRED", "LINKED">>,
   <<"REVIEW_REQUIRED", "REJECTED">>, <<"REVIEW_REQUIRED", "LINKED", "SPLIT">>}

ReviewReads == [account : accounts, person : people, states : ReviewLives]

PeopleInv ==
  /\ people \subseteq Person /\ accounts \subseteq Account
  /\ IsFiniteSet(people) /\ IsFiniteSet(accounts)
  /\ \A i \in DOMAIN followups : followups[i] \in FollowupReads
  /\ \A r \in DOMAIN reviews : reviews[r] \in ReviewReads
  /\ \A q, r \in DOMAIN reviews :
       IsActive(q) /\ IsActive(r) /\ reviews[q].account = reviews[r].account => q = r

Went(states, st)   == \E i \in DOMAIN states : states[i] = st
Through(rows, st) == {r \in DOMAIN rows : Went(rows[r].states, st)}

PeopleTold ==
  /\ Tally(events, "PERSON_CREATED") = Cardinality(people)
  /\ Tally(events, "EXTERNAL_IDENTITY_RECORDED") = Cardinality(accounts)
  /\ Tally(events, "FOLLOWUP_CREATED") = Len(followups)
  /\ Tally(events, "FOLLOWUP_RESOLVED") = InState(followups, "RESOLVED")
  /\ Tally(events, "FOLLOWUP_CANCELED") = InState(followups, "CANCELED")
  /\ Tally(events, "IDENTITY_REVIEW_LINKED") = Cardinality(Through(reviews, "LINKED"))
  /\ Tally(events, "IDENTITY_REVIEW_REJECTED") = Cardinality(Through(reviews, "REJECTED"))
  /\ Tally(events, "IDENTITY_REVIEW_SPLIT") = Cardinality(Through(reviews, "SPLIT"))

PeopleWords ==
  {"PERSON_CREATED", "EXTERNAL_IDENTITY_RECORDED", "FOLLOWUP_CREATED", "FOLLOWUP_RESOLVED", "FOLLOWUP_CANCELED",
   "IDENTITY_REVIEW_LINKED", "IDENTITY_REVIEW_REJECTED", "IDENTITY_REVIEW_SPLIT",
   "IDENTITY_REVIEW_REVIEW_REQUIRED", "IDENTITY_REVIEW_OPENED"}

\* What others tell leaves what is told of the people.
Untold(words) == \A t \in words : Tally(events', t) = Tally(events, t)

LEMMA PeopleFramed ==
  ASSUME PeopleInv, PeopleTold, UNCHANGED peopleVars, Known \subseteq Known', Untold(PeopleWords)
  PROVE  PeopleInv' /\ PeopleTold'
<1>1. PeopleTold'
  BY DEF PeopleTold, Untold, PeopleWords, peopleVars
<1>2. FollowupReads \subseteq FollowupReads' /\ ReviewReads' = ReviewReads
  BY DEF FollowupReads, ReviewReads, peopleVars
<1>3. \A q : IsActive(q)' <=> IsActive(q)
  BY DEF IsActive, peopleVars
<1> QED
  BY <1>1, <1>2, <1>3 DEF PeopleInv, peopleVars

\* Where a review has gone, and where it goes.
LEMMA ReviewGoes ==
  ASSUME NEW states \in ReviewLives, NEW next, MayFollow(Final(states), next)
  PROVE  /\ Append(states, next) \in ReviewLives /\ Final(Append(states, next)) = next
         /\ Final(states) \in {"REVIEW_REQUIRED", "LINKED"}
         /\ next \in {"LINKED", "REJECTED", "SPLIT"} /\ ~Went(states, next)
         /\ \A st \in {"LINKED", "REJECTED", "SPLIT"} : Went(Append(states, next), st) <=> Went(states, st) \/ st = next
<1>1. PICK u : u = Append(states, next)
  OBVIOUS
<1>2. IsTable(states)
  <2> DEFINE S == {"REVIEW_REQUIRED", "LINKED", "REJECTED", "SPLIT"}
  <2>2. /\ <<"REVIEW_REQUIRED">> \in Seq(S) /\ <<"REVIEW_REQUIRED", "LINKED">> \in Seq(S)
        /\ <<"REVIEW_REQUIRED", "REJECTED">> \in Seq(S) /\ <<"REVIEW_REQUIRED", "LINKED", "SPLIT">> \in Seq(S)
    OBVIOUS
  <2>1. states \in Seq(S)
    BY <2>2 DEF ReviewLives
  <2> QED
    BY <2>1, SequenceIsTable
<1>3. /\ IsTable(u) /\ Len(u) = Len(states) + 1 /\ DOMAIN u = 1..(Len(states) + 1)
      /\ \A i \in DOMAIN states : u[i] = states[i]
      /\ u[Len(states) + 1] = next
  BY <1>1, <1>2, RowAppended
<1>4. Len(states) \in Nat /\ DOMAIN states = 1..Len(states)
  BY <1>2, TableIs
<1>5. CASE states = <<"REVIEW_REQUIRED">>
  <2>1. Len(states) = 1 /\ states[1] = "REVIEW_REQUIRED"
    BY <1>5
  <2>2. next \in {"LINKED", "REJECTED"}
    BY <2>1 DEF Final, MayFollow
  <2>3. PICK w : w = <<"REVIEW_REQUIRED", next>>
    OBVIOUS
  <2>4. IsTable(w) /\ Len(w) = 2 /\ w[1] = "REVIEW_REQUIRED" /\ w[2] = next
    BY <2>3, TwoRows
  <2>5. u = w
    BY <1>3, <1>4, <2>1, <2>4, TablesEqual
  <2>6. u \in ReviewLives
    BY <2>2, <2>3, <2>5 DEF ReviewLives
  <2> QED
    BY <1>1, <1>3, <1>4, <2>1, <2>2, <2>6 DEF Final, Went
<1>6. CASE states = <<"REVIEW_REQUIRED", "LINKED">>
  <2>1. Len(states) = 2 /\ states[1] = "REVIEW_REQUIRED" /\ states[2] = "LINKED"
    BY <1>6
  <2>2. next = "SPLIT"
    BY <2>1 DEF Final, MayFollow
  <2>3. PICK w : w = <<"REVIEW_REQUIRED", "LINKED", "SPLIT">>
    OBVIOUS
  <2>4. w \in Seq({"REVIEW_REQUIRED", "LINKED", "SPLIT"}) /\ Len(w) = 3 /\ w[1] = "REVIEW_REQUIRED" /\ w[2] = "LINKED" /\ w[3] = "SPLIT"
    BY <2>3
  <2>5. u = w
    BY <1>3, <1>4, <2>1, <2>2, <2>4, TablesEqual, SequenceIsTable
  <2>6. u \in ReviewLives
    BY <2>3, <2>5 DEF ReviewLives
  <2> QED
    BY <1>1, <1>3, <1>4, <2>1, <2>2, <2>6 DEF Final, Went
<1>7. CASE states = <<"REVIEW_REQUIRED", "REJECTED">>
  <2>1. Len(states) = 2 /\ states[2] = "REJECTED"
    BY <1>7
  <2> QED
    BY <2>1 DEF Final, MayFollow
<1>8. CASE states = <<"REVIEW_REQUIRED", "LINKED", "SPLIT">>
  <2>1. Len(states) = 3 /\ states[3] = "SPLIT"
    BY <1>8
  <2> QED
    BY <2>1 DEF Final, MayFollow
<1> QED
  BY <1>5, <1>6, <1>7, <1>8 DEF ReviewLives

\* One more went where the review that is changed goes.
LEMMA ThroughChanged ==
  ASSUME NEW t, IsTable(t), NEW i \in DOMAIN t, NEW row, NEW st
  PROVE  LET u == [t EXCEPT ![i] = row] IN
         /\ Cardinality(Through(t, st)) \in Nat
         /\ (Went(row.states, st) <=> Went(t[i].states, st)) => Cardinality(Through(u, st)) = Cardinality(Through(t, st))
         /\ Went(row.states, st) /\ ~Went(t[i].states, st) => Cardinality(Through(u, st)) = Cardinality(Through(t, st)) + 1
<1>1. PICK u : u = [t EXCEPT ![i] = row]
  OBVIOUS
<1>2. DOMAIN u = DOMAIN t /\ u[i] = row /\ \A j \in DOMAIN t : j # i => u[j] = t[j]
  BY <1>1, RowChanged
<1>3. Through(t, st) \in SUBSET DOMAIN t
  BY DEF Through
<1>4. IsFiniteSet(Through(t, st)) /\ Cardinality(Through(t, st)) \in Nat
  BY <1>3, SomeRows
<1>5. (Went(row.states, st) <=> Went(t[i].states, st)) => Through(u, st) = Through(t, st)
  BY <1>2 DEF Through
<1>6. Went(row.states, st) /\ ~Went(t[i].states, st) => Through(u, st) = Through(t, st) \cup {i} /\ i \notin Through(t, st)
  BY <1>2 DEF Through
<1> QED
  BY <1>1, <1>4, <1>5, <1>6, OneMore

LEMMA ThroughAppended ==
  ASSUME NEW t, IsTable(t), NEW row, NEW st, ~Went(row.states, st)
  PROVE  Cardinality(Through(Append(t, row), st)) = Cardinality(Through(t, st))
<1>1. PICK u : u = Append(t, row)
  OBVIOUS
<1>2. DOMAIN u = 1..(Len(t) + 1) /\ DOMAIN t = 1..Len(t) /\ Len(t) \in Nat /\ u[Len(t) + 1] = row /\ \A j \in DOMAIN t : u[j] = t[j]
  BY <1>1, RowAppended, TableIs
<1>3. Through(u, st) = Through(t, st)
  BY <1>2 DEF Through
<1> QED
  BY <1>1, <1>3

LEMMA PeopleWritten ==
  ASSUME TablesInv, LinesInv, PeopleInv, PeopleTold, PeopleStep
  PROVE  /\ PeopleInv' /\ PeopleTold' /\ people \subseteq people' /\ accounts \subseteq accounts'
         /\ Kept(followups, followups', {}) /\ \E T \in SUBSET PeopleWords : Writes(T)
<1> DEFINE Written == /\ PeopleInv' /\ PeopleTold' /\ people \subseteq people' /\ accounts \subseteq accounts'
                      /\ Kept(followups, followups', {}) /\ \E T \in SUBSET PeopleWords : Writes(T)
<1>1. IsTable(events) /\ IsTable(followups) /\ IsTable(reviews) /\ UNCHANGED <<songs, versions>>
  BY DEF TablesInv, LinesInv, PeopleStep, CreatePerson, CreateFollowup, CloseFollowup, RecordAccount, ProposeLink, Open,
     Decide, recordVars
<1>2. Known' = Known /\ LineReads(None, None)'
  BY <1>1, SameReads DEF LineReads
<1>3. {} \in SUBSET DOMAIN followups /\ {} \in SUBSET DOMAIN reviews
  OBVIOUS
<1>4. ASSUME NEW p \in Person, CreatePerson(p)
      PROVE  Written
  <2>1. p \notin people /\ people' = people \cup {p} /\ UNCHANGED <<followups, accounts, reviews>>
        /\ Log(<<Event("PERSON_CREATED", None, None)>>)
    BY <1>4 DEF CreatePerson
  <2>2. Writes({"PERSON_CREATED"})
    BY <1>1, <1>2, <2>1, WritesOne
  <2>3. IsFiniteSet(people') /\ Cardinality(people') = Cardinality(people) + 1
    BY <2>1, OneMore DEF PeopleInv
  <2>4. FollowupReads \subseteq FollowupReads' /\ ReviewReads \subseteq ReviewReads'
    BY <1>2, <2>1 DEF FollowupReads, ReviewReads
  <2>5. \A q : IsActive(q)' <=> IsActive(q)
    BY <2>1 DEF IsActive
  <2>6. PeopleInv'
    BY <2>1, <2>3, <2>4, <2>5 DEF PeopleInv
  <2>7. PeopleTold'
    BY <2>1, <2>2, <2>3 DEF PeopleTold, Writes, Superseding
  <2> QED
    BY <1>1, <1>3, <2>1, <2>2, <2>6, <2>7, KeptSame DEF PeopleWords
<1>5. ASSUME NEW p, NEW s, CreateFollowup(p, s)
      PROVE  Written
  <2>1. PICK row : row = [person |-> p, song |-> s, state |-> "OPEN"]
    OBVIOUS
  <2>2. p \in people /\ s \in Known \cup {None} /\ followups' = Append(followups, row)
        /\ Log(<<Event("FOLLOWUP_CREATED", s, None)>>) /\ UNCHANGED <<people, accounts, reviews>>
    BY <1>5, <2>1 DEF CreateFollowup
  <2>3. LineReads(s, None)'
    BY <1>2, <2>2 DEF LineReads
  <2>4. Writes({"FOLLOWUP_CREATED"})
    BY <1>1, <2>2, <2>3, WritesOne
  <2>5. FollowupReads' = FollowupReads /\ ReviewReads' = ReviewReads /\ row \in FollowupReads /\ row.state = "OPEN"
    BY <1>2, <2>1, <2>2 DEF FollowupReads, ReviewReads
  <2>6. /\ Len(followups) \in Nat /\ Len(followups') = Len(followups) + 1 /\ DOMAIN followups' = 1..(Len(followups) + 1)
        /\ DOMAIN followups = 1..Len(followups)
        /\ \A i \in DOMAIN followups : followups'[i] = followups[i]
        /\ followups'[Len(followups) + 1] = row
    BY <1>1, <2>2, RowAppended, TableIs
  <2>7. \A st \in {"RESOLVED", "CANCELED"} : InState(followups', st) = InState(followups, st)
    BY <1>1, <2>2, <2>5, InStateAppended
  <2>8. \A q : IsActive(q)' <=> IsActive(q)
    BY <2>2 DEF IsActive
  <2>9. PeopleInv'
    BY <2>2, <2>5, <2>6, <2>8 DEF PeopleInv
  <2>10. PeopleTold'
    BY <2>2, <2>4, <2>6, <2>7 DEF PeopleTold, Writes, Superseding
  <2> QED
    BY <1>1, <1>3, <2>2, <2>4, <2>9, <2>10, KeptAppended DEF PeopleWords
<1>6. ASSUME NEW i, NEW state \in {"RESOLVED", "CANCELED"}, CloseFollowup(i, state)
      PROVE  Written
  <2>1. PICK row, s : row = [followups[i] EXCEPT !.state = state] /\ s = followups[i].song
    OBVIOUS
  <2>2. i \in DOMAIN followups /\ followups[i].state = "OPEN" /\ followups' = [followups EXCEPT ![i] = row]
        /\ Log(<<Event(FollowupTold[state], s, None)>>) /\ UNCHANGED <<people, accounts, reviews>>
    BY <1>6, <2>1 DEF CloseFollowup
  <2>3. followups[i] \in FollowupReads
    BY <2>2 DEF PeopleInv
  <2>4. row \in FollowupReads /\ row.state = state /\ s \in Known \cup {None}
    BY <2>1, <2>3 DEF FollowupReads
  <2>5. LineReads(s, None)'
    BY <1>2, <2>4 DEF LineReads
  <2>6. Writes({FollowupTold[state]})
    BY <1>1, <2>2, <2>5, WritesOne
  <2>7. FollowupReads' = FollowupReads /\ ReviewReads' = ReviewReads
    BY <1>2, <2>2 DEF FollowupReads, ReviewReads
  <2>8. /\ Len(followups') = Len(followups) /\ DOMAIN followups' = DOMAIN followups /\ followups'[i] = row
        /\ \A j \in DOMAIN followups : j # i => followups'[j] = followups[j]
    BY <1>1, <2>2, RowChanged
  <2>9. \A st \in {"RESOLVED", "CANCELED"} :
          InState(followups', st) = IF st = state THEN InState(followups, st) + 1 ELSE InState(followups, st)
    <3>2. IsTable(followups) /\ i \in DOMAIN followups
      BY <1>1, <2>2
    <3>1. ASSUME NEW st
          PROVE  InState([followups EXCEPT ![i] = row], st) =
                   IF row.state = st
                     THEN IF followups[i].state = st THEN InState(followups, st) ELSE InState(followups, st) + 1
                     ELSE IF followups[i].state = st THEN InState(followups, st) - 1 ELSE InState(followups, st)
      BY <3>2, InStateChanged
    <3> QED
      BY <2>2, <2>4, <3>1
  <2>10. \A q : IsActive(q)' <=> IsActive(q)
    BY <2>2 DEF IsActive
  <2>11. PeopleInv'
    BY <2>2, <2>4, <2>7, <2>8, <2>10 DEF PeopleInv
  <2>12. FollowupTold[state] = IF state = "RESOLVED" THEN "FOLLOWUP_RESOLVED" ELSE "FOLLOWUP_CANCELED"
    BY DEF FollowupTold
  <2>13. PeopleTold'
    BY <2>2, <2>6, <2>8, <2>9, <2>12 DEF PeopleTold, Writes, Superseding
  <2>14. FollowupTold[state] \in PeopleWords
    BY <2>12 DEF PeopleWords
  <2>15. i \notin {}
    OBVIOUS
  <2> QED
    BY <1>1, <1>3, <2>2, <2>6, <2>11, <2>13, <2>14, <2>15, KeptChanged
<1>7. ASSUME NEW x \in Account, RecordAccount(x)
      PROVE  Written
  <2>1. x \notin accounts /\ accounts' = accounts \cup {x} /\ UNCHANGED <<followups, people, reviews>>
        /\ Log(<<Event("EXTERNAL_IDENTITY_RECORDED", None, None)>>)
    BY <1>7 DEF RecordAccount
  <2>2. Writes({"EXTERNAL_IDENTITY_RECORDED"})
    BY <1>1, <1>2, <2>1, WritesOne
  <2>3. IsFiniteSet(accounts') /\ Cardinality(accounts') = Cardinality(accounts) + 1
    BY <2>1, OneMore DEF PeopleInv
  <2>4. FollowupReads \subseteq FollowupReads' /\ ReviewReads \subseteq ReviewReads'
    BY <1>2, <2>1 DEF FollowupReads, ReviewReads
  <2>5. \A q : IsActive(q)' <=> IsActive(q)
    BY <2>1 DEF IsActive
  <2>6. PeopleInv'
    BY <2>1, <2>3, <2>4, <2>5 DEF PeopleInv
  <2>7. PeopleTold'
    BY <2>1, <2>2, <2>3 DEF PeopleTold, Writes, Superseding
  <2> QED
    BY <1>1, <1>3, <2>1, <2>2, <2>6, <2>7, KeptSame DEF PeopleWords
<1>8. ASSUME NEW x, NEW p, ProposeLink(x, p)
      PROVE  Written
  <2>1. PICK life, row : life = <<"REVIEW_REQUIRED">> /\ row = [account |-> x, person |-> p, states |-> life]
    OBVIOUS
  <2>2. /\ x \in accounts /\ p \in people /\ Standing(x) = {}
        /\ reviews' = Append(reviews, row) /\ UNCHANGED <<people, accounts, followups>>
        /\ Log(<<Event("IDENTITY_REVIEW_REVIEW_REQUIRED", None, None), Event("IDENTITY_REVIEW_OPENED", None, None)>>)
    BY <1>8, <2>1 DEF ProposeLink, Open
  <2>3. Writes({"IDENTITY_REVIEW_REVIEW_REQUIRED", "IDENTITY_REVIEW_OPENED"})
    <3>1. "IDENTITY_REVIEW_REVIEW_REQUIRED" # "IDENTITY_REVIEW_OPENED"
      OBVIOUS
    <3> QED
      BY <1>1, <1>2, <2>2, <3>1, WritesTwo
  <2>4. FollowupReads' = FollowupReads /\ ReviewReads' = ReviewReads
    BY <1>2, <2>2 DEF FollowupReads, ReviewReads
  <2>5. row \in ReviewReads /\ row.account = x /\ row.states = life
    BY <2>1, <2>2 DEF ReviewReads, ReviewLives
  <2>6. DOMAIN life = 1..1 /\ life[1] = "REVIEW_REQUIRED"
    BY <2>1
  <2>7. /\ Len(reviews) \in Nat /\ DOMAIN reviews' = 1..(Len(reviews) + 1) /\ DOMAIN reviews = 1..Len(reviews)
        /\ \A r \in DOMAIN reviews : reviews'[r] = reviews[r]
        /\ reviews'[Len(reviews) + 1] = row
    BY <1>1, <2>2, RowAppended, TableIs
  <2>8. \A st \in {"LINKED", "REJECTED", "SPLIT"} : Cardinality(Through(reviews', st)) = Cardinality(Through(reviews, st))
    <3>1. \A st \in {"LINKED", "REJECTED", "SPLIT"} : ~Went(row.states, st)
      BY <2>5, <2>6 DEF Went
    <3> QED
      BY <1>1, <2>2, <3>1, ThroughAppended
  <2>9. \A r \in DOMAIN reviews : IsActive(r)' <=> IsActive(r)
    BY <2>7 DEF IsActive
  <2>10. \A r \in DOMAIN reviews : reviews[r].account = x => ~IsActive(r)
    BY <2>2 DEF Standing
  <2>11. PeopleInv'
    BY <2>2, <2>4, <2>5, <2>7, <2>9, <2>10 DEF PeopleInv
  <2>12. PeopleTold'
    BY <2>2, <2>3, <2>8 DEF PeopleTold, Writes, Superseding
  <2> QED
    BY <1>1, <1>3, <2>2, <2>3, <2>11, <2>12, KeptSame DEF PeopleWords
<1>9. ASSUME NEW r, NEW state, Decide(r, state)
      PROVE  Written
  <2>1. PICK life, row : life = Append(reviews[r].states, state) /\ row = [reviews[r] EXCEPT !.states = life]
    OBVIOUS
  <2>2. /\ r \in DOMAIN reviews /\ MayFollow(Final(reviews[r].states), state)
        /\ reviews' = [reviews EXCEPT ![r] = row] /\ UNCHANGED <<people, accounts, followups>>
        /\ Log(<<Event(ReviewTold[state], None, None)>>)
    BY <1>9, <2>1 DEF Decide
  <2>3. reviews[r] \in ReviewReads /\ reviews[r].states \in ReviewLives
    BY <2>2 DEF PeopleInv, ReviewReads
  <2>4. /\ life \in ReviewLives /\ Final(reviews[r].states) \in {"REVIEW_REQUIRED", "LINKED"}
        /\ state \in {"LINKED", "REJECTED", "SPLIT"} /\ ~Went(reviews[r].states, state)
        /\ \A st \in {"LINKED", "REJECTED", "SPLIT"} : Went(life, st) <=> Went(reviews[r].states, st) \/ st = state
    BY <2>1, <2>2, <2>3, ReviewGoes
  <2>5. row \in ReviewReads /\ row.account = reviews[r].account /\ row.states = life
    BY <2>1, <2>3, <2>4 DEF ReviewReads
  <2>6. FollowupReads' = FollowupReads /\ ReviewReads' = ReviewReads
    BY <1>2, <2>2 DEF FollowupReads, ReviewReads
  <2>7. DOMAIN reviews' = DOMAIN reviews /\ reviews'[r] = row /\ \A q \in DOMAIN reviews : q # r => reviews'[q] = reviews[q]
    BY <1>1, <2>2, RowChanged
  <2>8. Writes({ReviewTold[state]})
    BY <1>1, <1>2, <2>2, WritesOne
  <2>9. ReviewTold[state] = CASE state = "LINKED" -> "IDENTITY_REVIEW_LINKED" [] state = "REJECTED" -> "IDENTITY_REVIEW_REJECTED"
                              [] OTHER -> "IDENTITY_REVIEW_SPLIT"
    BY <2>4 DEF ReviewTold
  <2>10. \A st \in {"LINKED", "REJECTED", "SPLIT"} :
          Cardinality(Through(reviews', st)) = IF st = state THEN Cardinality(Through(reviews, st)) + 1
                                               ELSE Cardinality(Through(reviews, st))
    <3>3. IsTable(reviews) /\ r \in DOMAIN reviews
      BY <1>1, <2>2
    <3>1. \A st : LET u == [reviews EXCEPT ![r] = row] IN
            /\ (Went(row.states, st) <=> Went(reviews[r].states, st)) => Cardinality(Through(u, st)) = Cardinality(Through(reviews, st))
            /\ Went(row.states, st) /\ ~Went(reviews[r].states, st)
                 => Cardinality(Through(u, st)) = Cardinality(Through(reviews, st)) + 1
      BY <3>3, ThroughChanged
    <3>2. \A st : /\ (Went(life, st) <=> Went(reviews[r].states, st)) => Cardinality(Through(reviews', st)) = Cardinality(Through(reviews, st))
                  /\ Went(life, st) /\ ~Went(reviews[r].states, st)
                       => Cardinality(Through(reviews', st)) = Cardinality(Through(reviews, st)) + 1
      BY <2>2, <2>5, <3>1
    <3> QED
      BY <2>4, <3>2
  <2>11. IsActive(r) /\ \A q \in DOMAIN reviews : IsActive(q)' => IsActive(q)
    BY <2>2, <2>4, <2>7 DEF IsActive
  <2>12. PeopleInv'
    BY <2>2, <2>5, <2>6, <2>7, <2>11 DEF PeopleInv
  <2>13. PeopleTold'
    BY <2>2, <2>4, <2>8, <2>9, <2>10 DEF PeopleTold, Writes, Superseding
  <2>14. ReviewTold[state] \in PeopleWords
    BY <2>4, <2>9 DEF PeopleWords
  <2> QED
    BY <1>1, <1>3, <2>2, <2>8, <2>12, <2>13, <2>14, KeptSame
<1> QED
  BY <1>4, <1>5, <1>6, <1>7, <1>8, <1>9 DEF PeopleStep

-----------------------------------------------------------------------------
(* The claims                                                                *)

ClaimsStep == ClaimStep \/ RightsStep \/ FactStep \/ FanStep \/ ReferenceStep

ScopesInv == \A c \in DOMAIN claims : claims[c].scope \in Scopes

RightsInv == \A c \in DOMAIN claims : claims[c].key[1] = "rights" => RightsReads(claims[c])

ClaimsTold ==
  Tally(events, "EVIDENCE_CLAIM_RECORDED") = Len(claims) + Tally(events, "SESSION_ITEM_PROMOTED")

\* A claim, and each claim it replaces, of the Song of its scope.
LEMMA WritesClaim ==
  ASSUME VersionsInv, IsTable(events), IsTable(claims), UNCHANGED <<songs, versions>>,
         NEW scope, NEW key, NEW source, NEW ref, NEW value, NEW replaces,
         Claim(scope, key, source, ref, value, replaces)
  PROVE  Writes({"EVIDENCE_CLAIM_RECORDED"})
<1>1. Cardinality(replaces) \in Nat
  <2>1. replaces \in SUBSET DOMAIN claims
    BY DEF Claim, ActiveClaims
  <2> QED
    BY <2>1, SomeRows
<1>2. PICK s, v, n :
        /\ n = Cardinality(replaces)
        /\ s = CASE scope[1] = "SONG" -> scope[2]
                 [] scope[1] = "VERSION" -> versions[scope[2]].song
                 [] OTHER -> None
        /\ v = IF scope[1] = "VERSION" THEN scope[2] ELSE None
  OBVIOUS
<1>3. LineReads(s, v)'
  <2>1. LineReads(s, v)
    <3>1. CASE scope = <<"ARTIST", None>>
      BY <1>2, <3>1 DEF LineReads
    <3>2. CASE \E x \in Known : scope = <<"SONG", x>>
      BY <1>2, <3>2 DEF LineReads
    <3>3. CASE \E w \in DOMAIN versions : scope = <<"VERSION", w>>
      BY <1>2, <3>3 DEF LineReads, VersionsInv, VersionRow, VersionsOf
    <3> QED
      BY <3>1, <3>2, <3>3 DEF Claim, Scopes
  <2> QED
    BY <2>1, SameReads
<1>4. PICK d, e, one, rest, es :
        /\ d = Event("EVIDENCE_CLAIM_RECORDED", s, v) /\ e = Event("EVIDENCE_SUPERSESSION_LINKED", s, v)
        /\ one = <<d>> /\ rest = [i \in 1..n |-> e] /\ es = one \o rest
  OBVIOUS
<1>5. d.type = "EVIDENCE_CLAIM_RECORDED" /\ e.type = Superseding
  BY <1>4 DEF Event, Superseding
<1>6. events' = events \o es
  BY <1>2, <1>4 DEF Claim, Log, ClaimEvents
<1>7. IsTable(one) /\ Len(one) = 1 /\ one[1] = d
  BY <1>4, OneRow
<1>8. IsTable(rest) /\ Len(rest) = n /\ \A i \in 1..n : rest[i] = e
  <2>1. n \in Nat /\ rest \in Seq({e})
    <3>1. rest \in [1..n -> {e}]
      BY <1>4
    <3> QED
      BY <3>1, <1>1, <1>2, SeqDef
  <2>2. DOMAIN rest = 1..n
    BY <1>4
  <2>3. IsTable(rest) /\ Len(rest) \in Nat /\ DOMAIN rest = 1..Len(rest)
    BY <2>1, SequenceIsTable
  <2>4. Len(rest) = n
    BY <2>1, <1>4, LenProperties
  <2> QED
    BY <1>4, <2>3, <2>4
<1>9. /\ IsTable(es) /\ Len(es) = 1 + n /\ es[1] = d
      /\ \A i \in 1..n : es[1 + i] = e
  <2>2. IsTable(one) /\ IsTable(rest) /\ es = one \o rest
    BY <1>4, <1>7, <1>8
  <2>1. /\ IsTable(es) /\ Len(es) = Len(one) + Len(rest)
        /\ \A i \in 1..Len(one) : es[i] = one[i]
        /\ \A i \in 1..Len(rest) : es[Len(one) + i] = rest[i]
    BY <2>2, TablesJoined
  <2> QED
    BY <1>7, <1>8, <2>1
<1>10. /\ IsTable(events') /\ DOMAIN events' = 1..(Len(events) + (1 + n))
       /\ DOMAIN events = 1..Len(events) /\ Len(events) \in Nat /\ n \in Nat
       /\ \A i \in DOMAIN events : events'[i] = events[i]
       /\ events'[Len(events) + 1] = d
       /\ \A i \in DOMAIN events' : i \in DOMAIN events \/ i = Len(events) + 1 \/ events'[i] = e
  <2>1. /\ IsTable(events') /\ DOMAIN events' = 1..(Len(events) + Len(es))
        /\ \A i \in 1..Len(events) : events'[i] = events[i]
        /\ \A i \in 1..Len(es) : events'[Len(events) + i] = es[i]
    BY <1>6, <1>9, TablesJoined
  <2>2. Len(events) \in Nat /\ n \in Nat /\ DOMAIN events = 1..Len(events)
    BY <1>1, <1>2, TableIs
  <2>3. ASSUME NEW i \in DOMAIN events' PROVE i \in DOMAIN events \/ i = Len(events) + 1 \/ events'[i] = e
    <3>1. i \in 1..(Len(events) + (1 + n))
      BY <1>9, <2>1
    <3>2. CASE i > Len(events) + 1
      <4>1. PICK j \in 1..n : i = Len(events) + (1 + j)
        <5>1. i - (Len(events) + 1) \in 1..n /\ i = Len(events) + (1 + (i - (Len(events) + 1)))
          BY <2>2, <3>1, <3>2
        <5> QED
          BY <5>1
      <4>2. 1 + j \in 1..Len(es) /\ es[1 + j] = e
        BY <1>9, <2>2, <4>1
      <4>3. events'[Len(events) + (1 + j)] = es[1 + j]
        BY <2>1, <4>2
      <4> QED
        BY <4>1, <4>2, <4>3
    <3> QED
      BY <2>2, <3>1, <3>2
  <2>4. 1 \in 1..Len(es)
    BY <1>9, <2>2
  <2> QED
    BY <1>9, <2>1, <2>2, <2>3, <2>4
<1>11. \A i \in DOMAIN events' : i \in DOMAIN events \/ \E t, r, w : events'[i] = Event(t, r, w) /\ LineReads(r, w)'
  BY <1>3, <1>4, <1>10
<1>12. ASSUME NEW t, t # Superseding
       PROVE  Tally(events', t) = IF t = "EVIDENCE_CLAIM_RECORDED" THEN Tally(events, t) + 1 ELSE Tally(events, t)
  <2>1. PICK A, B : A = {i \in DOMAIN events : events[i].type = t} /\ B = {i \in DOMAIN events' : events'[i].type = t}
    OBVIOUS
  <2>2. B = IF t = "EVIDENCE_CLAIM_RECORDED" THEN A \cup {Len(events) + 1} ELSE A
    BY <1>5, <1>10, <1>12, <2>1
  <2>3. A \in SUBSET DOMAIN events /\ Len(events) + 1 \notin A
    BY <1>10, <2>1
  <2>4. IsFiniteSet(A)
    BY <2>3, SomeRows
  <2>5. Cardinality(B) = IF t = "EVIDENCE_CLAIM_RECORDED" THEN Cardinality(A) + 1 ELSE Cardinality(A)
    BY <2>2, <2>3, <2>4, OneMore
  <2> QED
    BY <2>1, <2>5 DEF Tally
<1> QED
  BY <1>10, <1>11, <1>12 DEF Writes, Kept

LEMMA ClaimsWritten ==
  ASSUME VersionsInv, LinesInv, IsTable(claims), ScopesInv, ClaimsTold, ClaimsStep
  PROVE  /\ ScopesInv' /\ ClaimsTold' /\ Kept(claims, claims', DOMAIN claims)
         /\ \E T \in SUBSET {"EVIDENCE_CLAIM_RECORDED"} : Writes(T)
<1>1. IsTable(events)
  BY DEF LinesInv
<1>2. UNCHANGED <<songs, versions>>
  BY DEF ClaimsStep, ClaimStep, RightsStep, FactStep, FanStep, ReferenceStep, RecordClaim, AskForReference, Observe,
     SendReference, Receive, RecordStage, RecordConsent, RecordContactPoint, ProviderRecords, RecordContactIntent,
     RecordFan, ShowAudience, SendPlan, CreateReference, ReviseReference, Judge, ReferenceObserved, lineageVars, recordVars
<1>3. Scopes' = Scopes
  BY <1>2 DEF Scopes, Known
<1>4. CASE UNCHANGED <<claims, events>>
  <2>1. ScopesInv' /\ ClaimsTold'
    BY <1>3, <1>4 DEF ScopesInv, ClaimsTold
  <2>2. Kept(claims, claims', DOMAIN claims) /\ Writes({})
    BY <1>1, <1>4, KeptSame, WritesNothing
  <2> QED
    BY <2>1, <2>2
<1>5. ASSUME NEW scope, NEW key, NEW source, NEW ref, NEW value, NEW replaces,
             Claim(scope, key, source, ref, value, replaces)
      PROVE  /\ ScopesInv' /\ ClaimsTold' /\ Kept(claims, claims', DOMAIN claims)
             /\ \E T \in SUBSET {"EVIDENCE_CLAIM_RECORDED"} : Writes(T)
  <2>1. Writes({"EVIDENCE_CLAIM_RECORDED"})
    BY <1>1, <1>2, <1>5, WritesClaim
  <2>2. PICK row : row = RowOf(scope, key, source, ref, value, replaces)
    OBVIOUS
  <2>3. row.scope \in Scopes /\ claims' = Append(claims, row)
    BY <1>5, <2>2, RowIs DEF Claim
  <2>4. /\ Len(claims) \in Nat /\ DOMAIN claims = 1..Len(claims) /\ Len(claims') = Len(claims) + 1
        /\ DOMAIN claims' = 1..(Len(claims) + 1) /\ IsTable(claims')
        /\ \A c \in 1..Len(claims) : claims'[c] = claims[c]
        /\ claims'[Len(claims) + 1] = row
    BY <2>3, ClaimAppended
  <2>5. ScopesInv'
    BY <1>3, <2>3, <2>4 DEF ScopesInv
  <2>6. Tally(events, "SESSION_ITEM_PROMOTED") \in Nat
    BY <1>1, TallyAppended
  <2>7. ClaimsTold'
    BY <2>1, <2>4, <2>6 DEF ClaimsTold, Writes, Superseding
  <2>8. Kept(claims, claims', DOMAIN claims)
    BY <2>4 DEF Kept
  <2> QED
    BY <2>1, <2>5, <2>7, <2>8
<1> QED
  BY <1>4, <1>5, ClaimsRecorded DEF ClaimsStep, RecordsClaim

LEMMA ScopesFramed ==
  ASSUME ScopesInv, RowsKept, UNCHANGED claims
  PROVE  ScopesInv'
<1>1. Scopes \subseteq Scopes'
  BY DEF Scopes, RowsKept, Kept
<1> QED
  BY <1>1 DEF ScopesInv

LEMMA RightsKept ==
  ASSUME IsTable(claims), RightsInv, [Next]_vars
  PROVE  RightsInv'
<1>1. CASE UNCHANGED claims
  BY <1>1 DEF RightsInv
<1>2. ASSUME NEW row, Recorded(row) PROVE RightsInv'
  <2>1. row.key[1] = "rights" => RightsReads(row)
    BY <1>2, RowKinds DEF Recorded, RightsRow
  <2>2. /\ \A c \in 1..Len(claims) : claims'[c] = claims[c]
        /\ claims'[Len(claims) + 1] = row /\ DOMAIN claims = 1..Len(claims)
        /\ \A c \in DOMAIN claims' : c \in DOMAIN claims \/ c = Len(claims) + 1
    BY <1>2, ClaimAppended DEF Recorded
  <2> QED
    BY <2>1, <2>2 DEF RightsInv
<1> QED
  BY <1>1, <1>2, ClaimsMove

-----------------------------------------------------------------------------
(* The packages, and what was said of them                                   *)

\* Lines of a Version, and of a Song.
LEMMA TellsVersion ==
  ASSUME VersionsInv, IsTable(events), UNCHANGED <<songs, versions>>,
         NEW type, NEW v \in DOMAIN versions, Log(<<Event(type, versions[v].song, v)>>)
  PROVE  Writes({type})
<1>1. PICK s : s = versions[v].song
  OBVIOUS
<1>2. LineReads(s, v)
  BY <1>1 DEF LineReads, VersionsInv, VersionRow, VersionsOf
<1>3. LineReads(s, v)'
  BY <1>2, SameReads
<1> QED
  BY <1>1, <1>3, WritesOne

LEMMA TellsSong ==
  ASSUME IsTable(events), UNCHANGED <<songs, versions>>,
         NEW type, NEW s \in Known \cup {None}, Log(<<Event(type, s, None)>>)
  PROVE  Writes({type})
<1>1. LineReads(s, None)'
  BY SameReads DEF LineReads
<1> QED
  BY <1>1, WritesOne

PackageReads ==
  [version : {v \in DOMAIN versions : versions[v].assets # {}}, person : people, state : {"PREPARED", "REVOKED"}]

FeedbackReads ==
  [package : DOMAIN packages, state : {"OPEN", "ADDRESSED", "DISMISSED"}, response : DOMAIN versions \cup {None}]

\* What was said of a package was answered by a later Version, or by none.
Answers(rows, row, v) ==
  /\ row.state = "ADDRESSED" <=> row.response # None
  /\ row.state = "ADDRESSED" =>
       rows[row.response].song = rows[v].song /\ rows[row.response].ordinal > rows[v].ordinal

CollaborationInv ==
  /\ \A k \in DOMAIN packages : packages[k] \in PackageReads
  /\ \A j, k \in DOMAIN packages : packages[j] = packages[k] /\ packages[k].state = "PREPARED" => j = k
  /\ \A f \in DOMAIN feedback :
       feedback[f] \in FeedbackReads /\ Answers(versions, feedback[f], packages[feedback[f].package].version)

CollaborationTold ==
  /\ Tally(events, "COLLAB_HANDOFF_PREPARED") = InState(packages, "PREPARED") + Tally(events, "COLLAB_HANDOFF_REVOKED")
  /\ Tally(events, "COLLAB_FEEDBACK_ADDRESSED") = InState(feedback, "ADDRESSED")
  /\ Tally(events, "COLLAB_FEEDBACK_DISMISSED") = InState(feedback, "DISMISSED")

CollaborationWords ==
  {"COLLAB_HANDOFF_PREPARED", "COLLAB_HANDOFF_REVOKED", "COLLAB_FEEDBACK_RECORDED",
   "COLLAB_FEEDBACK_ADDRESSED", "COLLAB_FEEDBACK_DISMISSED"}

LEMMA CollaborationFramed ==
  ASSUME CollaborationInv, CollaborationTold, UNCHANGED handoffVars, RowsKept, people \subseteq people',
         Untold(CollaborationWords)
  PROVE  CollaborationInv' /\ CollaborationTold'
<1>1. CollaborationTold'
  BY DEF CollaborationTold, Untold, CollaborationWords, handoffVars
<1>2. UNCHANGED <<packages, feedback>>
  BY DEF handoffVars
<1>3. \A v \in DOMAIN versions : v \in DOMAIN versions' /\ versions'[v] = versions[v]
  BY DEF RowsKept, Kept
<1>4. PackageReads \subseteq PackageReads' /\ FeedbackReads \subseteq FeedbackReads'
  BY <1>2, <1>3 DEF PackageReads, FeedbackReads
<1>5. ASSUME NEW f \in DOMAIN feedback
      PROVE  feedback[f] \in FeedbackReads' /\ Answers(versions', feedback[f], packages[feedback[f].package].version)
  <2>1. PICK row, v : row = feedback[f] /\ v = packages[feedback[f].package].version
    OBVIOUS
  <2>2. row \in FeedbackReads /\ Answers(versions, row, v)
    BY <2>1 DEF CollaborationInv
  <2>3. v \in DOMAIN versions /\ (row.state = "ADDRESSED" => row.response \in DOMAIN versions)
    BY <2>1, <2>2 DEF CollaborationInv, PackageReads, FeedbackReads, Answers
  <2>4. Answers(versions', row, v)
    BY <1>3, <2>2, <2>3 DEF Answers
  <2> QED
    BY <1>4, <2>1, <2>2, <2>4
<1> QED
  BY <1>1, <1>2, <1>4, <1>5 DEF CollaborationInv

LEMMA CollaborationWritten ==
  ASSUME TablesInv, LinesInv, PointersInv, VersionsInv, CollaborationInv, CollaborationTold, CollaborationStep
  PROVE  CollaborationInv' /\ CollaborationTold' /\ \E T \in SUBSET CollaborationWords : Writes(T)
<1> DEFINE Written == CollaborationInv' /\ CollaborationTold' /\ \E T \in SUBSET CollaborationWords : Writes(T)
<1>1. /\ IsTable(events) /\ IsTable(packages) /\ IsTable(feedback) /\ IsTable(versions)
      /\ UNCHANGED <<songs, versions>> /\ UNCHANGED people
  BY DEF TablesInv, LinesInv, PointersInv, CollaborationStep, PreparePackage, RevokePackage, RecordFeedback, Say,
     AddressFeedback, DismissFeedback, recordVars, peopleVars
<1>2. IsTable(events)
  BY <1>1
<1>3. versions' = versions
  BY <1>1
<1>4. PackageReads' = PackageReads
  BY <1>1 DEF PackageReads
<1>5. ASSUME NEW v, NEW p, PreparePackage(v, p)
      PROVE  Written
  <2>1. PICK row : row = [version |-> v, person |-> p, state |-> "PREPARED"]
    OBVIOUS
  <2>2. /\ v \in DOMAIN versions /\ versions[v].assets # {} /\ p \in people
        /\ \A k \in DOMAIN packages : packages[k] # row
        /\ packages' = Append(packages, row) /\ UNCHANGED feedback
        /\ Log(<<Event("COLLAB_HANDOFF_PREPARED", versions[v].song, v)>>)
    BY <1>5, <2>1 DEF PreparePackage, HandoffEvent, SongOfVersion
  <2>3. Writes({"COLLAB_HANDOFF_PREPARED"})
    BY <1>1, <2>2, TellsVersion
  <2>4. row \in PackageReads /\ row.state = "PREPARED"
    BY <2>1, <2>2 DEF PackageReads
  <2>5. IsTable(packages)
    BY <1>1
  <2>6. /\ Len(packages) \in Nat /\ DOMAIN packages' = 1..(Len(packages) + 1) /\ DOMAIN packages = 1..Len(packages)
        /\ \A k \in DOMAIN packages : packages'[k] = packages[k]
        /\ packages'[Len(packages) + 1] = row
    BY <2>2, <2>5, RowAppended, TableIs
  <2>7. InState(packages', "PREPARED") = InState(packages, "PREPARED") + 1 /\ InState(packages, "PREPARED") \in Nat
    BY <2>2, <2>4, <2>5, InStateAppended
  <2>8. Tally(events, "COLLAB_HANDOFF_REVOKED") \in Nat
    BY <1>2, TallyAppended
  <2>13. /\ Tally(events', "COLLAB_HANDOFF_PREPARED") = Tally(events, "COLLAB_HANDOFF_PREPARED") + 1
         /\ \A t \in CollaborationWords \ {"COLLAB_HANDOFF_PREPARED"} : Tally(events', t) = Tally(events, t)
    BY <2>3 DEF Writes, Superseding, CollaborationWords
  <2>9. CollaborationTold'
    BY <2>2, <2>7, <2>8, <2>13 DEF CollaborationTold, CollaborationWords
  <2>10. FeedbackReads \subseteq FeedbackReads'
    BY <1>1, <2>6 DEF FeedbackReads
  <2>11. ASSUME NEW f \in DOMAIN feedback
         PROVE  feedback[f] \in FeedbackReads' /\ Answers(versions, feedback[f], packages'[feedback[f].package].version)
    <3>1. feedback[f] \in FeedbackReads /\ feedback[f].package \in DOMAIN packages
      BY DEF CollaborationInv, FeedbackReads
    <3>2. packages'[feedback[f].package].version = packages[feedback[f].package].version
      BY <2>6, <3>1
    <3> QED
      BY <2>10, <3>1, <3>2 DEF CollaborationInv
  <2>15. \A k \in DOMAIN packages' : packages'[k] \in PackageReads
    BY <2>4, <2>6 DEF CollaborationInv
  <2>16. ASSUME NEW j \in DOMAIN packages', NEW k \in DOMAIN packages', packages'[j] = packages'[k], packages'[k].state = "PREPARED"
         PROVE  j = k
    <3>1. j \in DOMAIN packages \/ j = Len(packages) + 1
      BY <2>6
    <3>2. k \in DOMAIN packages \/ k = Len(packages) + 1
      BY <2>6
    <3> QED
      BY <2>2, <2>6, <2>16, <3>1, <3>2 DEF CollaborationInv
  <2>12. CollaborationInv'
    BY <1>3, <1>4, <2>2, <2>11, <2>15, <2>16 DEF CollaborationInv
  <2> QED
    BY <2>3, <2>9, <2>12 DEF CollaborationWords
<1>6. ASSUME NEW k, RevokePackage(k)
      PROVE  Written
  <2>1. PICK row, v : row = [packages[k] EXCEPT !.state = "REVOKED"] /\ v = packages[k].version
    OBVIOUS
  <2>2. /\ k \in DOMAIN packages /\ packages[k].state = "PREPARED" /\ packages' = [packages EXCEPT ![k] = row]
        /\ UNCHANGED feedback /\ Log(<<Event("COLLAB_HANDOFF_REVOKED", versions[v].song, v)>>)
    BY <1>6, <2>1 DEF RevokePackage, HandoffEvent, SongOfVersion
  <2>3. packages[k] \in PackageReads
    BY <2>2 DEF CollaborationInv
  <2>4. row \in PackageReads /\ row.state = "REVOKED" /\ row.version = packages[k].version /\ v \in DOMAIN versions
    BY <2>1, <2>3 DEF PackageReads
  <2>5. Writes({"COLLAB_HANDOFF_REVOKED"})
    BY <1>1, <2>2, <2>4, TellsVersion
  <2>6. IsTable(packages)
    BY <1>1
  <2>7. DOMAIN packages' = DOMAIN packages /\ packages'[k] = row /\ \A j \in DOMAIN packages : j # k => packages'[j] = packages[j]
    BY <2>2, <2>6, RowChanged
  <2>14. k \in DOMAIN packages /\ row.state # "PREPARED" /\ packages[k].state = "PREPARED"
    BY <2>2, <2>4
  <2>8. InState(packages', "PREPARED") = InState(packages, "PREPARED") - 1 /\ InState(packages, "PREPARED") \in Nat
    <3>1. k \in DOMAIN packages
      BY <2>2
    <3>2. /\ InState(packages, "PREPARED") \in Nat
          /\ InState([packages EXCEPT ![k] = row], "PREPARED") =
               IF row.state = "PREPARED"
                 THEN IF packages[k].state = "PREPARED" THEN InState(packages, "PREPARED") ELSE InState(packages, "PREPARED") + 1
                 ELSE IF packages[k].state = "PREPARED" THEN InState(packages, "PREPARED") - 1 ELSE InState(packages, "PREPARED")
      BY <2>6, <3>1, InStateChanged
    <3> QED
      BY <2>2, <2>14, <3>2
  <2>9. Tally(events, "COLLAB_HANDOFF_REVOKED") \in Nat
    BY <1>2, TallyAppended
  <2>10. CollaborationTold'
    BY <2>2, <2>5, <2>8, <2>9 DEF CollaborationTold, Writes, Superseding
  <2>11. FeedbackReads' = FeedbackReads
    BY <1>1, <2>7 DEF FeedbackReads
  <2>12. ASSUME NEW f \in DOMAIN feedback
         PROVE  feedback[f] \in FeedbackReads' /\ Answers(versions, feedback[f], packages'[feedback[f].package].version)
    <3>1. feedback[f] \in FeedbackReads /\ feedback[f].package \in DOMAIN packages
      BY DEF CollaborationInv, FeedbackReads
    <3>2. packages'[feedback[f].package].version = packages[feedback[f].package].version
      BY <2>4, <2>7, <3>1
    <3> QED
      BY <2>11, <3>1, <3>2 DEF CollaborationInv
  <2>13. CollaborationInv'
    BY <1>3, <1>4, <2>2, <2>4, <2>7, <2>12 DEF CollaborationInv
  <2> QED
    BY <2>5, <2>10, <2>13 DEF CollaborationWords
<1>7. ASSUME NEW k, RecordFeedback(k)
      PROVE  Written
  <2>1. PICK row, v : row = [package |-> k, state |-> "OPEN", response |-> None] /\ v = packages[k].version
    OBVIOUS
  <2>2. /\ k \in DOMAIN packages /\ feedback' = Append(feedback, row) /\ UNCHANGED packages
        /\ Log(<<Event("COLLAB_FEEDBACK_RECORDED", versions[v].song, v)>>)
    BY <1>7, <2>1 DEF RecordFeedback, Say, HandoffEvent, SongOfVersion
  <2>3. v \in DOMAIN versions
    BY <2>1, <2>2 DEF CollaborationInv, PackageReads
  <2>4. Writes({"COLLAB_FEEDBACK_RECORDED"})
    BY <1>1, <2>2, <2>3, TellsVersion
  <2>5. FeedbackReads' = FeedbackReads
    BY <1>1, <2>2 DEF FeedbackReads
  <2>6. row \in FeedbackReads /\ row.state = "OPEN" /\ Answers(versions, row, packages[row.package].version)
    BY <2>1, <2>2 DEF FeedbackReads, Answers
  <2>7. IsTable(feedback)
    BY <1>1
  <2>8. /\ DOMAIN feedback' = 1..(Len(feedback) + 1) /\ DOMAIN feedback = 1..Len(feedback) /\ Len(feedback) \in Nat
        /\ \A f \in DOMAIN feedback : feedback'[f] = feedback[f]
        /\ feedback'[Len(feedback) + 1] = row
    BY <2>2, <2>7, RowAppended, TableIs
  <2>9. \A st \in {"ADDRESSED", "DISMISSED"} : InState(feedback', st) = InState(feedback, st)
    BY <2>2, <2>6, <2>7, InStateAppended
  <2>10. CollaborationTold'
    BY <2>2, <2>4, <2>9 DEF CollaborationTold, Writes, Superseding
  <2>11. \A f \in DOMAIN feedback' : feedback'[f] \in FeedbackReads /\ Answers(versions, feedback'[f], packages[feedback'[f].package].version)
    BY <2>6, <2>8 DEF CollaborationInv
  <2>13. CollaborationInv'
    BY <1>3, <1>4, <2>2, <2>5, <2>11 DEF CollaborationInv
  <2> QED
    BY <2>4, <2>10, <2>13 DEF CollaborationWords
<1>8. ASSUME NEW f, NEW row, NEW told, NEW v \in DOMAIN versions,
             f \in DOMAIN feedback, feedback[f].state = "OPEN", feedback' = [feedback EXCEPT ![f] = row], UNCHANGED packages,
             row.state \in {"ADDRESSED", "DISMISSED"}, told = IF row.state = "ADDRESSED" THEN "COLLAB_FEEDBACK_ADDRESSED"
                                                                                       ELSE "COLLAB_FEEDBACK_DISMISSED",
             row \in FeedbackReads, Answers(versions, row, packages[row.package].version),
             Log(<<Event(told, versions[v].song, v)>>)
      PROVE  Written
  <2>1. Writes({told})
    BY <1>1, <1>8, TellsVersion
  <2>2. FeedbackReads' = FeedbackReads
    BY <1>1, <1>8 DEF FeedbackReads
  <2>3. IsTable(feedback)
    BY <1>1
  <2>4. DOMAIN feedback' = DOMAIN feedback /\ feedback'[f] = row /\ \A g \in DOMAIN feedback : g # f => feedback'[g] = feedback[g]
    BY <1>8, <2>3, RowChanged
  <2>5. ASSUME NEW st \in {"ADDRESSED", "DISMISSED"}
        PROVE  InState(feedback', st) = IF row.state = st THEN InState(feedback, st) + 1 ELSE InState(feedback, st)
    <3>1. feedback[f].state # st
      BY <1>8
    <3>2. f \in DOMAIN feedback
      BY <1>8
    <3>3. InState([feedback EXCEPT ![f] = row], st) =
            IF row.state = st
              THEN IF feedback[f].state = st THEN InState(feedback, st) ELSE InState(feedback, st) + 1
              ELSE IF feedback[f].state = st THEN InState(feedback, st) - 1 ELSE InState(feedback, st)
      BY <2>3, <3>2, InStateChanged
    <3> QED
      BY <1>8, <3>1, <3>3
  <2>6. CollaborationTold'
    BY <1>8, <2>1, <2>5 DEF CollaborationTold, Writes, Superseding
  <2>7. \A g \in DOMAIN feedback' : feedback'[g] \in FeedbackReads /\ Answers(versions, feedback'[g], packages[feedback'[g].package].version)
    BY <1>8, <2>4 DEF CollaborationInv
  <2>9. CollaborationInv'
    BY <1>3, <1>4, <1>8, <2>2, <2>7 DEF CollaborationInv
  <2>10. told \in CollaborationWords
    BY <1>8 DEF CollaborationWords
  <2> QED
    BY <2>1, <2>6, <2>9, <2>10
<1>9. ASSUME NEW f, NEW w, AddressFeedback(f, w)
      PROVE  Written
  <2>1. PICK row, told : row = [feedback[f] EXCEPT !.state = "ADDRESSED", !.response = w] /\ told = "COLLAB_FEEDBACK_ADDRESSED"
    OBVIOUS
  <2>2. /\ f \in DOMAIN feedback /\ feedback[f].state = "OPEN" /\ w \in DOMAIN versions
        /\ IsLater(w, packages[feedback[f].package].version)
        /\ feedback' = [feedback EXCEPT ![f] = row] /\ UNCHANGED packages
        /\ Log(<<Event(told, versions[w].song, w)>>)
    BY <1>9, <2>1 DEF AddressFeedback, HandoffEvent, SongOfVersion, FeedbackTold
  <2>3. feedback[f] \in FeedbackReads /\ w # None
    BY <1>1, <2>2, TableIs, NoneAssumption DEF CollaborationInv
  <2>4. row \in FeedbackReads /\ row.state = "ADDRESSED" /\ row.response = w /\ row.package = feedback[f].package
    BY <2>1, <2>2, <2>3 DEF FeedbackReads
  <2>5. Answers(versions, row, packages[row.package].version)
    BY <2>2, <2>3, <2>4 DEF Answers, IsLater, SongOfVersion
  <2> QED
    BY <1>8, <2>1, <2>2, <2>4, <2>5
<1>10. ASSUME NEW f, DismissFeedback(f)
      PROVE  Written
  <2>1. PICK row, told, v : row = [feedback[f] EXCEPT !.state = "DISMISSED"] /\ told = "COLLAB_FEEDBACK_DISMISSED"
                            /\ v = packages[feedback[f].package].version
    OBVIOUS
  <2>2. /\ f \in DOMAIN feedback /\ feedback[f].state = "OPEN"
        /\ feedback' = [feedback EXCEPT ![f] = row] /\ UNCHANGED packages
        /\ Log(<<Event(told, versions[v].song, v)>>)
    BY <1>10, <2>1 DEF DismissFeedback, HandoffEvent, SongOfVersion, FeedbackTold
  <2>3. feedback[f] \in FeedbackReads /\ Answers(versions, feedback[f], v)
    BY <2>1, <2>2 DEF CollaborationInv
  <2>4. row \in FeedbackReads /\ row.state = "DISMISSED" /\ row.response = feedback[f].response
        /\ row.package = feedback[f].package
    BY <2>1, <2>3 DEF FeedbackReads
  <2>5. Answers(versions, row, packages[row.package].version)
    BY <2>2, <2>3, <2>4 DEF Answers
  <2>6. v \in DOMAIN versions
    BY <2>1, <2>3 DEF CollaborationInv, PackageReads, FeedbackReads
  <2> QED
    BY <1>8, <2>1, <2>2, <2>4, <2>5, <2>6
<1> QED
  BY <1>5, <1>6, <1>7, <1>9, <1>10 DEF CollaborationStep

-----------------------------------------------------------------------------
(* The work handed over                                                      *)

\* What a package says of its own state, the pointers it was prepared on, and the
\* one it takes the place of.
StateReads(row) ==
  /\ row.state \in {"SUBMITTED", "ACCEPTED"} => row.complete = TRUE
  /\ row.state = "SUBMITTED" => row.receipt = FALSE
  /\ row.state = "ACCEPTED" => row.receipt = TRUE

PointsRead(vs, row) ==
  \A v \in {row.current, row.approved} \ {None} : vs[v].song = vs[row.upstream].song

PriorReads(vs, rows, row, h) ==
  row.supersedes # None =>
    /\ row.supersedes \in 1..(h - 1) /\ rows[row.supersedes].state \in {"RETURNED", "STALE"}
    /\ vs[rows[row.supersedes].upstream].song = vs[row.upstream].song
    /\ rows[row.supersedes].policy = row.policy

ProfessionalInv ==
  \A h \in DOMAIN handoffs :
    /\ handoffs[h] \in HandoffPackage
    /\ StateReads(handoffs[h]) /\ PointsRead(versions, handoffs[h])
    /\ PriorReads(versions, handoffs, handoffs[h], h)

Receipts(rows) == {h \in DOMAIN rows : rows[h].receipt = TRUE}

ProfessionalTold ==
  /\ Tally(events, "PROFESSIONAL_HANDOFF_ACCEPTED") = Cardinality(Receipts(handoffs))
  /\ Tally(events, "PROFESSIONAL_HANDOFF_RETURNED") = InState(handoffs, "RETURNED")
  /\ Tally(events, "PROFESSIONAL_HANDOFF_STALE") = InState(handoffs, "STALE")

ProfessionalWords ==
  {"PROFESSIONAL_HANDOFF_SUBMITTED", "PROFESSIONAL_HANDOFF_RETURNED", "PROFESSIONAL_HANDOFF_ACCEPTED",
   "PROFESSIONAL_HANDOFF_STALE"}

LEMMA ProfessionalFramed ==
  ASSUME TablesInv, ProfessionalInv, ProfessionalTold, UNCHANGED handoffs, RowsKept, Untold(ProfessionalWords)
  PROVE  ProfessionalInv' /\ ProfessionalTold'
<1>1. ProfessionalTold'
  BY DEF ProfessionalTold, Untold, ProfessionalWords
<1>2. \A v \in DOMAIN versions : v \in DOMAIN versions' /\ versions'[v] = versions[v]
  BY DEF RowsKept, Kept
<1>3. HandoffPackage \subseteq HandoffPackage'
  BY <1>2 DEF HandoffPackage
<1>4. Len(handoffs) \in Nat /\ DOMAIN handoffs = 1..Len(handoffs)
  BY TableIs DEF TablesInv
<1>5. ASSUME NEW h \in DOMAIN handoffs
      PROVE  /\ handoffs[h] \in HandoffPackage' /\ StateReads(handoffs[h]) /\ PointsRead(versions', handoffs[h])
             /\ PriorReads(versions', handoffs, handoffs[h], h)
  <2>1. PICK row : row = handoffs[h]
    OBVIOUS
  <2>2. row \in HandoffPackage /\ StateReads(row) /\ PointsRead(versions, row) /\ PriorReads(versions, handoffs, row, h)
    BY <2>1 DEF ProfessionalInv
  <2>3. /\ row.upstream \in DOMAIN versions
        /\ \A v \in {row.current, row.approved} \ {None} : v \in DOMAIN versions
    BY <2>2 DEF HandoffPackage
  <2>4. PointsRead(versions', row)
    BY <1>2, <2>2, <2>3 DEF PointsRead
  <2>5. PriorReads(versions', handoffs, row, h)
    <3>1. SUFFICES ASSUME row.supersedes # None PROVE PriorReads(versions', handoffs, row, h)
      BY DEF PriorReads
    <3>2. PICK p : p = row.supersedes
      OBVIOUS
    <3>3. p \in 1..(h - 1) /\ p \in DOMAIN handoffs
      BY <1>4, <2>2, <3>1, <3>2 DEF PriorReads
    <3>4. handoffs[p].upstream \in DOMAIN versions
      BY <3>3 DEF ProfessionalInv, HandoffPackage
    <3> QED
      BY <1>2, <2>2, <2>3, <3>2, <3>4 DEF PriorReads
  <2> QED
    BY <1>3, <2>1, <2>2, <2>4, <2>5
<1> QED
  BY <1>1, <1>5 DEF ProfessionalInv

\* A package that is there is marked.
LEMMA HandoffMarked ==
  ASSUME TablesInv, LinesInv, VersionsInv, ProfessionalInv, ProfessionalTold,
         NEW h \in DOMAIN handoffs, NEW state \in {"ACCEPTED", "RETURNED", "STALE"}, Mark(h, state),
         handoffs[h].state = "SUBMITTED" \/ (handoffs[h].state = "ACCEPTED" /\ state = "STALE")
  PROVE  ProfessionalInv' /\ ProfessionalTold' /\ \E T \in SUBSET ProfessionalWords : Writes(T)
<1>1. PICK row, v, got : /\ got = (handoffs[h].receipt \/ state = "ACCEPTED") /\ v = handoffs[h].upstream
                         /\ row = [handoffs[h] EXCEPT !.state = state, !.receipt = got, !.since = Len(events) + 1]
  OBVIOUS
<1>2. /\ handoffs' = [handoffs EXCEPT ![h] = row] /\ UNCHANGED <<songs, versions>>
      /\ Log(<<Event(StateTold[state], versions[v].song, v)>>)
  BY <1>1 DEF Mark, StateEvent, recordVars
<1>3. IsTable(events)
  BY DEF LinesInv
<1>4. IsTable(handoffs)
  BY DEF TablesInv
<1>5. Len(events) \in Nat /\ Len(handoffs) \in Nat /\ DOMAIN handoffs = 1..Len(handoffs)
  BY <1>3, <1>4, TableIs
<1>6. handoffs[h] \in HandoffPackage /\ StateReads(handoffs[h]) /\ PointsRead(versions, handoffs[h])
      /\ PriorReads(versions, handoffs, handoffs[h], h)
  BY DEF ProfessionalInv
<1>7. handoffs[h].receipt \in BOOLEAN /\ got \in BOOLEAN /\ v \in DOMAIN versions
  BY <1>1, <1>6 DEF HandoffPackage
<1>8. /\ row \in HandoffPackage /\ row.state = state /\ row.receipt = got
      /\ row.current = handoffs[h].current /\ row.approved = handoffs[h].approved /\ row.upstream = handoffs[h].upstream
      /\ row.supersedes = handoffs[h].supersedes /\ row.policy = handoffs[h].policy /\ row.complete = handoffs[h].complete
  <2>1. PICK old, n : old = handoffs[h] /\ n = Len(events) + 1
    OBVIOUS
  <2>2. row = [old EXCEPT !.state = state, !.receipt = got, !.since = n] /\ old \in HandoffPackage /\ n \in Nat
    BY <1>1, <1>5, <1>6, <2>1
  <2> QED
    BY <1>7, <2>1, <2>2 DEF HandoffPackage
<1>9. StateReads(row)
  BY <1>1, <1>6, <1>8 DEF StateReads
<1>10. PointsRead(versions, row) /\ PriorReads(versions, handoffs, row, h)
  BY <1>6, <1>8 DEF PointsRead, PriorReads
<1>11. DOMAIN handoffs' = DOMAIN handoffs /\ handoffs'[h] = row /\ \A g \in DOMAIN handoffs : g # h => handoffs'[g] = handoffs[g]
  BY <1>2, <1>4, RowChanged
<1>12. HandoffPackage' = HandoffPackage /\ versions' = versions
  BY <1>2, <1>11 DEF HandoffPackage
<1>13. ASSUME NEW g \in DOMAIN handoffs
       PROVE  PriorReads(versions, handoffs', handoffs'[g], g)
  <2>1. PriorReads(versions, handoffs, handoffs'[g], g)
    BY <1>10, <1>11 DEF ProfessionalInv
  <2>2. SUFFICES ASSUME handoffs'[g].supersedes # None PROVE PriorReads(versions, handoffs', handoffs'[g], g)
    BY DEF PriorReads
  <2>3. PICK p : p = handoffs'[g].supersedes
    OBVIOUS
  <2>4. p \in 1..(g - 1) /\ handoffs[p].state \in {"RETURNED", "STALE"}
    BY <2>1, <2>2, <2>3 DEF PriorReads
  <2>5. p \in DOMAIN handoffs /\ p # h
    BY <1>5, <2>4
  <2> QED
    BY <1>11, <2>1, <2>3, <2>5 DEF PriorReads
<1>14. \A g \in DOMAIN handoffs' : handoffs'[g] \in HandoffPackage /\ StateReads(handoffs'[g]) /\ PointsRead(versions, handoffs'[g])
  BY <1>8, <1>9, <1>10, <1>11 DEF ProfessionalInv
<1>15. ProfessionalInv'
  BY <1>11, <1>12, <1>13, <1>14 DEF ProfessionalInv
<1>16. Writes({StateTold[state]})
  BY <1>2, <1>3, <1>7, TellsVersion
<1>17. StateTold[state] = CASE state = "ACCEPTED" -> "PROFESSIONAL_HANDOFF_ACCEPTED"
                            [] state = "RETURNED" -> "PROFESSIONAL_HANDOFF_RETURNED"
                            [] OTHER -> "PROFESSIONAL_HANDOFF_STALE"
  BY DEF StateTold
<1>18. ASSUME NEW st \in {"RETURNED", "STALE"}
       PROVE  InState(handoffs', st) = IF state = st THEN InState(handoffs, st) + 1 ELSE InState(handoffs, st)
  <2>1. InState([handoffs EXCEPT ![h] = row], st) =
          IF row.state = st
            THEN IF handoffs[h].state = st THEN InState(handoffs, st) ELSE InState(handoffs, st) + 1
            ELSE IF handoffs[h].state = st THEN InState(handoffs, st) - 1 ELSE InState(handoffs, st)
    BY <1>4, InStateChanged
  <2>2. handoffs[h].state # st
    OBVIOUS
  <2> QED
    BY <1>2, <1>8, <2>1, <2>2
<1>19. Receipts(handoffs) \in SUBSET DOMAIN handoffs
  BY DEF Receipts
<1>20. IsFiniteSet(Receipts(handoffs)) /\ Cardinality(Receipts(handoffs)) \in Nat
  BY <1>4, <1>19, SomeRows
<1>21. CASE state = "ACCEPTED"
  <2>1. h \notin Receipts(handoffs)
    BY <1>6, <1>21 DEF Receipts, StateReads
  <2>2. Receipts(handoffs') = Receipts(handoffs) \cup {h}
    BY <1>1, <1>8, <1>11, <1>21 DEF Receipts
  <2>3. Cardinality(Receipts(handoffs')) = Cardinality(Receipts(handoffs)) + 1
    BY <1>20, <2>1, <2>2, OneMore
  <2>4. ProfessionalTold'
    BY <1>16, <1>17, <1>18, <1>21, <2>3 DEF ProfessionalTold, Writes, Superseding
  <2> QED
    BY <1>15, <1>16, <1>17, <1>21, <2>4 DEF ProfessionalWords
<1>22. CASE state # "ACCEPTED"
  <2>1. row.receipt = handoffs[h].receipt
    BY <1>1, <1>7, <1>8, <1>22
  <2>2. Receipts(handoffs') = Receipts(handoffs)
    BY <1>11, <2>1 DEF Receipts
  <2>3. ProfessionalTold'
    BY <1>16, <1>17, <1>18, <1>22, <2>2 DEF ProfessionalTold, Writes, Superseding
  <2> QED
    BY <1>15, <1>16, <1>17, <1>22, <2>3 DEF ProfessionalWords
<1> QED
  BY <1>21, <1>22

LEMMA HandoffSubmitted ==
  ASSUME TablesInv, LinesInv, PointersInv, VersionsInv, ProfessionalInv, ProfessionalTold,
         NEW policy \in Policy, NEW v \in DOMAIN versions, NEW complete \in BOOLEAN,
         NEW prior \in DOMAIN handoffs \cup {None}, Submit(policy, v, complete, prior)
  PROVE  ProfessionalInv' /\ ProfessionalTold' /\ \E T \in SUBSET ProfessionalWords : Writes(T)
<1>1. PICK s, state, row :
        /\ s = versions[v].song /\ state = IF complete THEN "SUBMITTED" ELSE "RETURNED"
        /\ row = [upstream |-> v, policy |-> policy, current |-> songs[s].current, approved |-> songs[s].approved,
                  complete |-> complete, supersedes |-> prior, state |-> state, receipt |-> FALSE,
                  since |-> Len(events) + 1]
  OBVIOUS
<1>2. /\ handoffs' = Append(handoffs, row) /\ UNCHANGED <<songs, versions>>
      /\ Log(<<Event(StateTold[state], versions[v].song, v)>>)
      /\ prior # None => /\ prior \in DOMAIN handoffs /\ Closed(prior)
                         /\ SongOf(prior) = versions[v].song /\ handoffs[prior].policy = policy
  BY <1>1 DEF Submit, StateEvent, recordVars
<1>3. IsTable(events) /\ IsTable(versions)
  BY DEF LinesInv, PointersInv
<1>4. IsTable(handoffs)
  BY DEF TablesInv
<1>5. /\ Len(handoffs) \in Nat /\ DOMAIN handoffs = 1..Len(handoffs) /\ DOMAIN handoffs' = 1..(Len(handoffs) + 1)
      /\ \A h \in DOMAIN handoffs : handoffs'[h] = handoffs[h]
      /\ handoffs'[Len(handoffs) + 1] = row
  BY <1>2, <1>4, RowAppended, TableIs
<1>6. s \in Known /\ Len(events) \in Nat
  BY <1>1, <1>3, TableIs DEF VersionsInv, VersionRow
<1>7. \A w \in {songs[s].current, songs[s].approved} \ {None} : w \in DOMAIN versions /\ versions[w].song = s
  BY <1>6 DEF VersionsInv, VersionsOf
<1>8. HandoffPackage \subseteq HandoffPackage'
  BY <1>2, <1>5 DEF HandoffPackage
<1>9. row \in HandoffPackage
  <2>1. songs[s].current \in DOMAIN versions \cup {None} /\ songs[s].approved \in DOMAIN versions \cup {None}
    BY <1>7
  <2> QED
    BY <1>1, <1>6, <2>1 DEF HandoffPackage
<1>10. /\ row.state = state /\ row.receipt = FALSE /\ row.complete = complete /\ row.upstream = v /\ row.policy = policy
       /\ row.supersedes = prior /\ row.current = songs[s].current /\ row.approved = songs[s].approved
  BY <1>1
<1>11. StateReads(row)
  BY <1>1, <1>10 DEF StateReads
<1>12. PointsRead(versions, row)
  BY <1>1, <1>7, <1>10 DEF PointsRead
<1>13. PriorReads(versions, handoffs', row, Len(handoffs) + 1)
  BY <1>2, <1>5, <1>10 DEF PriorReads, Closed, SongOf
<1>14. ASSUME NEW h \in DOMAIN handoffs PROVE PriorReads(versions, handoffs', handoffs'[h], h)
  <2>1. PriorReads(versions, handoffs, handoffs[h], h) /\ handoffs'[h] = handoffs[h]
    BY <1>5 DEF ProfessionalInv
  <2>2. handoffs[h].supersedes # None => handoffs[h].supersedes \in DOMAIN handoffs
    BY <1>5, <2>1 DEF PriorReads
  <2> QED
    BY <1>5, <2>1, <2>2 DEF PriorReads
<1>15. ProfessionalInv'
  BY <1>2, <1>5, <1>8, <1>9, <1>11, <1>12, <1>13, <1>14 DEF ProfessionalInv
<1>16. Writes({StateTold[state]})
  BY <1>2, <1>3, TellsVersion
<1>17. StateTold[state] = IF state = "SUBMITTED" THEN "PROFESSIONAL_HANDOFF_SUBMITTED" ELSE "PROFESSIONAL_HANDOFF_RETURNED"
  BY <1>1 DEF StateTold
<1>18. \A st : InState(handoffs', st) = IF state = st THEN InState(handoffs, st) + 1 ELSE InState(handoffs, st)
  BY <1>2, <1>4, <1>10, InStateAppended
<1>19. Receipts(handoffs') = Receipts(handoffs)
  BY <1>5, <1>10 DEF Receipts
<1>20. ProfessionalTold'
  <2>1. state \in {"SUBMITTED", "RETURNED"}
    BY <1>1
  <2> QED
    BY <1>16, <1>17, <1>18, <1>19, <2>1 DEF ProfessionalTold, Writes, Superseding
<1> QED
  BY <1>15, <1>16, <1>17, <1>20 DEF ProfessionalWords

LEMMA ProfessionalWritten ==
  ASSUME TablesInv, LinesInv, PointersInv, VersionsInv, ProfessionalInv, ProfessionalTold, ProfessionalStep
  PROVE  ProfessionalInv' /\ ProfessionalTold' /\ \E T \in SUBSET ProfessionalWords : Writes(T)
<1> DEFINE Written == ProfessionalInv' /\ ProfessionalTold' /\ \E T \in SUBSET ProfessionalWords : Writes(T)
<1>1. ASSUME NEW policy \in Policy, NEW v \in DOMAIN versions, NEW complete \in BOOLEAN,
             NEW prior \in DOMAIN handoffs \cup {None}, Submit(policy, v, complete, prior)
      PROVE  Written
  BY <1>1, HandoffSubmitted
<1>2. ASSUME NEW h \in DOMAIN handoffs, Accept(h)
      PROVE  Written
  <2>1. PICK state \in {"ACCEPTED", "STALE"} : Mark(h, state) /\ handoffs[h].state = "SUBMITTED"
    BY <1>2 DEF Accept
  <2> QED
    BY <2>1, HandoffMarked
<1>3. ASSUME NEW h \in DOMAIN handoffs, ReturnSubmission(h)
      PROVE  Written
  BY <1>3, HandoffMarked DEF ReturnSubmission
<1>4. ASSUME NEW h \in DOMAIN handoffs, VerifyFreshness(h)
      PROVE  Written
  <2>1. handoffs[h].state \in {"SUBMITTED", "ACCEPTED"} /\ Mark(h, "STALE")
    BY <1>4 DEF VerifyFreshness, Closed, ProfessionalInv, HandoffPackage
  <2> QED
    BY <2>1, HandoffMarked
<1> QED
  BY <1>1, <1>2, <1>3, <1>4 DEF ProfessionalStep

-----------------------------------------------------------------------------
(* The credits and the sheets of a split                                     *)

SheetReads(row) ==
  /\ row.song \in Known /\ row.state \in SheetState /\ row.shares \in [Person -> {0} \cup Share]
  /\ \A p \in Person : row.shares[p] > 0 => p \in people
  /\ Total(row.shares) <= Whole
  /\ row.state = "OPEN_CONFIRMATION" => Total(row.shares) = Whole
  /\ row.state = "DRAFT" => DOMAIN row.said = {}
  /\ \A i \in DOMAIN row.said : row.said[i].person \in Person /\ row.shares[row.said[i].person] > 0

CreditsInv ==
  /\ IsTable(credits) /\ \A i \in DOMAIN credits : credits[i] \in [song : Known, person : people]
  /\ \A k \in DOMAIN sheets : SheetReads(sheets[k])
  /\ \A j, k \in DOMAIN sheets : SheetOn(j) /\ SheetOn(k) /\ sheets[j].song = sheets[k].song => j = k

CreditsTold ==
  /\ Tally(events, "COMPOSITION_SPLIT_DRAFT_CREATED") = Len(sheets)
  /\ Tally(events, "COMPOSITION_SPLIT_VOIDED") = InState(sheets, "VOIDED")

CreditsWords ==
  {"SONG_CREDIT_RECORDED", "COMPOSITION_SPLIT_DRAFT_CREATED", "COMPOSITION_SPLIT_SUBMITTED",
   "COMPOSITION_SPLIT_CONFIRMATION_RECORDED", "COMPOSITION_SPLIT_VOIDED"}

LEMMA SheetsStillRead ==
  ASSUME Known \subseteq Known', people \subseteq people', NEW row, SheetReads(row)
  PROVE  SheetReads(row)'
BY DEF SheetReads

LEMMA CreditsFramed ==
  ASSUME CreditsInv, CreditsTold, UNCHANGED creditVars, Known \subseteq Known', people \subseteq people',
         Untold(CreditsWords)
  PROVE  CreditsInv' /\ CreditsTold'
<1>1. CreditsTold'
  BY DEF CreditsTold, Untold, CreditsWords, creditVars
<1>2. UNCHANGED <<credits, sheets>>
  BY DEF creditVars
<1>3. ASSUME NEW k \in DOMAIN sheets PROVE SheetReads(sheets[k])'
  <2>1. PICK row : row = sheets[k]
    OBVIOUS
  <2>2. SheetReads(row)'
    BY <2>1, SheetsStillRead DEF CreditsInv
  <2> QED
    BY <1>2, <2>1, <2>2
<1>4. \A k : SheetOn(k)' <=> SheetOn(k)
  BY <1>2 DEF SheetOn
<1>5. [song : Known, person : people] \subseteq [song : Known, person : people]'
  OBVIOUS
<1> QED
  BY <1>1, <1>2, <1>3, <1>4, <1>5 DEF CreditsInv

\* A sheet that is on becomes another row.
LEMMA SheetPut ==
  ASSUME TablesInv, CreditsInv, CreditsTold, UNCHANGED <<songs, people, credits>>,
         NEW k \in DOMAIN sheets, SheetOn(k), NEW row, sheets' = [sheets EXCEPT ![k] = row],
         SheetReads(row), row.song = sheets[k].song,
         NEW T \in SUBSET CreditsWords, Writes(T), "COMPOSITION_SPLIT_DRAFT_CREATED" \notin T,
         "COMPOSITION_SPLIT_VOIDED" \in T <=> row.state = "VOIDED"
  PROVE  CreditsInv' /\ CreditsTold'
<1>1. IsTable(sheets)
  BY DEF TablesInv
<1>2. Known' = Known
  BY DEF Known
<1>3. /\ DOMAIN sheets' = DOMAIN sheets /\ Len(sheets') = Len(sheets) /\ sheets'[k] = row
      /\ \A j \in DOMAIN sheets : j # k => sheets'[j] = sheets[j]
  BY <1>1, RowChanged
<1>4. ASSUME NEW j \in DOMAIN sheets' PROVE SheetReads(sheets[j])'
  <2>1. PICK now : now = sheets'[j] /\ SheetReads(now)
    BY <1>3 DEF CreditsInv
  <2>2. SheetReads(now)'
    BY <1>2, <2>1, SheetsStillRead
  <2> QED
    BY <2>1, <2>2
<1>5. \A j \in DOMAIN sheets : (SheetOn(j)' => SheetOn(j)) /\ sheets'[j].song = sheets[j].song
  BY <1>3 DEF SheetOn
<1>6. CreditsInv'
  BY <1>2, <1>3, <1>4, <1>5 DEF CreditsInv
<1>7. InState([sheets EXCEPT ![k] = row], "VOIDED") =
        IF row.state = "VOIDED"
          THEN IF sheets[k].state = "VOIDED" THEN InState(sheets, "VOIDED") ELSE InState(sheets, "VOIDED") + 1
          ELSE IF sheets[k].state = "VOIDED" THEN InState(sheets, "VOIDED") - 1 ELSE InState(sheets, "VOIDED")
  <2>1. PICK rows, i, now : rows = sheets /\ i = k /\ now = row /\ IsTable(rows) /\ i \in DOMAIN rows
    BY <1>1
  <2>2. InState([rows EXCEPT ![i] = now], "VOIDED") =
          IF now.state = "VOIDED"
            THEN IF rows[i].state = "VOIDED" THEN InState(rows, "VOIDED") ELSE InState(rows, "VOIDED") + 1
            ELSE IF rows[i].state = "VOIDED" THEN InState(rows, "VOIDED") - 1 ELSE InState(rows, "VOIDED")
    BY ONLY <2>1, InStateChanged
  <2> QED
    BY <2>1, <2>2
<1>8. InState(sheets', "VOIDED") = IF row.state = "VOIDED" THEN InState(sheets, "VOIDED") + 1 ELSE InState(sheets, "VOIDED")
  BY <1>7 DEF SheetOn
<1>9. CreditsTold'
  BY <1>3, <1>8 DEF CreditsTold, Writes, Superseding
<1> QED
  BY <1>6, <1>9

LEMMA SheetVoided ==
  ASSUME TablesInv, SheetsInv, LinesInv, CreditsInv, CreditsTold, UNCHANGED <<songs, versions, people>>,
         NEW k, VoidSplit(k)
  PROVE  CreditsInv' /\ CreditsTold' /\ \E T \in SUBSET CreditsWords : Writes(T)
<1>1. PICK row, s : row = [sheets[k] EXCEPT !.state = "VOIDED"] /\ s = sheets[k].song
  OBVIOUS
<1>2. /\ k \in DOMAIN sheets /\ SheetOn(k) /\ sheets' = [sheets EXCEPT ![k] = row] /\ UNCHANGED credits
      /\ Log(<<Event("COMPOSITION_SPLIT_VOIDED", s, None)>>)
  BY <1>1 DEF VoidSplit, SplitEvent
<1>3. SheetReads(sheets[k])
  BY <1>2 DEF CreditsInv
<1>4. /\ row.state = "VOIDED" /\ row.song = s /\ row.shares = sheets[k].shares /\ row.said = sheets[k].said
  BY <1>1, <1>2 DEF SheetsInv
<1>5. SheetReads(row) /\ s \in Known
  BY <1>1, <1>3, <1>4 DEF SheetReads, SheetState
<1>6. Writes({"COMPOSITION_SPLIT_VOIDED"})
  BY <1>2, <1>5, TellsSong DEF LinesInv
<1>7. /\ {"COMPOSITION_SPLIT_VOIDED"} \in SUBSET CreditsWords
      /\ "COMPOSITION_SPLIT_DRAFT_CREATED" \notin {"COMPOSITION_SPLIT_VOIDED"}
      /\ "COMPOSITION_SPLIT_VOIDED" \in {"COMPOSITION_SPLIT_VOIDED"} <=> row.state = "VOIDED"
  BY <1>4 DEF CreditsWords
<1> QED
  BY <1>1, <1>2, <1>4, <1>5, <1>6, <1>7, SheetPut

LEMMA SheetCalled ==
  ASSUME TablesInv, SheetsInv, FormsInv, LinesInv, PeopleInv, CreditsInv, CreditsTold, UNCHANGED <<songs, versions, people>>,
         NEW f \in offered, NEW typed \in TypedIn(f), Call(f, typed[1], typed[2])
  PROVE  CreditsInv' /\ CreditsTold' /\ \E T \in SUBSET CreditsWords : Writes(T)
<1>0. PICK k, shares, status : k = f.sheet /\ shares = typed[1] /\ status = typed[2]
  OBVIOUS
<1>1. IsTable(events) /\ IsTable(credits) /\ Known' = Known
  BY DEF LinesInv, CreditsInv, Known
<1>2. IsTable(sheets)
  BY DEF TablesInv
<1>3. CASE f.kind = "CREDIT"
  <2>1. PICK row, s : row = [song |-> f.song, person |-> f.person] /\ s = f.song
    OBVIOUS
  <2>2. /\ s \in Known /\ f.person \in people /\ credits' = Append(credits, row) /\ UNCHANGED sheets
        /\ Log(<<Event("SONG_CREDIT_RECORDED", s, None)>>)
    BY <1>3, <2>1 DEF Call, RecordCredit
  <2>3. Writes({"SONG_CREDIT_RECORDED"})
    BY <1>1, <2>2, TellsSong
  <2>4. IsTable(credits)
    BY <1>1
  <2>5. /\ IsTable(credits') /\ DOMAIN credits' = 1..(Len(credits) + 1) /\ DOMAIN credits = 1..Len(credits)
        /\ Len(credits) \in Nat /\ credits'[Len(credits) + 1] = row
        /\ \A i \in DOMAIN credits : credits'[i] = credits[i]
    BY <2>2, <2>4, RowAppended, TableIs
  <2>6. \A i \in DOMAIN credits' : credits'[i] \in [song : Known, person : people]
    BY <2>1, <2>2, <2>5 DEF CreditsInv
  <2>7. \A j : (SheetReads(sheets[j])' <=> SheetReads(sheets[j])) /\ (SheetOn(j)' <=> SheetOn(j))
    BY <1>1, <2>2 DEF SheetReads, SheetOn
  <2>8. CreditsInv'
    BY <1>1, <2>2, <2>5, <2>6, <2>7 DEF CreditsInv
  <2>9. CreditsTold'
    BY <2>2, <2>3 DEF CreditsTold, Writes, Superseding
  <2> QED
    BY <2>3, <2>8, <2>9 DEF CreditsWords
<1>4. CASE f.kind = "CREATE"
  <2>1. PICK row, s : s = f.song /\ row = [song |-> s, state |-> "DRAFT", saved |-> 0, said |-> <<>>,
                                           shares |-> [p \in Person |-> 0]]
    OBVIOUS
  <2>2. /\ s \in Known /\ ActiveSheets(s) = {} /\ sheets' = Append(sheets, row) /\ UNCHANGED credits
        /\ Log(<<Event("COMPOSITION_SPLIT_DRAFT_CREATED", s, None)>>)
    BY <1>4, <2>1 DEF Call, CreateSplitDraft
  <2>3. Writes({"COMPOSITION_SPLIT_DRAFT_CREATED"})
    BY <1>1, <2>2, TellsSong
  <2>4. /\ Len(sheets) \in Nat /\ Len(sheets') = Len(sheets) + 1 /\ DOMAIN sheets' = 1..(Len(sheets) + 1)
        /\ DOMAIN sheets = 1..Len(sheets) /\ sheets'[Len(sheets) + 1] = row
        /\ \A j \in DOMAIN sheets : sheets'[j] = sheets[j]
    BY <1>2, <2>2, RowAppended, TableIs
  <2>5. /\ row.song = s /\ row.state = "DRAFT" /\ DOMAIN row.said = {} /\ \A p \in Person : row.shares[p] = 0
        /\ row.shares \in [Person -> {0} \cup Share]
    BY <2>1
  <2>6. Total(row.shares) = 0
    BY <2>5, NothingShared
  <2>7. SheetReads(row)
    BY <2>2, <2>5, <2>6, ShareAssumption DEF SheetReads, SheetState
  <2>8. ASSUME NEW j \in DOMAIN sheets' PROVE SheetReads(sheets[j])'
    <3>1. PICK now : now = sheets'[j] /\ SheetReads(now)
      BY <2>4, <2>7 DEF CreditsInv
    <3>2. SheetReads(now)'
      BY <1>1, <3>1, SheetsStillRead
    <3> QED
      BY <3>1, <3>2
  <2>9. \A j \in DOMAIN sheets : sheets[j].song = s => ~SheetOn(j)
    BY <2>2 DEF ActiveSheets, SheetsOf
  <2>10. ASSUME NEW i \in DOMAIN sheets', NEW j \in DOMAIN sheets', SheetOn(i)', SheetOn(j)', sheets'[i].song = sheets'[j].song
         PROVE  i = j
    <3>1. i \in DOMAIN sheets \/ i = Len(sheets) + 1
      BY <2>4
    <3>2. j \in DOMAIN sheets \/ j = Len(sheets) + 1
      BY <2>4
    <3>3. \A x \in DOMAIN sheets : SheetOn(x)' <=> SheetOn(x)
      BY <2>4 DEF SheetOn
    <3> QED
      BY <2>4, <2>5, <2>9, <2>10, <3>1, <3>2, <3>3 DEF CreditsInv
  <2>11. CreditsInv'
    BY <1>1, <2>2, <2>8, <2>10 DEF CreditsInv
  <2>12. InState(sheets', "VOIDED") = InState(sheets, "VOIDED")
    BY <1>2, <2>2, <2>5, InStateAppended
  <2>13. CreditsTold'
    BY <2>3, <2>4, <2>12 DEF CreditsTold, Writes, Superseding
  <2> QED
    BY <2>3, <2>11, <2>13 DEF CreditsWords
<1>5. CASE f.kind = "SAVE"
  <2>1. PICK saved : saved = IF \E p \in Person : shares[p] > 0 THEN sheets[k].saved + 1 ELSE sheets[k].saved
    OBVIOUS
  <2>2. PICK row : row = [sheets[k] EXCEPT !.shares = shares, !.saved = saved]
    OBVIOUS
  <2>3. SetDraftAllocations(k, shares)
    BY <1>0, <1>5 DEF Call
  <2>4. /\ k \in DOMAIN sheets /\ sheets[k].state = "DRAFT" /\ sheets' = [sheets EXCEPT ![k] = row] /\ UNCHANGED <<credits, events>>
        /\ {p \in Person : shares[p] > 0} \subseteq people /\ Total(shares) <= Whole
    BY <2>1, <2>2, <2>3 DEF SetDraftAllocations
  <2>5. row.shares = shares /\ row.said = sheets[k].said /\ row.song = sheets[k].song /\ row.state = "DRAFT"
    BY <2>2, <2>4 DEF SheetsInv
  <2>6. shares \in [Person -> {0} \cup Share]
    <3>1. typed \in [Person -> {0} \cup Share] \X {None}
      BY <1>5 DEF TypedIn
    <3> QED
      BY <1>0, <3>1
  <2>7. SheetReads(sheets[k])
    BY <2>4 DEF CreditsInv
  <2>8. SheetReads(row)
    BY <2>4, <2>5, <2>6, <2>7 DEF SheetReads
  <2>9. Writes({})
    BY <1>1, <2>4, WritesNothing
  <2>10. SheetOn(k)
    BY <2>4 DEF SheetOn
  <2>11. PICK T : T = {}
    OBVIOUS
  <2>12. /\ T \in SUBSET CreditsWords /\ "COMPOSITION_SPLIT_DRAFT_CREATED" \notin T /\ "COMPOSITION_SPLIT_VOIDED" \notin T
         /\ Writes(T) /\ UNCHANGED <<songs, people, credits>>
    BY <2>4, <2>9, <2>11
  <2>13. CreditsInv' /\ CreditsTold'
    BY <2>4, <2>5, <2>8, <2>10, <2>12, SheetPut
  <2> QED
    BY <2>12, <2>13
<1>6. CASE f.kind = "SUBMIT"
  <2>1. PICK row, s, T : row = [sheets[k] EXCEPT !.state = "OPEN_CONFIRMATION"] /\ s = sheets[k].song
                         /\ T = {"COMPOSITION_SPLIT_SUBMITTED"}
    OBVIOUS
  <2>2. SubmitSplit(k)
    BY <1>0, <1>6 DEF Call
  <2>3. /\ k \in DOMAIN sheets /\ sheets[k].state = "DRAFT" /\ sheets' = [sheets EXCEPT ![k] = row] /\ UNCHANGED credits
        /\ Total(sheets[k].shares) = Whole /\ Log(<<Event("COMPOSITION_SPLIT_SUBMITTED", s, None)>>)
    BY <2>1, <2>2 DEF SubmitSplit, SplitEvent
  <2>4. row.shares = sheets[k].shares /\ row.said = sheets[k].said /\ row.song = s /\ row.state = "OPEN_CONFIRMATION"
    BY <2>1, <2>3 DEF SheetsInv
  <2>5. SheetReads(sheets[k])
    BY <2>3 DEF CreditsInv
  <2>6. SheetReads(row) /\ s \in Known
    BY <2>1, <2>3, <2>4, <2>5 DEF SheetReads, SheetState
  <2>7. Writes(T)
    BY <1>1, <2>1, <2>3, <2>6, TellsSong
  <2>8. SheetOn(k) /\ T \in SUBSET CreditsWords /\ "COMPOSITION_SPLIT_DRAFT_CREATED" \notin T /\ "COMPOSITION_SPLIT_VOIDED" \notin T
    BY <2>1, <2>3 DEF SheetOn, CreditsWords
  <2>9. CreditsInv' /\ CreditsTold'
    BY <2>1, <2>3, <2>4, <2>6, <2>7, <2>8, SheetPut
  <2> QED
    BY <2>7, <2>8, <2>9
<1>7. CASE f.kind = "CONFIRM"
  <2>1. PICK word, said, s, T : word = [person |-> f.person, status |-> status] /\ said = Append(sheets[k].said, word)
                             /\ s = sheets[k].song /\ T = {"COMPOSITION_SPLIT_CONFIRMATION_RECORDED"}
    OBVIOUS
  <2>2. PICK row : row = [sheets[k] EXCEPT !.said = said]
    OBVIOUS
  <2>3. RecordConfirmation(k, f.person, status)
    BY <1>0, <1>7 DEF Call
  <2>4. /\ k \in DOMAIN sheets /\ sheets[k].state = "OPEN_CONFIRMATION" /\ sheets' = [sheets EXCEPT ![k] = row]
        /\ UNCHANGED credits /\ f.person \in Person /\ sheets[k].shares[f.person] > 0
        /\ Log(<<Event("COMPOSITION_SPLIT_CONFIRMATION_RECORDED", s, None)>>)
    BY <2>1, <2>2, <2>3 DEF RecordConfirmation, SplitEvent, Participants
  <2>5. row.shares = sheets[k].shares /\ row.said = said /\ row.song = s /\ row.state = "OPEN_CONFIRMATION"
    BY <2>1, <2>2, <2>4 DEF SheetsInv
  <2>6. SheetReads(sheets[k]) /\ IsTable(sheets[k].said)
    BY <2>4 DEF CreditsInv, FormsInv, SheetRow
  <2>7. \A i \in DOMAIN said : said[i].person \in Person /\ sheets[k].shares[said[i].person] > 0
    <3>1. PICK old : old = sheets[k].said
      OBVIOUS
    <3>2. IsTable(old)
      BY <2>6, <3>1
    <3>3. /\ DOMAIN said = 1..(Len(old) + 1) /\ DOMAIN old = 1..Len(old) /\ Len(old) \in Nat /\ said[Len(old) + 1] = word
          /\ \A i \in DOMAIN old : said[i] = old[i]
      BY <2>1, <3>1, <3>2, RowAppended, TableIs
    <3>4. \A i \in DOMAIN old : old[i].person \in Person /\ sheets[k].shares[old[i].person] > 0
      BY <2>6, <3>1 DEF SheetReads
    <3>5. word.person = f.person
      BY <2>1
    <3> QED
      BY <2>4, <3>3, <3>4, <3>5
  <2>8. SheetReads(row) /\ s \in Known
    BY <2>1, <2>4, <2>5, <2>6, <2>7 DEF SheetReads
  <2>9. Writes(T)
    BY <1>1, <2>1, <2>4, <2>8, TellsSong
  <2>10. SheetOn(k) /\ T \in SUBSET CreditsWords /\ "COMPOSITION_SPLIT_DRAFT_CREATED" \notin T /\ "COMPOSITION_SPLIT_VOIDED" \notin T
    BY <2>1, <2>4 DEF SheetOn, CreditsWords
  <2>11. CreditsInv' /\ CreditsTold'
    BY <2>1, <2>4, <2>5, <2>8, <2>9, <2>10, SheetPut
  <2> QED
    BY <2>9, <2>10, <2>11
<1>8. CASE f.kind = "VOID"
  BY <1>8, SheetVoided DEF Call
<1> QED
  BY <1>3, <1>4, <1>5, <1>6, <1>7, <1>8 DEF SheetsInv

LEMMA CreditsWritten ==
  ASSUME TablesInv, SheetsInv, FormsInv, LinesInv, PeopleInv, CreditsInv, CreditsTold, CreditsStep
  PROVE  CreditsInv' /\ CreditsTold' /\ \E T \in SUBSET CreditsWords : Writes(T)
<1>1. /\ UNCHANGED <<songs, versions, people>>
  BY DEF CreditsStep, Offer, Send, recordVars, peopleVars, lineageVars
<1>2. IsTable(events)
  BY DEF LinesInv
<1>3. CASE UNCHANGED <<credits, sheets, events>>
  <2>1. Writes({})
    BY <1>2, <1>3, WritesNothing
  <2>2. Known' = Known /\ \A k : SheetOn(k)' <=> SheetOn(k)
    BY <1>1, <1>3 DEF Known, SheetOn
  <2>3. \A k : SheetReads(sheets[k])' <=> SheetReads(sheets[k])
    BY <1>1, <1>3, <2>2 DEF SheetReads
  <2>4. CreditsInv' /\ CreditsTold'
    BY <1>1, <1>3, <2>2, <2>3 DEF CreditsInv, CreditsTold
  <2> QED
    BY <2>1, <2>4
<1>4. ASSUME NEW s, NEW p, RecordCredit(s, p)
      PROVE  CreditsInv' /\ CreditsTold' /\ \E T \in SUBSET CreditsWords : Writes(T)
  <2>1. PICK row : row = [song |-> s, person |-> p]
    OBVIOUS
  <2>2. /\ s \in Known /\ p \in people /\ credits' = Append(credits, row) /\ UNCHANGED sheets
        /\ Log(<<Event("SONG_CREDIT_RECORDED", s, None)>>)
    BY <1>4, <2>1 DEF RecordCredit
  <2>3. Writes({"SONG_CREDIT_RECORDED"})
    BY <1>1, <1>2, <2>2, TellsSong
  <2>4. IsTable(credits) /\ Known' = Known
    BY <1>1 DEF CreditsInv, Known
  <2>5. IsTable(credits)
    BY <2>4
  <2>6. /\ IsTable(credits') /\ DOMAIN credits' = 1..(Len(credits) + 1) /\ DOMAIN credits = 1..Len(credits)
        /\ Len(credits) \in Nat /\ credits'[Len(credits) + 1] = row
        /\ \A i \in DOMAIN credits : credits'[i] = credits[i]
    BY <2>2, <2>5, RowAppended, TableIs
  <2>7. \A i \in DOMAIN credits' : credits'[i] \in [song : Known, person : people]
    BY <2>1, <2>2, <2>6 DEF CreditsInv
  <2>8. \A j : (SheetReads(sheets[j])' <=> SheetReads(sheets[j])) /\ (SheetOn(j)' <=> SheetOn(j))
    BY <1>1, <2>2, <2>4 DEF SheetReads, SheetOn
  <2>9. CreditsInv'
    BY <1>1, <2>2, <2>4, <2>6, <2>7, <2>8 DEF CreditsInv
  <2>10. CreditsTold'
    BY <2>2, <2>3 DEF CreditsTold, Writes, Superseding
  <2> QED
    BY <2>3, <2>9, <2>10 DEF CreditsWords
<1>5. ASSUME NEW k, VoidSplit(k)
      PROVE  CreditsInv' /\ CreditsTold' /\ \E T \in SUBSET CreditsWords : Writes(T)
  BY <1>1, <1>5, SheetVoided
<1>6. ASSUME NEW f, Offer(f) PROVE UNCHANGED <<credits, sheets, events>>
  BY <1>6 DEF Offer, lineageVars
<1>7. ASSUME NEW f \in offered, NEW typed \in TypedIn(f), Send(f, typed[1], typed[2])
      PROVE  Call(f, typed[1], typed[2]) \/ UNCHANGED <<credits, sheets, events>>
  BY <1>7 DEF Send
<1> QED
  BY <1>1, <1>3, <1>4, <1>5, <1>6, <1>7, SheetCalled DEF CreditsStep

-----------------------------------------------------------------------------
(* What is owed, and the life of each obligation                             *)

Lived(rows, st) ==
  UNION {{o} \X {i \in DOMAIN rows[o].life : rows[o].life[i].status = st} : o \in DOMAIN rows}

\* A claim that is there still is what it was about.
Rests(c, s) == c \in DOMAIN claims /\ Compatible(c, s)

ObligationReads(ob) ==
  /\ DOMAIN ob = {"person", "song", "followup", "due", "awaits", "source", "triggers", "life"}
  /\ ob.person \in people /\ ob.song \in Known \cup {None}
  /\ Rests(ob.source, ob.song)
  /\ ob.followup # None => ob.followup \in DOMAIN followups
  /\ IsTable(ob.life) /\ Len(ob.life) > 0 /\ ob.life[1].status = "OPEN"
  /\ \A i \in DOMAIN ob.life :
       /\ Rests(ob.life[i].claim, ob.song)
       /\ i > 1 => MayBecome(ob.life[i - 1].status, ob.life[i].status)
  /\ IsTable(ob.triggers)
  /\ \A i \in DOMAIN ob.triggers : ob.awaits /\ Rests(ob.triggers[i], ob.song)

Statuses == OpenStatus \cup Terminal

ObligationsInv ==
  /\ \A o \in DOMAIN obligations : ObligationReads(obligations[o])
  /\ \A st \in Statuses : IsFiniteSet(Lived(obligations, st))

ObligationsTold ==
  \A st \in Statuses : Tally(events, StatusTold[st]) = Cardinality(Lived(obligations, st))

ObligationsWords == {StatusTold[st] : st \in Statuses} \cup {"OBLIGATION_CREATED", "OBLIGATION_TRIGGER_OBSERVED"}

LEMMA StatusWords ==
  /\ \A st \in Statuses : StatusTold[st] \notin {Superseding, "OBLIGATION_CREATED", "OBLIGATION_TRIGGER_OBSERVED"}
  /\ \A st, other \in Statuses : StatusTold[st] = StatusTold[other] => st = other
BY DEF Statuses, OpenStatus, Terminal, StatusTold, Superseding

LEMMA StillRests ==
  ASSUME VersionsInv, ScopesInv, RowsKept, Kept(claims, claims', DOMAIN claims),
         NEW c, NEW s, Rests(c, s)
  PROVE  Rests(c, s)'
<1>1. c \in DOMAIN claims' /\ claims'[c] = claims[c] /\ claims[c].scope \in Scopes
  BY DEF Rests, Kept, ScopesInv
<1>2. \A v \in DOMAIN versions : v \in DOMAIN versions' /\ versions'[v] = versions[v]
  BY DEF RowsKept, Kept
<1>3. claims[c].scope[1] = "VERSION" => claims[c].scope[2] \in DOMAIN versions
  <2>1. PICK scope : scope = claims[c].scope
    OBVIOUS
  <2>2. scope[1] = "VERSION" => scope[2] \in DOMAIN versions
    BY <1>1, <2>1 DEF Scopes
  <2> QED
    BY <2>1, <2>2
<1> QED
  BY <1>1, <1>2, <1>3 DEF Rests, Compatible

LEMMA ObligationStill ==
  ASSUME VersionsInv, ScopesInv, RowsKept, Kept(claims, claims', DOMAIN claims),
         people \subseteq people', DOMAIN followups \subseteq DOMAIN followups',
         NEW ob, ObligationReads(ob)
  PROVE  ObligationReads(ob)'
<1>1. \A c, s : Rests(c, s) => Rests(c, s)'
  BY StillRests
<1> QED
  BY <1>1 DEF ObligationReads, RowsKept

LEMMA ObligationsFramed ==
  ASSUME VersionsInv, ScopesInv, ObligationsInv, ObligationsTold, UNCHANGED obligations,
         RowsKept, Kept(claims, claims', DOMAIN claims),
         people \subseteq people', DOMAIN followups \subseteq DOMAIN followups', Untold(ObligationsWords)
  PROVE  ObligationsInv' /\ ObligationsTold'
<1>1. ObligationsTold'
  BY DEF ObligationsTold, Untold, ObligationsWords
<1>2. ASSUME NEW o \in DOMAIN obligations' PROVE ObligationReads(obligations[o])'
  <2>1. PICK ob : ob = obligations[o] /\ ObligationReads(ob)
    BY DEF ObligationsInv
  <2>2. ObligationReads(ob)'
    BY <2>1, ObligationStill
  <2> QED
    BY <2>1, <2>2
<1>3. \A st \in Statuses : IsFiniteSet(Lived(obligations', st))
  BY DEF ObligationsInv
<1> QED
  BY <1>1, <1>2, <1>3 DEF ObligationsInv

\* What an obligation that is new, or that goes on, adds to what was lived.
LEMMA LivedIs ==
  ASSUME NEW rows, NEW st, NEW x
  PROVE  x \in Lived(rows, st) <=>
           \E o \in DOMAIN rows : \E i \in DOMAIN rows[o].life : rows[o].life[i].status = st /\ x = <<o, i>>
BY DEF Lived

LEMMA LivedAppended ==
  ASSUME NEW t, IsTable(t), NEW row, IsTable(row.life), Len(row.life) = 1, row.life[1].status = "OPEN", NEW st
  PROVE  /\ <<Len(t) + 1, 1>> \notin Lived(t, st)
         /\ Lived(Append(t, row), st) = IF st = "OPEN" THEN Lived(t, st) \cup {<<Len(t) + 1, 1>>} ELSE Lived(t, st)
<1>1. PICK u, n : u = Append(t, row) /\ n = Len(t)
  OBVIOUS
<1>2. /\ n \in Nat /\ DOMAIN t = 1..n /\ DOMAIN u = 1..(n + 1) /\ u[n + 1] = row /\ \A o \in DOMAIN t : u[o] = t[o]
  BY <1>1, RowAppended, TableIs
<1>3. DOMAIN row.life = {1}
  <2>1. PICK life : life = row.life
    OBVIOUS
  <2>2. IsTable(life)
    BY <2>1
  <2>3. DOMAIN life = 1..1
    BY <2>1, <2>2, TableIs
  <2> QED
    BY <2>1, <2>3
<1>4. n + 1 \notin DOMAIN t
  BY <1>2
<1>5. <<n + 1, 1>> \notin Lived(t, st)
  BY <1>4, LivedIs
<1>6. ASSUME NEW x PROVE x \in Lived(u, st) <=> x \in Lived(t, st) \/ (st = "OPEN" /\ x = <<n + 1, 1>>)
  <2>1. ASSUME x \in Lived(u, st) PROVE x \in Lived(t, st) \/ (st = "OPEN" /\ x = <<n + 1, 1>>)
    <3>1. PICK o \in DOMAIN u : \E i \in DOMAIN u[o].life : u[o].life[i].status = st /\ x = <<o, i>>
      BY <2>1, LivedIs
    <3>2. CASE o = n + 1
      BY <1>2, <1>3, <3>1, <3>2
    <3>3. CASE o # n + 1
      <4>1. o \in DOMAIN t /\ u[o] = t[o]
        BY <1>2, <3>1, <3>3
      <4> QED
        BY <3>1, <4>1, LivedIs
    <3> QED
      BY <3>2, <3>3
  <2>2. ASSUME x \in Lived(t, st) PROVE x \in Lived(u, st)
    <3>1. PICK o \in DOMAIN t : \E i \in DOMAIN t[o].life : t[o].life[i].status = st /\ x = <<o, i>>
      BY <2>2, LivedIs
    <3>2. o \in DOMAIN u /\ u[o] = t[o]
      BY <1>2, <3>1
    <3> QED
      BY <3>1, <3>2, LivedIs
  <2>3. ASSUME st = "OPEN", x = <<n + 1, 1>> PROVE x \in Lived(u, st)
    <3>1. n + 1 \in DOMAIN u /\ 1 \in DOMAIN u[n + 1].life /\ u[n + 1].life[1].status = st
      BY <1>2, <1>3, <2>3
    <3> QED
      BY <2>3, <3>1, LivedIs
  <2> QED
    BY <2>1, <2>2, <2>3
<1> QED
  BY <1>1, <1>5, <1>6

\* A row of a table whose life goes on with one word more.
GoesOn(t, rows, o, row, life, word) ==
  /\ IsTable(t) /\ o \in DOMAIN t /\ life = t[o].life /\ IsTable(life)
  /\ row.life = Append(life, word) /\ rows = [t EXCEPT ![o] = row]

LEMMA LivedChanged ==
  ASSUME NEW t, NEW rows, NEW o, NEW row, NEW life, NEW word, GoesOn(t, rows, o, row, life, word), NEW st
  PROVE  /\ <<o, Len(life) + 1>> \notin Lived(t, st)
         /\ Lived(rows, st) = IF word.status = st THEN Lived(t, st) \cup {<<o, Len(life) + 1>>} ELSE Lived(t, st)
<1>0. /\ IsTable(t) /\ o \in DOMAIN t /\ life = t[o].life /\ IsTable(life)
      /\ row.life = Append(life, word)
  BY DEF GoesOn
<1>1. PICK u, n : u = rows /\ n = Len(life) /\ u = [t EXCEPT ![o] = row]
  BY DEF GoesOn
<1>2. DOMAIN u = DOMAIN t /\ u[o] = row /\ \A p \in DOMAIN t : p # o => u[p] = t[p]
  BY <1>0, <1>1, RowChanged
<1>3. /\ n \in Nat /\ DOMAIN life = 1..n /\ DOMAIN row.life = 1..(n + 1)
      /\ row.life[n + 1] = word /\ \A i \in DOMAIN life : row.life[i] = life[i]
  <2>1. IsTable(life) /\ row.life = Append(life, word)
    BY <1>0, <1>1
  <2> QED
    BY <1>1, <2>1, RowAppended, TableIs
<1>4. <<o, n + 1>> \notin Lived(t, st)
  <2>1. n + 1 \notin DOMAIN t[o].life
    BY <1>0, <1>1, <1>3
  <2> QED
    BY <2>1, LivedIs
<1>5. ASSUME NEW x PROVE x \in Lived(u, st) <=> x \in Lived(t, st) \/ (word.status = st /\ x = <<o, n + 1>>)
  <2>1. ASSUME x \in Lived(u, st) PROVE x \in Lived(t, st) \/ (word.status = st /\ x = <<o, n + 1>>)
    <3>1. PICK p \in DOMAIN u : \E i \in DOMAIN u[p].life : u[p].life[i].status = st /\ x = <<p, i>>
      BY <2>1, LivedIs
    <3>2. CASE p = o
      <4>1. PICK i \in 1..(n + 1) : row.life[i].status = st /\ x = <<o, i>>
        BY <1>2, <1>3, <3>1, <3>2
      <4>2. CASE i = n + 1
        BY <1>3, <4>1, <4>2
      <4>3. CASE i # n + 1
        <5>1. i \in DOMAIN t[o].life /\ t[o].life[i].status = st
          BY <1>0, <1>1, <1>3, <4>1, <4>3
        <5> QED
          BY <1>0, <4>1, <5>1, LivedIs
      <4> QED
        BY <4>2, <4>3
    <3>3. CASE p # o
      <4>1. p \in DOMAIN t /\ u[p] = t[p]
        BY <1>2, <3>1, <3>3
      <4> QED
        BY <3>1, <4>1, LivedIs
    <3> QED
      BY <3>2, <3>3
  <2>2. ASSUME x \in Lived(t, st) PROVE x \in Lived(u, st)
    <3>1. PICK p \in DOMAIN t : \E i \in DOMAIN t[p].life : t[p].life[i].status = st /\ x = <<p, i>>
      BY <2>2, LivedIs
    <3>2. \A i \in DOMAIN t[p].life : i \in DOMAIN u[p].life /\ u[p].life[i] = t[p].life[i]
      BY <1>0, <1>1, <1>2, <1>3, <3>1
    <3> QED
      BY <1>2, <3>1, <3>2, LivedIs
  <2>3. ASSUME word.status = st, x = <<o, n + 1>> PROVE x \in Lived(u, st)
    <3>1. o \in DOMAIN u /\ n + 1 \in DOMAIN u[o].life /\ u[o].life[n + 1].status = st
      BY <1>0, <1>2, <1>3, <2>3
    <3> QED
      BY <2>3, <3>1, LivedIs
  <2> QED
    BY <2>1, <2>2, <2>3
<1>6. Lived(u, st) = IF word.status = st THEN Lived(t, st) \cup {<<o, n + 1>>} ELSE Lived(t, st)
  <2>1. CASE word.status = st
    BY <1>5, <2>1
  <2>2. CASE word.status # st
    BY <1>5, <2>2
  <2> QED
    BY <2>1, <2>2
<1>7. u = rows /\ n = Len(life)
  BY <1>1
<1> QED
  BY <1>4, <1>6, <1>7

LEMMA LivedSame ==
  ASSUME NEW t, IsTable(t), NEW o \in DOMAIN t, NEW row, row.life = t[o].life, NEW st
  PROVE  Lived([t EXCEPT ![o] = row], st) = Lived(t, st)
<1>1. PICK u : u = [t EXCEPT ![o] = row]
  OBVIOUS
<1>2. DOMAIN u = DOMAIN t /\ \A p \in DOMAIN t : u[p].life = t[p].life
  BY <1>1, RowChanged
<1>3. Lived(u, st) = Lived(t, st)
  BY <1>2 DEF Lived
<1> QED
  BY <1>1, <1>3

\* An obligation takes the place of one.
LEMMA ObligationPut ==
  ASSUME IsTable(obligations), VersionsInv, ScopesInv, ObligationsInv, IsTable(claims), UNCHANGED <<songs, people, followups, claims>>,
         RowsKept, NEW o \in DOMAIN obligations, NEW row, obligations' = [obligations EXCEPT ![o] = row], ObligationReads(row)
  PROVE  \A p \in DOMAIN obligations' : ObligationReads(obligations[p])'
<1>1. TAKE p \in DOMAIN obligations'
<1>2. PICK now : now = obligations'[p] /\ ObligationReads(now)
  BY RowChanged DEF ObligationsInv
<1>3. Kept(claims, claims', DOMAIN claims)
  BY KeptSame
<1>4. ObligationReads(now)'
  BY <1>2, <1>3, ObligationStill
<1> QED
  BY <1>2, <1>4

LEMMA ObligationsWritten ==
  ASSUME TablesInv, LinesInv, PointersInv, VersionsInv, ScopesInv, IsTable(claims), ObligationsInv, ObligationsTold, ObligationStep
  PROVE  ObligationsInv' /\ ObligationsTold' /\ \E T \in SUBSET ObligationsWords : Writes(T)
<1> DEFINE Written == ObligationsInv' /\ ObligationsTold' /\ \E T \in SUBSET ObligationsWords : Writes(T)
<1>1. /\ IsTable(events) /\ IsTable(obligations)
      /\ UNCHANGED <<songs, versions, assets>> /\ UNCHANGED <<people, followups, claims>>
  BY DEF TablesInv, LinesInv, ObligationStep, CreateObligation, RecordTrigger, Transition, Become, recordVars, peopleVars
<1>2. IsTable(obligations) /\ IsTable(claims)
  BY <1>1
<1>3. Kept(claims, claims', DOMAIN claims)
  BY <1>1, <1>2, KeptSame
<1>4. RowsKept
  <2>1. IsTable(versions) /\ IsTable(assets)
    BY DEF PointersInv, VersionsInv
  <2>2. Kept(versions, versions', DOMAIN versions) /\ Kept(assets, assets', DOMAIN assets)
    BY <1>1, <2>1, KeptSame
  <2> QED
    BY <1>1, <2>2 DEF RowsKept, Known
<1>5. ASSUME NEW p, NEW s, NEW followup, NEW due, NEW awaits, NEW c \in DOMAIN claims,
             CreateObligation(p, s, followup, due, awaits, c)
      PROVE  Written
  <2>1. PICK word, life, row :
          /\ word = [status |-> "OPEN", claim |-> c] /\ life = <<word>>
          /\ row = [person |-> p, song |-> s, followup |-> followup, due |-> due, awaits |-> awaits,
                    source |-> c, triggers |-> <<>>, life |-> life]
    OBVIOUS
  <2>2. /\ p \in people /\ s \in Known \cup {None} /\ Compatible(c, s)
        /\ followup # None => followup \in DOMAIN followups
        /\ obligations' = Append(obligations, row)
        /\ Log(<<Event("OBLIGATION_STATUS_OPEN", s, None), Event("OBLIGATION_CREATED", s, None)>>)
    BY <1>5, <2>1 DEF CreateObligation, Founds
  <2>3. LineReads(s, None)'
    BY <1>1, <2>2, SameReads DEF LineReads
  <2>4. Writes({"OBLIGATION_STATUS_OPEN", "OBLIGATION_CREATED"})
    <3>1. "OBLIGATION_STATUS_OPEN" # "OBLIGATION_CREATED"
      OBVIOUS
    <3> QED
      BY <1>1, <2>2, <2>3, <3>1, WritesTwo
  <2>5. IsTable(life) /\ Len(life) = 1 /\ life[1] = word
    BY <2>1, OneRow
  <2>6. DOMAIN life = 1..1 /\ word.status = "OPEN" /\ word.claim = c
    BY <2>1, <2>5, TableIs
  <2>7. /\ row.person = p /\ row.song = s /\ row.followup = followup /\ row.source = c /\ row.triggers = <<>> /\ row.life = life
        /\ DOMAIN row = {"person", "song", "followup", "due", "awaits", "source", "triggers", "life"}
    BY <2>1
  <2>8. ObligationReads(row)
    <3>1. /\ row.person \in people /\ row.song \in Known \cup {None} /\ Rests(row.source, row.song)
          /\ row.followup # None => row.followup \in DOMAIN followups
      BY <2>2, <2>7 DEF Rests
    <3>2. IsTable(row.triggers) /\ DOMAIN row.triggers = {}
      BY <2>7, EmptyTable
    <3>3. /\ IsTable(row.life) /\ Len(row.life) > 0 /\ row.life[1].status = "OPEN" /\ DOMAIN row.life = 1..1
          /\ row.life[1].claim = c
      BY <2>5, <2>6, <2>7
    <3>4. \A i \in DOMAIN row.life : i = 1 /\ ~(i > 1)
      BY <3>3
    <3>5. \A i \in DOMAIN row.life : Rests(row.life[i].claim, row.song)
      BY <2>2, <2>7, <3>3, <3>4 DEF Rests
    <3> QED
      BY <2>7, <3>1, <3>2, <3>3, <3>4, <3>5 DEF ObligationReads
  <2>9. /\ DOMAIN obligations' = 1..(Len(obligations) + 1) /\ DOMAIN obligations = 1..Len(obligations)
        /\ obligations'[Len(obligations) + 1] = row /\ \A o \in DOMAIN obligations : obligations'[o] = obligations[o]
    BY <1>2, <2>2, RowAppended, TableIs
  <2>10. ASSUME NEW o \in DOMAIN obligations' PROVE ObligationReads(obligations[o])'
    <3>1. PICK now : now = obligations'[o] /\ ObligationReads(now)
      BY <2>8, <2>9, <1>2, TableIs DEF ObligationsInv
    <3>2. ObligationReads(now)'
      BY <1>1, <1>3, <1>4, <3>1, ObligationStill
    <3> QED
      BY <3>1, <3>2
  <2>11. PICK x : x = <<Len(obligations) + 1, 1>>
    OBVIOUS
  <2>12. ASSUME NEW st PROVE /\ x \notin Lived(obligations, st)
                             /\ Lived(obligations', st) = IF st = "OPEN" THEN Lived(obligations, st) \cup {x} ELSE Lived(obligations, st)
    <3>1. IsTable(row.life) /\ Len(row.life) = 1 /\ row.life[1].status = "OPEN"
      BY <2>5, <2>6, <2>7
    <3> QED
      BY <1>2, <2>2, <2>11, <3>1, LivedAppended
  <2>13. ASSUME NEW st \in Statuses
         PROVE  /\ IsFiniteSet(Lived(obligations', st))
                /\ Cardinality(Lived(obligations', st)) =
                     IF st = "OPEN" THEN Cardinality(Lived(obligations, st)) + 1 ELSE Cardinality(Lived(obligations, st))
    <3>1. IsFiniteSet(Lived(obligations, st))
      BY DEF ObligationsInv
    <3> QED
      BY <2>12, <3>1, OneMore
  <2>14. ObligationsInv'
    BY <2>10, <2>13 DEF ObligationsInv
  <2>15. "OPEN" \in Statuses /\ StatusTold["OPEN"] = "OBLIGATION_STATUS_OPEN"
    BY DEF Statuses, OpenStatus, StatusTold
  <2>16. \A st \in Statuses : StatusTold[st] \in {"OBLIGATION_STATUS_OPEN", "OBLIGATION_CREATED"} <=> st = "OPEN"
    BY <2>15, StatusWords
  <2>17. ObligationsTold'
    BY <2>4, <2>13, <2>16, StatusWords DEF ObligationsTold, Writes
  <2>18. {"OBLIGATION_STATUS_OPEN", "OBLIGATION_CREATED"} \in SUBSET ObligationsWords
    BY <2>15 DEF ObligationsWords
  <2> QED
    BY <2>4, <2>14, <2>17, <2>18
<1>6. ASSUME NEW o, NEW c \in DOMAIN claims, RecordTrigger(o, c)
      PROVE  Written
  <2>1. PICK old, triggers, row, s : old = obligations[o] /\ triggers = Append(old.triggers, c)
                                     /\ row = [old EXCEPT !.triggers = triggers] /\ s = old.song
    OBVIOUS
  <2>2. /\ o \in DOMAIN obligations /\ old.awaits /\ Compatible(c, s) /\ obligations' = [obligations EXCEPT ![o] = row]
        /\ Log(<<Event("OBLIGATION_TRIGGER_OBSERVED", s, None)>>)
    BY <1>6, <2>1 DEF RecordTrigger, Founds
  <2>3. ObligationReads(old)
    BY <2>1, <2>2 DEF ObligationsInv
  <2>4. /\ row.person = old.person /\ row.song = s /\ row.followup = old.followup /\ row.source = old.source
        /\ row.triggers = triggers /\ row.life = old.life /\ row.awaits = old.awaits /\ DOMAIN row = DOMAIN old
    BY <2>1, <2>3 DEF ObligationReads
  <2>5. /\ IsTable(triggers) /\ \A i \in DOMAIN triggers : Rests(triggers[i], s)
    <3>1. PICK was : was = old.triggers /\ IsTable(was) /\ triggers = Append(was, c)
      BY <2>1, <2>3 DEF ObligationReads
    <3>2. /\ IsTable(triggers) /\ DOMAIN triggers = 1..(Len(was) + 1) /\ DOMAIN was = 1..Len(was) /\ Len(was) \in Nat
          /\ triggers[Len(was) + 1] = c /\ \A i \in DOMAIN was : triggers[i] = was[i]
      BY <3>1, RowAppended, TableIs
    <3>3. \A i \in DOMAIN was : Rests(was[i], s)
      BY <2>1, <2>3, <3>1 DEF ObligationReads
    <3>4. Rests(c, s)
      BY <2>2 DEF Rests
    <3> QED
      BY <3>2, <3>3, <3>4
  <2>6. ObligationReads(row)
    BY <2>1, <2>2, <2>3, <2>4, <2>5 DEF ObligationReads
  <2>7. \A p \in DOMAIN obligations' : ObligationReads(obligations[p])'
    BY <1>1, <1>2, <1>4, <2>2, <2>6, ObligationPut
  <2>8. ASSUME NEW st PROVE Lived(obligations', st) = Lived(obligations, st)
    <3>1. IsTable(obligations) /\ o \in DOMAIN obligations /\ row.life = obligations[o].life
      BY <1>2, <2>1, <2>2, <2>4
    <3>2. Lived([obligations EXCEPT ![o] = row], st) = Lived(obligations, st)
      BY <3>1, LivedSame
    <3> QED
      BY <2>2, <3>2
  <2>9. ObligationsInv'
    BY <2>7, <2>8 DEF ObligationsInv
  <2>10. s \in Known \cup {None}
    BY <2>1, <2>3 DEF ObligationReads
  <2>11. Writes({"OBLIGATION_TRIGGER_OBSERVED"})
    BY <1>1, <2>2, <2>10, TellsSong
  <2>12. ObligationsTold'
    BY <2>8, <2>11, StatusWords DEF ObligationsTold, Writes
  <2> QED
    BY <2>9, <2>11, <2>12 DEF ObligationsWords
<1>7. ASSUME NEW o, NEW status \in Statuses, NEW c \in DOMAIN claims, Transition(o, status, c)
      PROVE  Written
  <2>1. PICK old, word, life, row, s :
          /\ old = obligations[o] /\ word = [status |-> status, claim |-> c] /\ life = Append(old.life, word)
          /\ row = [old EXCEPT !.life = life] /\ s = old.song
    OBVIOUS
  <2>2. /\ o \in DOMAIN obligations /\ MayBecome(Last(old.life).status, status) /\ Compatible(c, s)
        /\ obligations' = [obligations EXCEPT ![o] = row] /\ Log(<<Event(StatusTold[status], s, None)>>)
    BY <1>7, <2>1 DEF Transition, Become, Founds, StatusOf
  <2>3. ObligationReads(old)
    BY <2>1, <2>2 DEF ObligationsInv
  <2>4. /\ row.person = old.person /\ row.song = s /\ row.followup = old.followup /\ row.source = old.source
        /\ row.triggers = old.triggers /\ row.life = life /\ row.awaits = old.awaits /\ DOMAIN row = DOMAIN old
    BY <2>1, <2>3 DEF ObligationReads
  <2>5. PICK was : was = old.life /\ IsTable(was) /\ life = Append(was, word)
    BY <2>1, <2>3 DEF ObligationReads
  <2>6. /\ IsTable(life) /\ Len(life) = Len(was) + 1 /\ DOMAIN life = 1..(Len(was) + 1) /\ DOMAIN was = 1..Len(was) /\ Len(was) \in Nat
        /\ life[Len(was) + 1] = word /\ \A i \in DOMAIN was : life[i] = was[i]
    BY <2>5, RowAppended, TableIs
  <2>7. /\ Len(was) > 0 /\ was[1].status = "OPEN"
        /\ \A i \in DOMAIN was : Rests(was[i].claim, s) /\ (i > 1 => MayBecome(was[i - 1].status, was[i].status))
    BY <2>1, <2>3, <2>5 DEF ObligationReads
  <2>8. /\ word.claim = c /\ word.status = status /\ Rests(c, s) /\ MayBecome(was[Len(was)].status, status)
    BY <2>1, <2>2, <2>5 DEF Rests, Last
  <2>9. /\ Len(life) > 0 /\ life[1].status = "OPEN"
        /\ \A i \in DOMAIN life : Rests(life[i].claim, s) /\ (i > 1 => MayBecome(life[i - 1].status, life[i].status))
    <3>1. 1 \in DOMAIN was /\ Len(was) \in DOMAIN was
      BY <2>6, <2>7
    <3>2. ASSUME NEW i \in DOMAIN life PROVE Rests(life[i].claim, s) /\ (i > 1 => MayBecome(life[i - 1].status, life[i].status))
      <4>1. CASE i = Len(was) + 1
        <5>1. i - 1 = Len(was) /\ life[i] = word /\ life[i - 1] = was[Len(was)]
          BY <2>6, <3>1, <4>1
        <5> QED
          BY <2>8, <5>1
      <4>2. CASE i # Len(was) + 1
        <5>1. i \in DOMAIN was /\ life[i] = was[i] /\ (i > 1 => life[i - 1] = was[i - 1])
          BY <2>6, <4>2
        <5> QED
          BY <2>7, <5>1
      <4> QED
        BY <4>1, <4>2
    <3> QED
      BY <2>6, <2>7, <3>1, <3>2
  <2>10. ObligationReads(row)
    <3>1. /\ row.person \in people /\ row.song \in Known \cup {None} /\ Rests(row.source, row.song)
          /\ row.followup # None => row.followup \in DOMAIN followups
          /\ IsTable(row.triggers) /\ \A i \in DOMAIN row.triggers : row.awaits /\ Rests(row.triggers[i], row.song)
          /\ DOMAIN row = {"person", "song", "followup", "due", "awaits", "source", "triggers", "life"}
      BY <2>1, <2>3, <2>4 DEF ObligationReads
    <3>2. /\ IsTable(row.life) /\ Len(row.life) > 0 /\ row.life[1].status = "OPEN"
          /\ \A i \in DOMAIN row.life : Rests(row.life[i].claim, row.song)
          /\ \A i \in DOMAIN row.life : i > 1 => MayBecome(row.life[i - 1].status, row.life[i].status)
      BY <2>4, <2>6, <2>9
    <3> QED
      BY <3>1, <3>2 DEF ObligationReads
  <2>11. \A p \in DOMAIN obligations' : ObligationReads(obligations[p])'
    BY <1>1, <1>2, <1>4, <2>2, <2>10, ObligationPut
  <2>12. PICK x : x = <<o, Len(was) + 1>>
    OBVIOUS
  <2>13. ASSUME NEW st
         PROVE  /\ x \notin Lived(obligations, st)
                /\ Lived(obligations', st) = IF status = st THEN Lived(obligations, st) \cup {x} ELSE Lived(obligations, st)
    <3>1. /\ IsTable(obligations) /\ o \in DOMAIN obligations /\ was = obligations[o].life /\ IsTable(was)
          /\ row.life = Append(was, word)
      BY <1>2, <2>1, <2>2, <2>4, <2>5
    <3>2. PICK rows : rows = [obligations EXCEPT ![o] = row]
      OBVIOUS
    <3>4. GoesOn(obligations, rows, o, row, was, word)
      BY <3>1, <3>2 DEF GoesOn
    <3>3. /\ <<o, Len(was) + 1>> \notin Lived(obligations, st)
          /\ Lived(rows, st) = IF word.status = st THEN Lived(obligations, st) \cup {<<o, Len(was) + 1>>} ELSE Lived(obligations, st)
      BY <3>4, LivedChanged
    <3> QED
      BY <2>2, <2>8, <2>12, <3>2, <3>3
  <2>14. ASSUME NEW st \in Statuses
         PROVE  /\ IsFiniteSet(Lived(obligations', st))
                /\ Cardinality(Lived(obligations', st)) =
                     IF st = status THEN Cardinality(Lived(obligations, st)) + 1 ELSE Cardinality(Lived(obligations, st))
    <3>1. IsFiniteSet(Lived(obligations, st))
      BY DEF ObligationsInv
    <3> QED
      BY <2>13, <3>1, OneMore
  <2>15. ObligationsInv'
    BY <2>11, <2>14 DEF ObligationsInv
  <2>16. s \in Known \cup {None}
    BY <2>1, <2>3 DEF ObligationReads
  <2>17. Writes({StatusTold[status]})
    BY <1>1, <2>2, <2>16, TellsSong
  <2>18. \A st \in Statuses : StatusTold[st] \in {StatusTold[status]} <=> st = status
    BY StatusWords
  <2>19. ObligationsTold'
    BY <2>14, <2>17, <2>18, StatusWords DEF ObligationsTold, Writes
  <2> QED
    BY <2>15, <2>17, <2>19 DEF ObligationsWords
<1> QED
  BY <1>5, <1>6, <1>7 DEF ObligationStep, Statuses

-----------------------------------------------------------------------------
(* The sessions, what is noted in them and what a Version is made from         *)

SessionReads(row) ==
  /\ row \in [song : Known, version : DOMAIN versions \cup {None}, state : {"OPEN", "CLOSED"}]
  /\ row.version # None => row.version \in VersionsOf(row.song)

\* What was asked of an item is of its session.
AskedOf(session, terms) ==
  [scope |-> terms.scope, on |-> IF terms.scope = "SONG" THEN session.song ELSE session.version, key |-> terms.key]

ItemReads(item) ==
  /\ item \in [session : DOMAIN sessions, kind : Kind, written : BOOLEAN,
               request : {None} \cup AllTerms, claim : {None} \cup AllTerms]
  /\ item.request # None => item.request = AskedOf(sessions[item.session], item.request)
  /\ item.claim # None => item.claim = item.request

DerivationReads(row) ==
  /\ row \in [song : Known, output : Object, input : Object \cup {External}]
  /\ SongOfObject(row.output) = row.song
  /\ row.input = External \/ SongOfObject(row.input) = row.song

NotesInv ==
  /\ IsTable(sessions) /\ \A i \in DOMAIN sessions : SessionReads(sessions[i])
  /\ IsTable(items) /\ \A i \in DOMAIN items : ItemReads(items[i])
  /\ IsTable(derivations) /\ \A i \in DOMAIN derivations : DerivationReads(derivations[i])

Promoted(rows) == {i \in DOMAIN rows : rows[i].claim # None}

NotesTold ==
  /\ Tally(events, "SESSION_ITEM_PROMOTED") = Cardinality(Promoted(items))
  /\ Tally(events, "PROVENANCE_RECORDED") = Len(derivations)

NotesWords ==
  {"SESSION_STARTED", "SESSION_SCRATCH_ADDED", "SESSION_CLOSED", "SESSION_ITEM_PROMOTED", "PROVENANCE_RECORDED"}

NotesStep == SessionStep \/ NoteStep

\* A session stays of its Song and its Version, and a session that is over stays over.
SessionsGrow ==
  /\ IsTable(sessions')
  /\ \A i \in DOMAIN sessions :
       /\ i \in DOMAIN sessions' /\ sessions'[i].song = sessions[i].song /\ sessions'[i].version = sessions[i].version
       /\ sessions[i].state = "CLOSED" => sessions'[i].state = "CLOSED"

LEMMA SessionStill == ASSUME RowsKept, NEW row, SessionReads(row) PROVE SessionReads(row)'
<1>1. \A s : VersionsOf(s) \subseteq VersionsOf(s)'
  BY StillReads
<1>2. Known \subseteq Known' /\ DOMAIN versions \subseteq DOMAIN versions'
  BY DEF RowsKept, Kept
<1> QED
  BY <1>1, <1>2 DEF SessionReads

LEMMA TermsStill == ASSUME RowsKept PROVE AllTerms \subseteq AllTerms'
BY DEF RowsKept, Kept, AllTerms

LEMMA ItemStill == ASSUME RowsKept, SessionsGrow, NEW item, ItemReads(item) PROVE ItemReads(item)'
<1>1. AllTerms \subseteq AllTerms'
  BY TermsStill
<1>2. PICK i : i = item.session /\ i \in DOMAIN sessions
  BY DEF ItemReads
<1>3. i \in DOMAIN sessions' /\ sessions'[i].song = sessions[i].song /\ sessions'[i].version = sessions[i].version
  BY <1>2 DEF SessionsGrow
<1>4. DOMAIN sessions \subseteq DOMAIN sessions'
  BY DEF SessionsGrow
<1>5. (item \in [session : DOMAIN sessions, kind : Kind, written : BOOLEAN,
               request : {None} \cup AllTerms, claim : {None} \cup AllTerms])'
  BY <1>1, <1>4 DEF ItemReads
<1>6. (item.request # None => item.request = AskedOf(sessions[item.session], item.request))'
  BY <1>2, <1>3 DEF ItemReads, AskedOf
<1> QED
  BY <1>5, <1>6 DEF ItemReads

LEMMA DerivationStill == ASSUME RowsKept, NEW row, DerivationReads(row) PROVE DerivationReads(row)'
<1>1. \A v \in DOMAIN versions : v \in DOMAIN versions' /\ versions'[v] = versions[v]
  BY DEF RowsKept, Kept
<1>2. \A a \in DOMAIN assets : a \in DOMAIN assets' /\ assets'[a] = assets[a]
  BY DEF RowsKept, Kept
<1>3. ASSUME NEW o \in Object PROVE o \in Object' /\ SongOfObject(o)' = SongOfObject(o)
  <2>1. CASE \E v \in DOMAIN versions : o = <<"VERSION", v>>
    BY <1>1, <2>1 DEF Object, SongOfObject
  <2>2. CASE \E a \in DOMAIN assets : o = <<"ASSET", a>>
    BY <1>2, <2>2 DEF Object, SongOfObject
  <2> QED
    BY <2>1, <2>2 DEF Object
<1>4. PICK o, n, s : o = row.output /\ n = row.input /\ s = row.song
  OBVIOUS
<1>5. o \in Object /\ n \in Object \cup {External} /\ s \in Known /\ SongOfObject(o) = s /\ (n = External \/ SongOfObject(n) = s)
  BY <1>4 DEF DerivationReads
<1>6. o \in Object' /\ n \in (Object \cup {External})' /\ s \in Known' /\ SongOfObject(o)' = s /\ (n = External \/ SongOfObject(n)' = s)
  BY <1>3, <1>5 DEF RowsKept, External
<1>7. row = [song |-> s, output |-> o, input |-> n]
  BY <1>4 DEF DerivationReads
<1>8. row \in [song : Known', output : Object', input : (Object \cup {External})']
  BY <1>6, <1>7
<1> QED
  BY <1>4, <1>6, <1>8 DEF DerivationReads

LEMMA SessionsSame == ASSUME IsTable(sessions), UNCHANGED sessions PROVE SessionsGrow
BY DEF SessionsGrow

\* What was there reads, and so does what is new.
LEMMA NotesKept ==
  ASSUME NotesInv, RowsKept, SessionsGrow, IsTable(items'), IsTable(derivations'),
         \A i \in DOMAIN sessions' : (\E j \in DOMAIN sessions : sessions'[i] = sessions[j]) \/ SessionReads(sessions[i])',
         \A i \in DOMAIN items' : (\E j \in DOMAIN items : items'[i] = items[j]) \/ ItemReads(items[i])',
         \A i \in DOMAIN derivations' :
           (\E j \in DOMAIN derivations : derivations'[i] = derivations[j]) \/ DerivationReads(derivations[i])'
  PROVE  NotesInv'
<1>1. ASSUME NEW i \in DOMAIN sessions' PROVE SessionReads(sessions[i])'
  <2>1. CASE \E j \in DOMAIN sessions : sessions'[i] = sessions[j]
    <3>1. PICK row : row = sessions'[i] /\ SessionReads(row)
      BY <2>1 DEF NotesInv
    <3>2. SessionReads(row)'
      BY <3>1, SessionStill
    <3> QED
      BY <3>1, <3>2
  <2> QED
    BY <2>1
<1>2. ASSUME NEW i \in DOMAIN items' PROVE ItemReads(items[i])'
  <2>1. CASE \E j \in DOMAIN items : items'[i] = items[j]
    <3>1. PICK row : row = items'[i] /\ ItemReads(row)
      BY <2>1 DEF NotesInv
    <3>2. ItemReads(row)'
      BY <3>1, ItemStill
    <3> QED
      BY <3>1, <3>2
  <2> QED
    BY <2>1
<1>3. ASSUME NEW i \in DOMAIN derivations' PROVE DerivationReads(derivations[i])'
  <2>1. CASE \E j \in DOMAIN derivations : derivations'[i] = derivations[j]
    <3>1. PICK row : row = derivations'[i] /\ DerivationReads(row)
      BY <2>1 DEF NotesInv
    <3>2. DerivationReads(row)'
      BY <3>1, DerivationStill
    <3> QED
      BY <3>1, <3>2
  <2> QED
    BY <2>1
<1>4. IsTable(sessions')
  BY DEF SessionsGrow
<1> QED
  BY <1>1, <1>2, <1>3, <1>4 DEF NotesInv

LEMMA NotesFramed ==
  ASSUME NotesInv, NotesTold, UNCHANGED sessionVars, UNCHANGED derivations, RowsKept, Untold(NotesWords)
  PROVE  NotesInv' /\ NotesTold' /\ SessionsGrow
<1>1. UNCHANGED <<sessions, items, derivations>>
  BY DEF sessionVars
<1>2. SessionsGrow
  BY <1>1, SessionsSame DEF NotesInv
<1>3. NotesInv'
  BY <1>1, <1>2, NotesKept DEF NotesInv
<1>4. NotesTold'
  BY <1>1 DEF NotesTold, Untold, NotesWords
<1> QED
  BY <1>2, <1>3, <1>4

LEMMA PromotedAppended ==
  ASSUME NEW t, IsTable(t), NEW row, row.claim = None
  PROVE  Cardinality(Promoted(Append(t, row))) = Cardinality(Promoted(t))
<1>1. PICK u : u = Append(t, row)
  OBVIOUS
<1>2. DOMAIN u = 1..(Len(t) + 1) /\ DOMAIN t = 1..Len(t) /\ Len(t) \in Nat /\ u[Len(t) + 1] = row /\ \A j \in DOMAIN t : u[j] = t[j]
  BY <1>1, RowAppended, TableIs
<1>3. Promoted(u) = Promoted(t)
  BY <1>2 DEF Promoted
<1> QED
  BY <1>1, <1>3

LEMMA PromotedChanged ==
  ASSUME NEW t, IsTable(t), NEW i \in DOMAIN t, NEW row
  PROVE  LET u == [t EXCEPT ![i] = row] IN
         /\ (row.claim = None <=> t[i].claim = None) => Cardinality(Promoted(u)) = Cardinality(Promoted(t))
         /\ row.claim # None /\ t[i].claim = None => Cardinality(Promoted(u)) = Cardinality(Promoted(t)) + 1
<1>1. PICK u : u = [t EXCEPT ![i] = row]
  OBVIOUS
<1>2. DOMAIN u = DOMAIN t /\ u[i] = row /\ \A j \in DOMAIN t : j # i => u[j] = t[j]
  BY <1>1, RowChanged
<1>3. Promoted(t) \in SUBSET DOMAIN t
  BY DEF Promoted
<1>4. IsFiniteSet(Promoted(t))
  BY <1>3, SomeRows
<1>5. (row.claim = None <=> t[i].claim = None) => Promoted(u) = Promoted(t)
  BY <1>2 DEF Promoted
<1>6. row.claim # None /\ t[i].claim = None => Promoted(u) = Promoted(t) \cup {i} /\ i \notin Promoted(t)
  BY <1>2 DEF Promoted
<1> QED
  BY <1>1, <1>4, <1>5, <1>6, OneMore

\* An item takes the place of one, asked for what its session has and promoted or not.
LEMMA ItemPut ==
  ASSUME NotesInv, NotesTold, RowsKept, UNCHANGED <<sessions, derivations>>,
         NEW i \in DOMAIN items, NEW row, ItemReads(row), items' = [items EXCEPT ![i] = row],
         NEW T, Writes(T), "PROVENANCE_RECORDED" \notin T,
         \/ "SESSION_ITEM_PROMOTED" \notin T /\ row.claim = items[i].claim
         \/ "SESSION_ITEM_PROMOTED" \in T /\ row.claim # None /\ items[i].claim = None
  PROVE  NotesInv' /\ NotesTold' /\ SessionsGrow
<1>1. IsTable(items) /\ IsTable(sessions) /\ IsTable(derivations)
  BY DEF NotesInv
<1>2. SessionsGrow
  BY <1>1, SessionsSame
<1>3. DOMAIN items' = DOMAIN items /\ items'[i] = row /\ \A j \in DOMAIN items : j # i => items'[j] = items[j]
  BY <1>1, RowChanged
<1>4. IsTable(items')
  BY <1>1, RowChanged
<1>5. ItemReads(row)'
  BY <1>2, ItemStill
<1>6. \A j \in DOMAIN items' : (\E k \in DOMAIN items : items'[j] = items[k]) \/ ItemReads(items[j])'
  <2>1. ItemReads(items[i])'
    BY <1>3, <1>5
  <2> QED
    BY <1>3, <2>1
<1>7. NotesInv'
  BY <1>1, <1>2, <1>4, <1>6, NotesKept
<1>8. PICK rows, k, now : rows = items /\ k = i /\ now = row /\ IsTable(rows) /\ k \in DOMAIN rows
  BY <1>1
<1>9. LET u == [rows EXCEPT ![k] = now] IN
      /\ (now.claim = None <=> rows[k].claim = None) => Cardinality(Promoted(u)) = Cardinality(Promoted(rows))
      /\ now.claim # None /\ rows[k].claim = None => Cardinality(Promoted(u)) = Cardinality(Promoted(rows)) + 1
  BY ONLY <1>8, PromotedChanged
<1>10. /\ row.claim = items[i].claim => Cardinality(Promoted(items')) = Cardinality(Promoted(items))
       /\ row.claim # None /\ items[i].claim = None => Cardinality(Promoted(items')) = Cardinality(Promoted(items)) + 1
  BY <1>8, <1>9
<1>11. NotesTold'
  BY <1>10 DEF NotesTold, Writes, Superseding
<1> QED
  BY <1>2, <1>7, <1>11

LEMMA TermsOf ==
  ASSUME NotesInv, IsTable(versions), NEW i \in DOMAIN items, NEW scope \in {"SONG", "VERSION"}, NEW key \in Key
  PROVE  /\ Terms(i, scope, key) = AskedOf(sessions[items[i].session], Terms(i, scope, key))
         /\ Terms(i, scope, key).scope = scope
         /\ Terms(i, scope, key) # None
         /\ Terms(i, scope, key).on # None => Terms(i, scope, key) \in AllTerms
<1>1. PICK session, terms : session = sessions[items[i].session] /\ terms = Terms(i, scope, key)
  OBVIOUS
<1>2. SessionReads(session)
  BY <1>1 DEF NotesInv, ItemReads
<1>3. terms = [scope |-> scope, on |-> IF scope = "SONG" THEN session.song ELSE session.version, key |-> key]
  BY <1>1 DEF Terms
<1>4. terms.scope = scope /\ terms.key = key /\ terms.on = IF scope = "SONG" THEN session.song ELSE session.version
  BY <1>3
<1>5. terms.on \in Song \cup DOMAIN versions \cup {None}
  BY <1>2, <1>4 DEF SessionReads, Known
<1>6. terms = AskedOf(session, terms)
  BY <1>3, <1>4 DEF AskedOf
<1>7. terms.on # None => terms \in AllTerms
  BY <1>3, <1>4, <1>5 DEF AllTerms
<1>8. terms # None
  <2>1. DOMAIN versions \subseteq Nat
    BY TableIs
  <2>2. terms \in [scope : {"SONG", "VERSION"}, on : Song \cup Nat \cup {None}, key : Key]
    BY <1>3, <1>4, <1>5, <2>1
  <2> QED
    BY <2>2, TermsAssumption
<1> QED
  BY <1>1, <1>4, <1>6, <1>7, <1>8

LEMMA DerivationWritten ==
  ASSUME LinesInv, VersionsInv, NotesInv, NotesTold, RowsKept, NEW output, NEW input, RecordDerivation(output, input),
         UNCHANGED sessionVars
  PROVE  NotesInv' /\ NotesTold' /\ SessionsGrow /\ Writes({"PROVENANCE_RECORDED"})
<1>1. PICK s, v, row : /\ s = SongOfObject(output) /\ v = IF output[1] = "VERSION" THEN output[2] ELSE None
                       /\ row = [song |-> s, output |-> output, input |-> input]
  OBVIOUS
<1>2. /\ output \in Object /\ input \in Object \cup {External} /\ (input = External \/ SongOfObject(input) = s)
      /\ derivations' = Append(derivations, row) /\ Log(<<Event("PROVENANCE_RECORDED", s, v)>>)
      /\ UNCHANGED <<songs, versions, assets>>
  BY <1>1 DEF RecordDerivation
<1>3. LineReads(s, v) /\ s \in Known
  <2>1. CASE \E w \in DOMAIN versions : output = <<"VERSION", w>>
    BY <1>1, <2>1 DEF SongOfObject, LineReads, VersionsInv, VersionRow, VersionsOf
  <2>2. CASE \E a \in DOMAIN assets : output = <<"ASSET", a>>
    BY <1>1, <2>2 DEF SongOfObject, LineReads, VersionsInv, AssetRow
  <2> QED
    BY <1>2, <2>1, <2>2 DEF Object
<1>4. LineReads(s, v)'
  BY <1>2, <1>3, SameReads
<1>5. IsTable(events) /\ IsTable(derivations) /\ IsTable(sessions) /\ IsTable(items)
  BY DEF LinesInv, NotesInv
<1>6. Writes({"PROVENANCE_RECORDED"})
  BY <1>2, <1>4, <1>5, WritesOne
<1>7. DerivationReads(row)
  BY <1>1, <1>2, <1>3 DEF DerivationReads
<1>8. DerivationReads(row)'
  BY <1>7, DerivationStill
<1>9. IsTable(derivations)
  BY <1>5
<1>10. /\ IsTable(derivations') /\ Len(derivations') = Len(derivations) + 1 /\ DOMAIN derivations' = 1..(Len(derivations) + 1)
       /\ DOMAIN derivations = 1..Len(derivations) /\ Len(derivations) \in Nat
       /\ derivations'[Len(derivations) + 1] = row /\ \A j \in DOMAIN derivations : derivations'[j] = derivations[j]
  BY <1>2, <1>9, RowAppended, TableIs
<1>11. UNCHANGED <<sessions, items>>
  BY DEF sessionVars
<1>12. SessionsGrow
  BY <1>5, <1>11, SessionsSame
<1>13. \A j \in DOMAIN derivations' :
          (\E k \in DOMAIN derivations : derivations'[j] = derivations[k]) \/ DerivationReads(derivations[j])'
  <2>1. PICK n : n = Len(derivations) + 1
    OBVIOUS
  <2>2. DerivationReads(derivations[n])'
    BY <1>8, <1>10, <2>1
  <2> QED
    BY <1>10, <2>1, <2>2
<1>14. NotesInv'
  BY <1>5, <1>10, <1>11, <1>12, <1>13, NotesKept
<1>15. NotesTold'
  BY <1>6, <1>10, <1>11 DEF NotesTold, Writes, Superseding
<1> QED
  BY <1>6, <1>12, <1>14, <1>15

\* What a promotion tells, and what it makes of its item.
LEMMA Promotes ==
  ASSUME LinesInv, VersionsInv, NotesInv, NotesTold, ClaimsTold, RowsKept, UNCHANGED <<songs, versions, sessions, derivations>>,
         UNCHANGED claims, Len(claims) \in Nat,
         NEW i \in DOMAIN items, NEW terms, terms \in AllTerms, terms # None, terms = AskedOf(sessions[items[i].session], terms),
         items[i].claim = None, NEW row, row = [items[i] EXCEPT !.request = terms, !.claim = terms],
         items' = [items EXCEPT ![i] = row], Log(PromotionEvents(i, terms))
  PROVE  /\ NotesInv' /\ NotesTold' /\ ClaimsTold' /\ SessionsGrow
         /\ Writes({"EVIDENCE_CLAIM_RECORDED", "SESSION_ITEM_PROMOTED"})
<1>1. PICK old, session, s, v, w : /\ old = items[i] /\ session = sessions[items[i].session]
                              /\ s = session.song /\ v = session.version
                              /\ w = IF terms.scope = "VERSION" THEN terms.on ELSE None
  OBVIOUS
<1>2. ItemReads(old) /\ SessionReads(session)
  BY <1>1 DEF NotesInv, ItemReads
<1>3. LineReads(s, v) /\ s \in Known
  BY <1>1, <1>2 DEF SessionReads, LineReads
<1>4. terms.scope = "VERSION" => terms.on = v
  <2>1. terms = [scope |-> terms.scope, on |-> IF terms.scope = "SONG" THEN s ELSE v, key |-> terms.key]
    BY <1>1 DEF AskedOf
  <2> QED
    BY <2>1
<1>5. LineReads(s, w)
  BY <1>1, <1>3, <1>4 DEF LineReads
<1>6. LineReads(s, v)' /\ LineReads(s, w)'
  BY <1>3, <1>5, SameReads
<1>7. Log(<<Event("EVIDENCE_CLAIM_RECORDED", s, w), Event("SESSION_ITEM_PROMOTED", s, v)>>)
  BY <1>1 DEF PromotionEvents
<1>8. PICK T : T = {"EVIDENCE_CLAIM_RECORDED", "SESSION_ITEM_PROMOTED"}
  OBVIOUS
<1>9. Writes(T)
  <2>1. "EVIDENCE_CLAIM_RECORDED" # "SESSION_ITEM_PROMOTED" /\ IsTable(events)
    BY DEF LinesInv
  <2> QED
    BY <1>6, <1>7, <1>8, <2>1, WritesTwo
<1>10. row = [old EXCEPT !.request = terms, !.claim = terms]
  BY <1>1
<1>11. /\ row.session = old.session /\ row.request = terms /\ row.claim = terms
       /\ row \in [session : DOMAIN sessions, kind : Kind, written : BOOLEAN,
                  request : {None} \cup AllTerms, claim : {None} \cup AllTerms]
  BY <1>2, <1>10 DEF ItemReads
<1>12. ItemReads(row)
  BY <1>1, <1>11 DEF ItemReads
<1>13. "PROVENANCE_RECORDED" \notin T /\ "SESSION_ITEM_PROMOTED" \in T /\ row.claim # None
  BY <1>8, <1>11
<1>14. NotesInv' /\ NotesTold' /\ SessionsGrow
  BY <1>9, <1>12, <1>13, ItemPut
<1>15. ClaimsTold'
  <2>1. IsTable(events)
    BY DEF LinesInv
  <2>2. Tally(events, "SESSION_ITEM_PROMOTED") \in Nat
    BY <2>1, TallyAppended
  <2>4. /\ Tally(events', "EVIDENCE_CLAIM_RECORDED") = Tally(events, "EVIDENCE_CLAIM_RECORDED") + 1
        /\ Tally(events', "SESSION_ITEM_PROMOTED") = Tally(events, "SESSION_ITEM_PROMOTED") + 1
    BY <1>8, <1>9 DEF Writes, Superseding
  <2> QED
    BY <2>2, <2>4 DEF ClaimsTold
<1> QED
  BY <1>8, <1>9, <1>14, <1>15

LEMMA NotesWritten ==
  ASSUME LinesInv, PointersInv, VersionsInv, NotesInv, NotesTold, IsTable(claims), ClaimsTold, NotesStep
  PROVE  /\ RowsKept /\ NotesInv' /\ NotesTold' /\ ClaimsTold' /\ SessionsGrow
         /\ \E T \in SUBSET (NotesWords \cup {"EVIDENCE_CLAIM_RECORDED"}) : Writes(T)
<1> DEFINE Written == /\ RowsKept /\ NotesInv' /\ NotesTold' /\ ClaimsTold' /\ SessionsGrow
                      /\ \E T \in SUBSET (NotesWords \cup {"EVIDENCE_CLAIM_RECORDED"}) : Writes(T)
<1>1. UNCHANGED <<songs, versions, assets, claims>>
  BY DEF NotesStep, SessionStep, NoteStep, StartSession, CloseSession, AppendScratch, PromoteDecision,
     RequestPromotion, RecordPromotion, RecordDerivation, recordVars, lineageVars
<1>2. /\ IsTable(versions) /\ IsTable(assets) /\ IsTable(events) /\ IsTable(sessions) /\ IsTable(items) /\ IsTable(derivations)
      /\ Len(claims) \in Nat
  BY TableIs DEF PointersInv, VersionsInv, LinesInv, NotesInv
<1>3. RowsKept
  <2>1. IsTable(versions) /\ IsTable(assets)
    BY <1>2
  <2>2. Kept(versions, versions', DOMAIN versions) /\ Kept(assets, assets', DOMAIN assets)
    BY <1>1, <2>1, KeptSame
  <2> QED
    BY <1>1, <2>2 DEF RowsKept, Known
<1>4. \A s, v : LineReads(s, v) => LineReads(s, v)'
  BY <1>1, SameReads
<1>5. ASSUME NEW i \in DOMAIN sessions PROVE LineReads(sessions[i].song, sessions[i].version)
  BY DEF NotesInv, SessionReads, LineReads
<1>6. ASSUME NEW T, Writes(T), UNCHANGED <<items, derivations>>, SessionsGrow, T \subseteq NotesWords,
             "SESSION_ITEM_PROMOTED" \notin T, "PROVENANCE_RECORDED" \notin T,
             \A i \in DOMAIN sessions' : (\E j \in DOMAIN sessions : sessions'[i] = sessions[j]) \/ SessionReads(sessions[i])'
      PROVE  Written
  <2>1. NotesInv'
    BY <1>2, <1>3, <1>6, NotesKept
  <2>2. NotesTold'
    BY <1>6 DEF NotesTold, Writes, Superseding
  <2>3. "EVIDENCE_CLAIM_RECORDED" \notin T
    BY <1>6 DEF NotesWords
  <2>4. ClaimsTold'
    BY <1>1, <1>6, <2>3 DEF ClaimsTold, Writes, Superseding
  <2> QED
    BY <1>3, <1>6, <2>1, <2>2, <2>4
<1>7. ASSUME NEW s \in Song, StartSession(s, None)
      PROVE  Written
  <2>1. PICK v, row, T : v = songs[s].current /\ row = [song |-> s, version |-> v, state |-> "OPEN"] /\ T = {"SESSION_STARTED"}
    OBVIOUS
  <2>2. s \in Known /\ sessions' = Append(sessions, row) /\ Log(<<Event("SESSION_STARTED", s, v)>>)
        /\ UNCHANGED <<items, derivations>>
    BY <1>7, <2>1 DEF StartSession, recordVars
  <2>3. v \in VersionsOf(s) \cup {None}
    BY <2>1, <2>2 DEF VersionsInv
  <2>4. SessionReads(row) /\ LineReads(s, v)
    BY <2>1, <2>2, <2>3 DEF SessionReads, LineReads, VersionsOf
  <2>5. Writes(T)
    BY <1>2, <1>4, <2>1, <2>2, <2>4, WritesOne
  <2>6. SessionReads(row)'
    BY <1>3, <2>4, SessionStill
  <2>7. IsTable(sessions)
    BY <1>2
  <2>8. /\ IsTable(sessions') /\ DOMAIN sessions' = 1..(Len(sessions) + 1) /\ DOMAIN sessions = 1..Len(sessions)
        /\ Len(sessions) \in Nat /\ sessions'[Len(sessions) + 1] = row
        /\ \A i \in DOMAIN sessions : sessions'[i] = sessions[i]
    BY <2>2, <2>7, RowAppended, TableIs
  <2>9. SessionsGrow
    BY <2>8 DEF SessionsGrow
  <2>10. \A i \in DOMAIN sessions' : (\E j \in DOMAIN sessions : sessions'[i] = sessions[j]) \/ SessionReads(sessions[i])'
    <3>1. PICK n : n = Len(sessions) + 1
      OBVIOUS
    <3>2. SessionReads(sessions[n])'
      BY <2>6, <2>8, <3>1
    <3> QED
      BY <2>8, <3>1, <3>2
  <2>11. T \subseteq NotesWords /\ "SESSION_ITEM_PROMOTED" \notin T /\ "PROVENANCE_RECORDED" \notin T
    BY <2>1 DEF NotesWords
  <2> QED
    BY <1>6, <2>2, <2>5, <2>9, <2>10, <2>11
<1>8. ASSUME NEW i, CloseSession(i)
      PROVE  Written
  <2>1. PICK s, v, row, T : s = sessions[i].song /\ v = sessions[i].version
                            /\ row = [sessions[i] EXCEPT !.state = "CLOSED"] /\ T = {"SESSION_CLOSED"}
    OBVIOUS
  <2>2. i \in DOMAIN sessions /\ sessions' = [sessions EXCEPT ![i] = row] /\ Log(<<Event("SESSION_CLOSED", s, v)>>)
        /\ UNCHANGED <<items, derivations>>
    BY <1>8, <2>1 DEF CloseSession, IsOpen, recordVars
  <2>3. SessionReads(sessions[i])
    BY <2>2 DEF NotesInv
  <2>4. SessionReads(row) /\ row.song = s /\ row.version = v /\ row.state = "CLOSED"
    BY <2>1, <2>3 DEF SessionReads
  <2>5. Writes(T)
    BY <1>2, <1>4, <1>5, <2>1, <2>2, WritesOne
  <2>6. SessionReads(row)'
    BY <1>3, <2>4, SessionStill
  <2>7. IsTable(sessions)
    BY <1>2
  <2>8. /\ IsTable(sessions') /\ DOMAIN sessions' = DOMAIN sessions /\ sessions'[i] = row
        /\ \A j \in DOMAIN sessions : j # i => sessions'[j] = sessions[j]
    BY <2>2, <2>7, RowChanged
  <2>9. SessionsGrow
    BY <2>1, <2>2, <2>4, <2>8 DEF SessionsGrow
  <2>10. \A j \in DOMAIN sessions' : (\E k \in DOMAIN sessions : sessions'[j] = sessions[k]) \/ SessionReads(sessions[j])'
    <3>1. SessionReads(sessions[i])'
      BY <2>6, <2>8
    <3> QED
      BY <2>8, <3>1
  <2>11. T \subseteq NotesWords /\ "SESSION_ITEM_PROMOTED" \notin T /\ "PROVENANCE_RECORDED" \notin T
    BY <2>1 DEF NotesWords
  <2> QED
    BY <1>6, <2>2, <2>5, <2>9, <2>10, <2>11
<1>9. ASSUME NEW i, NEW kind \in Kind, NEW written \in BOOLEAN, AppendScratch(i, kind, written)
      PROVE  Written
  <2>1. PICK row, T : row = [session |-> i, kind |-> kind, written |-> written, request |-> None, claim |-> None]
                      /\ T = {"SESSION_SCRATCH_ADDED"}
    OBVIOUS
  <2>2. i \in DOMAIN sessions /\ items' = Append(items, row)
        /\ Log(<<Event("SESSION_SCRATCH_ADDED", sessions[i].song, sessions[i].version)>>)
        /\ UNCHANGED <<sessions, derivations>>
    BY <1>9, <2>1 DEF AppendScratch, IsOpen, recordVars
  <2>3. Writes(T)
    <3>1. PICK s, v : s = sessions[i].song /\ v = sessions[i].version
      OBVIOUS
    <3> QED
      BY <1>2, <1>4, <1>5, <2>1, <2>2, <3>1, WritesOne
  <2>4. SessionsGrow
    BY <1>2, <2>2, SessionsSame
  <2>5. ItemReads(row) /\ row.claim = None
    BY <2>1, <2>2 DEF ItemReads
  <2>6. ItemReads(row)'
    BY <1>3, <2>4, <2>5, ItemStill
  <2>7. IsTable(items)
    BY <1>2
  <2>8. /\ IsTable(items') /\ DOMAIN items' = 1..(Len(items) + 1) /\ DOMAIN items = 1..Len(items)
        /\ Len(items) \in Nat /\ items'[Len(items) + 1] = row /\ \A j \in DOMAIN items : items'[j] = items[j]
    BY <2>2, <2>7, RowAppended, TableIs
  <2>9. \A j \in DOMAIN items' : (\E k \in DOMAIN items : items'[j] = items[k]) \/ ItemReads(items[j])'
    <3>1. PICK n : n = Len(items) + 1
      OBVIOUS
    <3>2. ItemReads(items[n])'
      BY <2>6, <2>8, <3>1
    <3> QED
      BY <2>8, <3>1, <3>2
  <2>10. NotesInv'
    BY <1>2, <1>3, <2>2, <2>4, <2>8, <2>9, NotesKept
  <2>11. Cardinality(Promoted(items')) = Cardinality(Promoted(items))
    BY <2>2, <2>5, <2>7, PromotedAppended
  <2>12. NotesTold'
    BY <2>1, <2>2, <2>3, <2>11 DEF NotesTold, Writes, Superseding
  <2>13. ClaimsTold'
    BY <1>1, <2>1, <2>3 DEF ClaimsTold, Writes, Superseding
  <2>14. T \subseteq NotesWords
    BY <2>1 DEF NotesWords
  <2> QED
    BY <1>3, <2>3, <2>4, <2>10, <2>12, <2>13, <2>14
<1>10. ASSUME NEW i \in DOMAIN items, NEW scope \in {"SONG", "VERSION"}, NEW key \in Key, RequestPromotion(i, scope, key)
      PROVE  Written
  <2>1. PICK old, terms, row : old = items[i] /\ terms = Terms(i, scope, key) /\ row = [old EXCEPT !.request = terms]
    OBVIOUS
  <2>2. /\ old.request = None /\ terms.on # None /\ items' = [items EXCEPT ![i] = row]
        /\ UNCHANGED <<sessions, derivations, events>>
    BY <1>10, <2>1 DEF RequestPromotion, lineageVars, recordVars
  <2>3. terms = AskedOf(sessions[old.session], terms) /\ terms \in AllTerms
    BY <1>2, <2>1, <2>2, TermsOf
  <2>4. ItemReads(old)
    BY <2>1 DEF NotesInv
  <2>5. old.claim = None
    BY <2>2, <2>4 DEF ItemReads
  <2>6. row.claim = old.claim /\ row.request = terms /\ row.session = old.session
        /\ row \in [session : DOMAIN sessions, kind : Kind, written : BOOLEAN,
               request : {None} \cup AllTerms, claim : {None} \cup AllTerms]
    BY <2>1, <2>3, <2>4 DEF ItemReads
  <2>7. ItemReads(row)
    BY <2>3, <2>5, <2>6 DEF ItemReads
  <2>8. PICK T : T = {} /\ Writes(T)
    BY <1>2, <2>2, WritesNothing
  <2>9. "PROVENANCE_RECORDED" \notin T /\ "SESSION_ITEM_PROMOTED" \notin T /\ row.claim = items[i].claim
    BY <2>1, <2>6, <2>8
  <2>10. NotesInv' /\ NotesTold' /\ SessionsGrow
    BY <1>3, <2>2, <2>7, <2>8, <2>9, ItemPut
  <2>11. ClaimsTold'
    BY <1>1, <2>2 DEF ClaimsTold
  <2> QED
    BY <1>3, <2>8, <2>10, <2>11
<1>11. ASSUME NEW i \in DOMAIN items, NEW terms, terms \in AllTerms, terms # None, terms = AskedOf(sessions[items[i].session], terms),
              items[i].claim = None, items' = [items EXCEPT ![i].request = terms, ![i].claim = terms],
              Log(PromotionEvents(i, terms)), UNCHANGED <<sessions, derivations>>
      PROVE  Written
  <2>1. PICK row : row = [items[i] EXCEPT !.request = terms, !.claim = terms]
    OBVIOUS
  <2>2. items' = [items EXCEPT ![i] = row]
    BY <1>11, <2>1
  <2>3. /\ NotesInv' /\ NotesTold' /\ ClaimsTold' /\ SessionsGrow
        /\ Writes({"EVIDENCE_CLAIM_RECORDED", "SESSION_ITEM_PROMOTED"})
    BY <1>1, <1>2, <1>3, <1>11, <2>1, <2>2, Promotes
  <2> QED
    BY <1>3, <2>3 DEF NotesWords
<1>12. ASSUME NEW i \in DOMAIN items, NEW scope \in {"SONG", "VERSION"}, NEW key \in Key, RecordPromotion(i, scope, key)
      PROVE  Written
  <2>1. PICK terms : terms = Terms(i, scope, key)
    OBVIOUS
  <2>2. /\ items[i].claim = None /\ items[i].request = terms /\ items' = [items EXCEPT ![i].claim = terms]
        /\ Log(PromotionEvents(i, terms)) /\ UNCHANGED <<sessions, derivations>>
    BY <1>12, <2>1 DEF RecordPromotion, recordVars
  <2>3. terms = AskedOf(sessions[items[i].session], terms) /\ terms # None
    BY <1>2, <2>1, TermsOf
  <2>4. ItemReads(items[i])
    BY DEF NotesInv
  <2>5. terms \in AllTerms
    BY <2>2, <2>3, <2>4 DEF ItemReads
  <2>6. items' = [items EXCEPT ![i].request = terms, ![i].claim = terms]
    <3>1. PICK old, row : old = items[i] /\ row = [old EXCEPT !.claim = terms]
      OBVIOUS
    <3>2. old.request = terms /\ ItemReads(old)
      BY <2>2, <2>4, <3>1
    <3>3. row = [old EXCEPT !.request = terms, !.claim = terms]
      <4>1. PICK k, w, q : k = old.kind /\ w = old.written /\ q = old.session
        OBVIOUS
      <4>2. old = [session |-> q, kind |-> k, written |-> w, request |-> terms, claim |-> old.claim]
        BY <3>2, <4>1 DEF ItemReads
      <4>3. [old EXCEPT !.request = terms] = old
        BY <4>2
      <4> QED
        BY <3>1, <4>3
    <3>4. items' = [items EXCEPT ![i] = row]
      BY <2>2, <3>1
    <3> QED
      BY <3>1, <3>3, <3>4
  <2> QED
    BY <1>11, <2>2, <2>3, <2>5, <2>6
<1>13. ASSUME NEW i \in DOMAIN items, NEW scope \in {"SONG", "VERSION"}, PromoteDecision(i, scope)
      PROVE  Written
  <2>1. PICK terms : terms = Terms(i, scope, "songwriting")
    OBVIOUS
  <2>2. /\ items[i].claim = None /\ terms.on # None /\ items' = [items EXCEPT ![i].request = terms, ![i].claim = terms]
        /\ Log(PromotionEvents(i, terms)) /\ UNCHANGED <<sessions, derivations>>
    BY <1>13, <2>1 DEF PromoteDecision, recordVars
  <2>3. terms = AskedOf(sessions[items[i].session], terms) /\ terms # None /\ terms \in AllTerms
    BY <1>2, <2>1, <2>2, KeyAssumption, TermsOf
  <2> QED
    BY <1>11, <2>2, <2>3
<1>14. ASSUME NEW output, NEW input, RecordDerivation(output, input), UNCHANGED sessionVars
      PROVE  Written
  <2>1. PICK T : T = {"PROVENANCE_RECORDED"}
    OBVIOUS
  <2>2. NotesInv' /\ NotesTold' /\ SessionsGrow /\ Writes(T)
    BY <1>3, <1>14, <2>1, DerivationWritten
  <2>3. ClaimsTold'
    BY <1>1, <2>1, <2>2 DEF ClaimsTold, Writes, Superseding
  <2>4. T \subseteq NotesWords
    BY <2>1 DEF NotesWords
  <2> QED
    BY <1>3, <2>2, <2>3, <2>4
<1>15. CASE SessionStep
  BY <1>7, <1>8, <1>15 DEF SessionStep
<1>16. CASE NoteStep
  BY <1>9, <1>10, <1>12, <1>13, <1>14, <1>16 DEF NoteStep
<1> QED
  BY <1>15, <1>16 DEF NotesStep

-----------------------------------------------------------------------------
(* What was put off and what was said of ideas                               *)

DeferralReads(row) ==
  /\ row.scope \in Scope /\ row.song \in Known
  /\ row.scope = "LATER_THIS_SONG" => row.session # 0
  /\ row.session # 0 => row.session \in SessionsOf(row.song)
  /\ row.since \in DOMAIN events /\ events[row.since].type = "SUGGESTION_DEFERRED"

SuggestionsInv ==
  /\ IsTable(deferrals) /\ \A d \in DOMAIN deferrals : DeferralReads(deferrals[d])
  /\ IsTable(opinions) /\ \A o \in DOMAIN opinions : BindingValid(opinions[o].on)

SuggestionsTold ==
  /\ Tally(events, "SUGGESTION_DEFERRED") = Len(deferrals)
  /\ Tally(events, "SUGGESTION_FEEDBACK_RECORDED") = Len(opinions)

SuggestionsWords == {"SUGGESTION_DEFERRED", "SUGGESTION_FEEDBACK_RECORDED"}

LEMMA DeferralStill ==
  ASSUME RowsKept, SessionsGrow, Kept(events, events', DOMAIN events), NEW row, DeferralReads(row)
  PROVE  DeferralReads(row)'
<1>1. \A s : SessionsOf(s) \subseteq SessionsOf(s)'
  BY DEF SessionsGrow, SessionsOf
<1> QED
  BY <1>1 DEF DeferralReads, RowsKept, Kept

LEMMA OpinionStill ==
  ASSUME SessionsGrow, NEW on, BindingValid(on) PROVE BindingValid(on)'
BY DEF SessionsGrow, SessionsOf, BindingValid

LEMMA SuggestionsKept ==
  ASSUME SuggestionsInv, RowsKept, SessionsGrow, Kept(events, events', DOMAIN events), IsTable(deferrals'), IsTable(opinions'),
         \A d \in DOMAIN deferrals' : (\E e \in DOMAIN deferrals : deferrals'[d] = deferrals[e]) \/ DeferralReads(deferrals[d])',
         \A o \in DOMAIN opinions' : (\E p \in DOMAIN opinions : opinions'[o] = opinions[p]) \/ BindingValid(opinions[o].on)'
  PROVE  SuggestionsInv'
<1>1. ASSUME NEW d \in DOMAIN deferrals' PROVE DeferralReads(deferrals[d])'
  <2>1. CASE \E e \in DOMAIN deferrals : deferrals'[d] = deferrals[e]
    <3>1. PICK row : row = deferrals'[d] /\ DeferralReads(row)
      BY <2>1 DEF SuggestionsInv
    <3>2. DeferralReads(row)'
      BY <3>1, DeferralStill
    <3> QED
      BY <3>1, <3>2
  <2> QED
    BY <2>1
<1>2. ASSUME NEW o \in DOMAIN opinions' PROVE BindingValid(opinions[o].on)'
  <2>1. CASE \E p \in DOMAIN opinions : opinions'[o] = opinions[p]
    <3>1. PICK on : on = opinions'[o].on /\ BindingValid(on)
      BY <2>1 DEF SuggestionsInv
    <3>2. BindingValid(on)'
      BY <3>1, OpinionStill
    <3> QED
      BY <3>1, <3>2
  <2> QED
    BY <2>1
<1> QED
  BY <1>1, <1>2 DEF SuggestionsInv

LEMMA SuggestionsFramed ==
  ASSUME SuggestionsInv, SuggestionsTold, UNCHANGED <<deferrals, opinions>>, RowsKept, SessionsGrow,
         Kept(events, events', DOMAIN events), Untold(SuggestionsWords)
  PROVE  SuggestionsInv' /\ SuggestionsTold'
<1>1. SuggestionsInv'
  BY SuggestionsKept DEF SuggestionsInv
<1>2. SuggestionsTold'
  BY DEF SuggestionsTold, Untold, SuggestionsWords
<1> QED
  BY <1>1, <1>2

\* The latest session of a Song is one of its sessions.
LEMMA LatestIs ==
  ASSUME IsTable(sessions), NEW s
  PROVE  LatestForSong(s) # 0 => LatestForSong(s) \in SessionsOf(s)
<1>1. Len(sessions) \in Nat /\ SessionsOf(s) \in SUBSET (1..Len(sessions))
  BY TableIs DEF SessionsOf
<1>2. SessionsOf(s) # {} => Greatest(SessionsOf(s)) \in SessionsOf(s)
  BY <1>1, GreatestIs
<1> QED
  BY <1>2 DEF LatestForSong, Greatest

LEMMA IdeaDeferred ==
  ASSUME LinesInv, PointersInv, NotesInv, SuggestionsInv, SuggestionsTold, RowsKept,
         UNCHANGED <<songs, versions, sessions, opinions>>,
         NEW key, NEW scope \in Scope, Defer(key, scope)
  PROVE  SuggestionsInv' /\ SuggestionsTold' /\ \E T \in SUBSET SuggestionsWords : Writes(T)
<1>1. IsTable(sessions) /\ IsTable(events) /\ IsTable(deferrals) /\ IsTable(opinions) /\ Len(events) \in Nat
  BY TableIs DEF LinesInv, NotesInv, SuggestionsInv
<1>2. SessionsGrow
  BY <1>1, SessionsSame
<1>3. CASE UNCHANGED <<deferrals, events>>
  <2>1. PICK T : T = {} /\ Writes(T)
    BY <1>1, <1>3, WritesNothing
  <2>2. Kept(events, events', DOMAIN events)
    BY <2>1 DEF Writes
  <2>3. Untold(SuggestionsWords)
    BY <1>3 DEF Untold
  <2>4. SuggestionsInv' /\ SuggestionsTold'
    BY <1>2, <1>3, <2>2, <2>3, SuggestionsFramed
  <2> QED
    BY <2>1, <2>4
<1>4. CASE Insert(key, scope) /\ active # None /\ (scope = "LATER_THIS_SONG" => LatestForSong(active) # 0)
  <2>1. PICK s, i, n, row : /\ s = active /\ i = LatestForSong(active) /\ n = Len(events) + 1
                            /\ row = [song |-> s, session |-> i, key |-> key, scope |-> scope, since |-> n]
    OBVIOUS
  <2>2. deferrals' = Append(deferrals, row) /\ Log(<<Event("SUGGESTION_DEFERRED", s, None)>>)
    BY <1>4, <2>1 DEF Insert
  <2>3. s \in Known /\ (i # 0 => i \in SessionsOf(s)) /\ (scope = "LATER_THIS_SONG" => i # 0)
    BY <1>1, <1>4, <2>1, LatestIs DEF PointersInv
  <2>4. LineReads(s, None)'
    BY <2>3, SameReads DEF LineReads
  <2>5. Writes({"SUGGESTION_DEFERRED"}) /\ n \in DOMAIN events' /\ events'[n] = Event("SUGGESTION_DEFERRED", s, None)
    BY <1>1, <2>1, <2>2, <2>4, WritesOne
  <2>6. Kept(events, events', DOMAIN events) /\ events'[n].type = "SUGGESTION_DEFERRED"
    BY <2>5 DEF Writes, Event
  <2>7. \A t : SessionsOf(t)' = SessionsOf(t)
    BY DEF SessionsOf
  <2>8. Known' = Known
    BY DEF Known
  <2>9. row.song = s /\ row.session = i /\ row.scope = scope /\ row.since = n
    BY <2>1
  <2>10. DeferralReads(row)'
    BY <2>3, <2>5, <2>6, <2>7, <2>8, <2>9 DEF DeferralReads
  <2>11. IsTable(deferrals)
    BY <1>1
  <2>12. /\ IsTable(deferrals') /\ Len(deferrals') = Len(deferrals) + 1 /\ DOMAIN deferrals' = 1..(Len(deferrals) + 1)
         /\ DOMAIN deferrals = 1..Len(deferrals) /\ Len(deferrals) \in Nat /\ deferrals'[Len(deferrals) + 1] = row
         /\ \A d \in DOMAIN deferrals : deferrals'[d] = deferrals[d]
    BY <2>2, <2>11, RowAppended, TableIs
  <2>13. \A d \in DOMAIN deferrals' : (\E e \in DOMAIN deferrals : deferrals'[d] = deferrals[e]) \/ DeferralReads(deferrals[d])'
    <3>1. PICK m : m = Len(deferrals) + 1
      OBVIOUS
    <3>2. DeferralReads(deferrals[m])'
      BY <2>10, <2>12, <3>1
    <3> QED
      BY <2>12, <3>1, <3>2
  <2>14. SuggestionsInv'
    BY <1>1, <1>2, <2>6, <2>12, <2>13, SuggestionsKept
  <2>15. SuggestionsTold'
    BY <2>5, <2>12 DEF SuggestionsTold, Writes, Superseding
  <2> QED
    BY <2>5, <2>14, <2>15 DEF SuggestionsWords
<1> QED
  BY <1>3, <1>4 DEF Defer

LEMMA SuggestionsWritten ==
  ASSUME LinesInv, PointersInv, VersionsInv, NotesInv, SuggestionsInv, SuggestionsTold, SuggestionStep
  PROVE  SuggestionsInv' /\ SuggestionsTold' /\ \E T \in SUBSET SuggestionsWords : Writes(T)
<1>1. UNCHANGED <<songs, versions, assets, sessions>>
  BY DEF SuggestionStep, Suggest, PutOff, ForgetPrompt, NotNow, RecordOpinion, recordVars, lineageVars, sessionVars
<1>2. /\ IsTable(versions) /\ IsTable(assets) /\ IsTable(sessions) /\ IsTable(events) /\ IsTable(deferrals) /\ IsTable(opinions)
  BY DEF PointersInv, VersionsInv, NotesInv, LinesInv, SuggestionsInv
<1>3. RowsKept
  <2>1. IsTable(versions) /\ IsTable(assets)
    BY <1>2
  <2>2. Kept(versions, versions', DOMAIN versions) /\ Kept(assets, assets', DOMAIN assets)
    BY <1>1, <2>1, KeptSame
  <2> QED
    BY <1>1, <2>2 DEF RowsKept, Known
<1>4. SessionsGrow
  BY <1>1, <1>2, SessionsSame
<1>5. CASE UNCHANGED <<deferrals, opinions, events>>
  <2>1. PICK T : T = {} /\ Writes(T)
    BY <1>2, <1>5, WritesNothing
  <2>2. Kept(events, events', DOMAIN events)
    BY <2>1 DEF Writes
  <2>3. Untold(SuggestionsWords)
    BY <1>5 DEF Untold
  <2>4. SuggestionsInv' /\ SuggestionsTold'
    BY <1>3, <1>4, <1>5, <2>2, <2>3, SuggestionsFramed
  <2> QED
    BY <2>1, <2>4
<1>6. ASSUME NEW key, NEW scope \in Scope, Defer(key, scope), UNCHANGED opinions
      PROVE  SuggestionsInv' /\ SuggestionsTold' /\ \E T \in SUBSET SuggestionsWords : Writes(T)
  BY <1>1, <1>3, <1>6, IdeaDeferred
<1>7. ASSUME NEW direction, RecordOpinion(direction)
      PROVE  SuggestionsInv' /\ SuggestionsTold' /\ \E T \in SUBSET SuggestionsWords : Writes(T)
  <2>1. PICK on, s, row : on = prompt.on /\ s = active /\ row = [key |-> prompt.key, on |-> on, direction |-> direction]
    OBVIOUS
  <2>2. /\ s # None /\ BindingValid(on) /\ opinions' = Append(opinions, row) /\ UNCHANGED deferrals
        /\ Log(<<Event("SUGGESTION_FEEDBACK_RECORDED", s, None)>>)
    BY <1>7, <2>1 DEF RecordOpinion
  <2>3. s \in Known
    BY <2>1, <2>2 DEF PointersInv
  <2>4. LineReads(s, None)'
    BY <1>1, <2>3, SameReads DEF LineReads
  <2>5. Writes({"SUGGESTION_FEEDBACK_RECORDED"})
    BY <1>2, <2>2, <2>4, WritesOne
  <2>6. Kept(events, events', DOMAIN events)
    BY <2>5 DEF Writes
  <2>7. BindingValid(on)' /\ row.on = on
    BY <1>4, <2>1, <2>2, OpinionStill
  <2>8. IsTable(opinions)
    BY <1>2
  <2>9. /\ IsTable(opinions') /\ Len(opinions') = Len(opinions) + 1 /\ DOMAIN opinions' = 1..(Len(opinions) + 1)
        /\ DOMAIN opinions = 1..Len(opinions) /\ Len(opinions) \in Nat /\ opinions'[Len(opinions) + 1] = row
        /\ \A o \in DOMAIN opinions : opinions'[o] = opinions[o]
    BY <2>2, <2>8, RowAppended, TableIs
  <2>10. \A o \in DOMAIN opinions' : (\E p \in DOMAIN opinions : opinions'[o] = opinions[p]) \/ BindingValid(opinions[o].on)'
    <3>1. PICK m : m = Len(opinions) + 1
      OBVIOUS
    <3>2. BindingValid(opinions[m].on)'
      BY <2>7, <2>9, <3>1
    <3> QED
      BY <2>9, <3>1, <3>2
  <2>11. \A d \in DOMAIN deferrals' : \E e \in DOMAIN deferrals : deferrals'[d] = deferrals[e]
    BY <2>2
  <2>12. SuggestionsInv'
    BY <1>2, <1>3, <1>4, <2>2, <2>6, <2>9, <2>10, <2>11, SuggestionsKept
  <2>13. SuggestionsTold'
    BY <2>2, <2>5, <2>9 DEF SuggestionsTold, Writes, Superseding
  <2> QED
    BY <2>5, <2>12, <2>13 DEF SuggestionsWords
<1> QED
  BY <1>5, <1>6, <1>7 DEF SuggestionStep, Suggest, ForgetPrompt, PutOff, NotNow, lineageVars

-----------------------------------------------------------------------------
(* What was tried and observed, what is known and what got in the way        *)

EpisodeReads(row) ==
  /\ DOMAIN row = {"session", "observed", "decidedOn"}
  /\ row.session \in DOMAIN sessions /\ IsTable(row.observed)
  /\ row.decidedOn # None => row.decidedOn \in DOMAIN row.observed

AssessmentReads(a) ==
  /\ a.level \in Level /\ Assessable(a)
  /\ a.session # None => a.session \in DOMAIN sessions
  /\ a.evidence \subseteq DOMAIN claims

DecidedRows(rows) == {e \in DOMAIN rows : rows[e].decidedOn # None}
Assessed(of)      == UNION {{k} \X DOMAIN of[k] : k \in Skill}

LearningInv ==
  /\ \A e \in DOMAIN episodes : EpisodeReads(episodes[e])
  /\ DOMAIN skills = Skill
  /\ \A k \in Skill : IsTable(skills[k]) /\ \A i \in DOMAIN skills[k] : AssessmentReads(skills[k][i])
  /\ IsFiniteSet(Assessed(skills))
  /\ \A b \in bound : b.kind = "correct" => b.on \in Skill
  /\ IsTable(frictions) /\ \A i \in DOMAIN frictions : frictions[i].episode \in DOMAIN episodes

LearningTold ==
  /\ Tally(events, "LEARNING_EPISODE_STARTED") = Len(episodes)
  /\ Tally(events, "LEARNING_DECISION_RECORDED") = Cardinality(DecidedRows(episodes))
  /\ Tally(events, "SKILL_ASSESSED") = Cardinality(Assessed(skills))
  /\ Tally(events, "FRICTION_OBSERVED") = Len(frictions)

LearningWords ==
  {"LEARNING_EPISODE_STARTED", "LEARNING_CONSEQUENCE_RECORDED", "LEARNING_DECISION_RECORDED", "SKILL_ASSESSED",
   "FRICTION_OBSERVED"}

LEMMA FitsStill ==
  ASSUME VersionsInv, ScopesInv, RowsKept, Kept(claims, claims', DOMAIN claims), NEW c \in DOMAIN claims, NEW s, ClaimFits(c, s)
  PROVE  ClaimFits(c, s)'
<1>1. c \in DOMAIN claims' /\ claims'[c] = claims[c] /\ claims[c].scope \in Scopes
  BY DEF Kept, ScopesInv
<1>2. \A v \in DOMAIN versions : v \in DOMAIN versions' /\ versions'[v] = versions[v]
  BY DEF RowsKept, Kept
<1>3. claims[c].scope[1] = "VERSION" => claims[c].scope[2] \in DOMAIN versions
  <2>1. PICK scope : scope = claims[c].scope
    OBVIOUS
  <2>2. scope[1] = "VERSION" => scope[2] \in DOMAIN versions
    BY <1>1, <2>1 DEF Scopes
  <2> QED
    BY <2>1, <2>2
<1> QED
  BY <1>1, <1>2, <1>3 DEF ClaimFits

LEMMA AssessmentStill ==
  ASSUME VersionsInv, ScopesInv, RowsKept, Kept(claims, claims', DOMAIN claims), SessionsGrow, NEW a, AssessmentReads(a)
  PROVE  AssessmentReads(a)'
<1>1. PICK s, i : i = a.session /\ s = SongOfAssessment(a)
  OBVIOUS
<1>2. i # None => i \in DOMAIN sessions /\ i \in DOMAIN sessions' /\ sessions'[i].song = sessions[i].song
                  /\ (sessions[i].state = "CLOSED" => sessions'[i].state = "CLOSED")
  BY <1>1 DEF AssessmentReads, SessionsGrow
<1>3. SongOfAssessment(a)' = s
  BY <1>1, <1>2 DEF SongOfAssessment
<1>4. \A c \in a.evidence : c \in DOMAIN claims /\ ClaimFits(c, s)
  BY <1>1 DEF AssessmentReads, Assessable
<1>5. \A c \in a.evidence : ClaimFits(c, s)'
  BY <1>4, FitsStill
<1>6. \A c \in a.evidence : ClaimFits(c, SongOfAssessment(a))'
  BY <1>3, <1>5
<1>7. Assessable(a)'
  BY <1>1, <1>2, <1>6 DEF Assessable, AssessmentReads
<1>8. DOMAIN claims \subseteq DOMAIN claims'
  BY DEF Kept
<1> QED
  BY <1>1, <1>2, <1>7, <1>8 DEF AssessmentReads

LEMMA EpisodeStill == ASSUME SessionsGrow, NEW row, EpisodeReads(row) PROVE EpisodeReads(row)'
BY DEF SessionsGrow, EpisodeReads

LEMMA EpisodesRead ==
  ASSUME LearningInv, SessionsGrow,
         \A e \in DOMAIN episodes' : (\E d \in DOMAIN episodes : episodes'[e] = episodes[d]) \/ EpisodeReads(episodes[e])'
  PROVE  \A e \in DOMAIN episodes' : EpisodeReads(episodes[e])'
<1>1. TAKE e \in DOMAIN episodes'
<1>2. CASE \E d \in DOMAIN episodes : episodes'[e] = episodes[d]
  <2>1. PICK row : row = episodes'[e] /\ EpisodeReads(row)
    BY <1>2 DEF LearningInv
  <2>2. EpisodeReads(row)'
    BY <2>1, EpisodeStill
  <2> QED
    BY <2>1, <2>2
<1> QED
  BY <1>2

LEMMA SkillsRead ==
  ASSUME LearningInv, VersionsInv, ScopesInv, RowsKept, Kept(claims, claims', DOMAIN claims), SessionsGrow,
         NEW k \in Skill, IsTable(skills'[k]),
         \A i \in DOMAIN skills'[k] : (\E j \in DOMAIN skills[k] : skills'[k][i] = skills[k][j]) \/ AssessmentReads(skills[k][i])'
  PROVE  \A i \in DOMAIN skills'[k] : AssessmentReads(skills[k][i])'
<1>1. TAKE i \in DOMAIN skills'[k]
<1>2. CASE \E j \in DOMAIN skills[k] : skills'[k][i] = skills[k][j]
  <2>1. PICK a : a = skills'[k][i] /\ AssessmentReads(a)
    BY <1>2 DEF LearningInv
  <2>2. AssessmentReads(a)'
    BY <2>1, AssessmentStill
  <2> QED
    BY <2>1, <2>2
<1> QED
  BY <1>2

LEMMA SkillsStill ==
  ASSUME LearningInv, VersionsInv, ScopesInv, RowsKept, Kept(claims, claims', DOMAIN claims), SessionsGrow, UNCHANGED skills
  PROVE  /\ DOMAIN skills' = Skill /\ IsFiniteSet(Assessed(skills'))
         /\ \A k \in Skill : IsTable(skills'[k]) /\ \A i \in DOMAIN skills'[k] : AssessmentReads(skills[k][i])'
<1>1. ASSUME NEW k \in Skill
      PROVE  IsTable(skills'[k]) /\ \A i \in DOMAIN skills'[k] : AssessmentReads(skills[k][i])'
  <2>1. IsTable(skills'[k]) /\ \A i \in DOMAIN skills'[k] : \E j \in DOMAIN skills[k] : skills'[k][i] = skills[k][j]
    BY DEF LearningInv
  <2> QED
    BY <2>1, SkillsRead
<1> QED
  BY <1>1 DEF LearningInv

LEMMA LearningFramed ==
  ASSUME LearningInv, LearningTold, VersionsInv, ScopesInv, RowsKept, Kept(claims, claims', DOMAIN claims), SessionsGrow,
         UNCHANGED learningVars, UNCHANGED frictions, Untold(LearningWords)
  PROVE  LearningInv' /\ LearningTold'
<1>1. UNCHANGED <<episodes, skills, bound>>
  BY DEF learningVars
<1>2. \A e \in DOMAIN episodes' : EpisodeReads(episodes[e])'
  BY <1>1, EpisodesRead
<1>3. LearningInv'
  BY <1>1, <1>2, SkillsStill DEF LearningInv
<1>4. LearningTold'
  BY <1>1 DEF LearningTold, Untold, LearningWords
<1> QED
  BY <1>3, <1>4

LEMMA DecidedAppended ==
  ASSUME NEW t, IsTable(t), NEW row, row.decidedOn = None
  PROVE  Cardinality(DecidedRows(Append(t, row))) = Cardinality(DecidedRows(t))
<1>1. PICK u : u = Append(t, row)
  OBVIOUS
<1>2. DOMAIN u = 1..(Len(t) + 1) /\ DOMAIN t = 1..Len(t) /\ Len(t) \in Nat /\ u[Len(t) + 1] = row /\ \A j \in DOMAIN t : u[j] = t[j]
  BY <1>1, RowAppended, TableIs
<1>3. DecidedRows(u) = DecidedRows(t)
  BY <1>2 DEF DecidedRows
<1> QED
  BY <1>1, <1>3

LEMMA DecidedChanged ==
  ASSUME NEW t, IsTable(t), NEW i \in DOMAIN t, NEW row, t[i].decidedOn = None
  PROVE  Cardinality(DecidedRows([t EXCEPT ![i] = row])) =
           IF row.decidedOn = None THEN Cardinality(DecidedRows(t)) ELSE Cardinality(DecidedRows(t)) + 1
<1>1. PICK u : u = [t EXCEPT ![i] = row]
  OBVIOUS
<1>2. DOMAIN u = DOMAIN t /\ u[i] = row /\ \A j \in DOMAIN t : j # i => u[j] = t[j]
  BY <1>1, RowChanged
<1>3. DecidedRows(t) \in SUBSET DOMAIN t
  BY DEF DecidedRows
<1>4. IsFiniteSet(DecidedRows(t))
  BY <1>3, SomeRows
<1>5. row.decidedOn = None => DecidedRows(u) = DecidedRows(t)
  BY <1>2 DEF DecidedRows
<1>6. row.decidedOn # None => DecidedRows(u) = DecidedRows(t) \cup {i} /\ i \notin DecidedRows(t)
  BY <1>2 DEF DecidedRows
<1> QED
  BY <1>1, <1>4, <1>5, <1>6, OneMore

\* An experiment that is open goes on, or is decided.
LEMMA EpisodePut ==
  ASSUME TablesInv, LearningInv, NEW e \in DOMAIN episodes, NEW row, episodes' = [episodes EXCEPT ![e] = row],
         EpisodeReads(row), episodes[e].decidedOn = None, UNCHANGED sessions, IsTable(sessions)
  PROVE  /\ DOMAIN episodes' = DOMAIN episodes /\ Len(episodes') = Len(episodes)
         /\ \A d \in DOMAIN episodes' : EpisodeReads(episodes[d])'
         /\ Cardinality(DecidedRows(episodes')) =
              IF row.decidedOn = None THEN Cardinality(DecidedRows(episodes)) ELSE Cardinality(DecidedRows(episodes)) + 1
<1>1. IsTable(episodes) /\ SessionsGrow
  BY SessionsSame DEF TablesInv
<1>2. PICK rows, i, now : rows = episodes /\ i = e /\ now = row /\ IsTable(rows) /\ i \in DOMAIN rows /\ rows[i].decidedOn = None
  BY <1>1
<1>3. Cardinality(DecidedRows([rows EXCEPT ![i] = now])) =
        IF now.decidedOn = None THEN Cardinality(DecidedRows(rows)) ELSE Cardinality(DecidedRows(rows)) + 1
  BY ONLY <1>2, DecidedChanged
<1>4. /\ DOMAIN episodes' = DOMAIN episodes /\ Len(episodes') = Len(episodes) /\ episodes'[e] = row
      /\ \A d \in DOMAIN episodes : d # e => episodes'[d] = episodes[d]
  BY <1>1, RowChanged
<1>5. EpisodeReads(row)'
  BY <1>1, EpisodeStill
<1>6. EpisodeReads(episodes[e])'
  BY <1>4, <1>5
<1>7. \A d \in DOMAIN episodes' : EpisodeReads(episodes[d])'
  BY <1>1, <1>4, <1>6, EpisodesRead
<1> QED
  BY <1>2, <1>3, <1>4, <1>7

\* What a session tells.
LEMMA TellsSession ==
  ASSUME NotesInv, IsTable(events), UNCHANGED <<songs, versions>>, NEW i \in DOMAIN sessions, NEW type,
         Log(<<Event(type, sessions[i].song, sessions[i].version)>>)
  PROVE  Writes({type})
<1>1. PICK s, v : s = sessions[i].song /\ v = sessions[i].version
  OBVIOUS
<1>2. LineReads(s, v)
  BY <1>1 DEF NotesInv, SessionReads, LineReads
<1>3. LineReads(s, v)'
  BY <1>2, SameReads
<1> QED
  BY <1>1, <1>3, WritesOne

\* What a step learns of the experiments leaves what is known, and tells it.
LearnsOfEpisodes ==
  /\ DOMAIN episodes \subseteq DOMAIN episodes' /\ UNCHANGED skills
  /\ \A e \in DOMAIN episodes' : EpisodeReads(episodes[e])'
  /\ \E T \in SUBSET LearningWords :
       /\ Writes(T) /\ "SKILL_ASSESSED" \notin T /\ "FRICTION_OBSERVED" \notin T
       /\ Len(episodes') = IF "LEARNING_EPISODE_STARTED" \in T THEN Len(episodes) + 1 ELSE Len(episodes)
       /\ Cardinality(DecidedRows(episodes')) =
            IF "LEARNING_DECISION_RECORDED" \in T THEN Cardinality(DecidedRows(episodes)) + 1 ELSE Cardinality(DecidedRows(episodes))

LEMMA EpisodeStarts ==
  ASSUME TablesInv, LinesInv, NotesInv, LearningInv, UNCHANGED <<songs, versions, sessions>>, NEW i, CreateEpisode(i)
  PROVE  LearnsOfEpisodes
<1>1. PICK row, none, T : none = <<>> /\ row = [session |-> i, observed |-> none, decidedOn |-> None] /\ T = {"LEARNING_EPISODE_STARTED"}
  OBVIOUS
<1>2. /\ i \in DOMAIN sessions /\ episodes' = Append(episodes, row) /\ UNCHANGED skills
      /\ Log(<<Event("LEARNING_EPISODE_STARTED", sessions[i].song, sessions[i].version)>>)
  BY <1>1 DEF CreateEpisode
<1>3. IsTable(events) /\ IsTable(sessions) /\ IsTable(episodes)
  BY DEF LinesInv, NotesInv, TablesInv
<1>4. Writes(T)
  BY <1>1, <1>2, <1>3, TellsSession
<1>5. SessionsGrow
  BY <1>3, SessionsSame
<1>6. IsTable(none)
  BY <1>1, EmptyTable
<1>7. EpisodeReads(row)
  BY <1>1, <1>2, <1>6 DEF EpisodeReads
<1>8. EpisodeReads(row)'
  BY <1>5, <1>7, EpisodeStill
<1>9. IsTable(episodes)
  BY <1>3
<1>10. /\ Len(episodes') = Len(episodes) + 1 /\ DOMAIN episodes' = 1..(Len(episodes) + 1)
       /\ DOMAIN episodes = 1..Len(episodes) /\ Len(episodes) \in Nat /\ episodes'[Len(episodes) + 1] = row
       /\ \A e \in DOMAIN episodes : episodes'[e] = episodes[e]
  BY <1>2, <1>9, RowAppended, TableIs
<1>11. \A e \in DOMAIN episodes' : (\E d \in DOMAIN episodes : episodes'[e] = episodes[d]) \/ EpisodeReads(episodes[e])'
  <2>1. PICK m : m = Len(episodes) + 1
    OBVIOUS
  <2>2. EpisodeReads(episodes[m])'
    BY <1>8, <1>10, <2>1
  <2> QED
    BY <1>10, <2>1, <2>2
<1>12. \A e \in DOMAIN episodes' : EpisodeReads(episodes[e])'
  BY <1>5, <1>11, EpisodesRead
<1>13. row.decidedOn = None
  BY <1>1
<1>14. Cardinality(DecidedRows(episodes')) = Cardinality(DecidedRows(episodes))
  BY <1>2, <1>9, <1>13, DecidedAppended
<1>15. /\ T \in SUBSET LearningWords /\ "SKILL_ASSESSED" \notin T /\ "FRICTION_OBSERVED" \notin T
       /\ "LEARNING_EPISODE_STARTED" \in T /\ "LEARNING_DECISION_RECORDED" \notin T
  BY <1>1 DEF LearningWords
<1>16. DOMAIN episodes \subseteq DOMAIN episodes'
  BY <1>10
<1> QED
  BY <1>2, <1>4, <1>10, <1>12, <1>14, <1>15, <1>16 DEF LearnsOfEpisodes

LEMMA EpisodeGoesOn ==
  ASSUME TablesInv, LinesInv, NotesInv, LearningInv, UNCHANGED <<songs, versions, sessions>>,
         NEW e, NEW source, AppendConsequence(e, source)
  PROVE  LearnsOfEpisodes
<1>1. PICK old, observed, row, i, T :
        /\ old = episodes[e] /\ observed = Append(old.observed, source) /\ row = [old EXCEPT !.observed = observed]
        /\ i = old.session /\ T = {"LEARNING_CONSEQUENCE_RECORDED"}
  OBVIOUS
<1>2. /\ e \in DOMAIN episodes /\ old.decidedOn = None /\ episodes' = [episodes EXCEPT ![e] = row] /\ UNCHANGED skills
      /\ Log(<<Event("LEARNING_CONSEQUENCE_RECORDED", sessions[i].song, sessions[i].version)>>)
  BY <1>1 DEF AppendConsequence, EpisodeEvent, IsDecided
<1>3. EpisodeReads(old)
  BY <1>1, <1>2 DEF LearningInv
<1>4. row.session = i /\ row.decidedOn = None /\ row.observed = observed /\ DOMAIN row = DOMAIN old /\ i \in DOMAIN sessions
  BY <1>1, <1>2, <1>3 DEF EpisodeReads
<1>5. IsTable(observed)
  <2>1. PICK was : was = old.observed /\ IsTable(was) /\ observed = Append(was, source)
    BY <1>1, <1>3 DEF EpisodeReads
  <2> QED
    BY <2>1, RowAppended
<1>6. EpisodeReads(row)
  BY <1>1, <1>3, <1>4, <1>5 DEF EpisodeReads
<1>7. IsTable(events) /\ IsTable(sessions)
  BY DEF LinesInv, NotesInv
<1>8. Writes(T)
  BY <1>1, <1>2, <1>4, <1>7, TellsSession
<1>9. episodes[e].decidedOn = None
  BY <1>1, <1>2
<1>10. /\ DOMAIN episodes' = DOMAIN episodes /\ Len(episodes') = Len(episodes)
       /\ \A d \in DOMAIN episodes' : EpisodeReads(episodes[d])'
       /\ Cardinality(DecidedRows(episodes')) = Cardinality(DecidedRows(episodes))
  BY <1>2, <1>4, <1>6, <1>7, <1>9, EpisodePut
<1>11. /\ T \in SUBSET LearningWords /\ "SKILL_ASSESSED" \notin T /\ "FRICTION_OBSERVED" \notin T
       /\ "LEARNING_EPISODE_STARTED" \notin T /\ "LEARNING_DECISION_RECORDED" \notin T
  BY <1>1 DEF LearningWords
<1> QED
  BY <1>2, <1>8, <1>10, <1>11 DEF LearnsOfEpisodes

LEMMA EpisodeIsDecided ==
  ASSUME TablesInv, LinesInv, NotesInv, LearningInv, UNCHANGED <<songs, versions, sessions>>, NEW e, DecideEpisode(e)
  PROVE  LearnsOfEpisodes
<1>1. PICK old, n, row, i, T :
        /\ old = episodes[e] /\ n = Len(old.observed) /\ row = [old EXCEPT !.decidedOn = n]
        /\ i = old.session /\ T = {"LEARNING_DECISION_RECORDED"}
  OBVIOUS
<1>2. /\ e \in DOMAIN episodes /\ old.decidedOn = None /\ old.observed # <<>>
      /\ episodes' = [episodes EXCEPT ![e] = row] /\ UNCHANGED skills
      /\ Log(<<Event("LEARNING_DECISION_RECORDED", sessions[i].song, sessions[i].version)>>)
  BY <1>1 DEF DecideEpisode, EpisodeEvent, IsDecided
<1>3. EpisodeReads(old)
  BY <1>1, <1>2 DEF LearningInv
<1>4. row.session = i /\ row.decidedOn = n /\ row.observed = old.observed /\ DOMAIN row = DOMAIN old /\ i \in DOMAIN sessions
  BY <1>1, <1>2, <1>3 DEF EpisodeReads
<1>5. n \in DOMAIN old.observed /\ n \in Nat
  <2>1. PICK was : was = old.observed /\ IsTable(was) /\ was # <<>> /\ n = Len(was)
    BY <1>1, <1>2, <1>3 DEF EpisodeReads
  <2>2. n \in Nat /\ DOMAIN was = 1..n
    BY <2>1, TableIs
  <2>3. n # 0
    <3>1. SUFFICES ASSUME n = 0 PROVE FALSE
      OBVIOUS
    <3>2. PICK none : none = <<>> /\ IsTable(none) /\ Len(none) = 0
      BY EmptyTable
    <3>3. \A j \in DOMAIN was : was[j] = none[j]
      BY <2>2, <3>1
    <3>4. was = none
      BY <2>1, <3>1, <3>2, <3>3, TablesEqual
    <3> QED
      BY <2>1, <3>2, <3>4
  <2> QED
    BY <2>1, <2>2, <2>3
<1>6. n # None
  BY <1>5, NoneAssumption
<1>7. EpisodeReads(row)
  BY <1>3, <1>4, <1>5 DEF EpisodeReads
<1>8. IsTable(events) /\ IsTable(sessions)
  BY DEF LinesInv, NotesInv
<1>9. Writes(T)
  BY <1>1, <1>2, <1>4, <1>8, TellsSession
<1>10. episodes[e].decidedOn = None
  BY <1>1, <1>2
<1>11. /\ DOMAIN episodes' = DOMAIN episodes /\ Len(episodes') = Len(episodes)
       /\ \A d \in DOMAIN episodes' : EpisodeReads(episodes[d])'
       /\ Cardinality(DecidedRows(episodes')) = Cardinality(DecidedRows(episodes)) + 1
  BY <1>2, <1>4, <1>6, <1>7, <1>8, <1>10, EpisodePut
<1>12. /\ T \in SUBSET LearningWords /\ "SKILL_ASSESSED" \notin T /\ "FRICTION_OBSERVED" \notin T
       /\ "LEARNING_EPISODE_STARTED" \notin T /\ "LEARNING_DECISION_RECORDED" \in T
  BY <1>1 DEF LearningWords
<1> QED
  BY <1>2, <1>9, <1>11, <1>12 DEF LearnsOfEpisodes

\* What a step learns of a skill leaves the experiments, and tells it.
LearnsOfSkills ==
  /\ UNCHANGED episodes /\ DOMAIN skills' = Skill /\ IsFiniteSet(Assessed(skills'))
  /\ \A k \in Skill : IsTable(skills'[k]) /\ \A i \in DOMAIN skills'[k] : AssessmentReads(skills[k][i])'
  /\ \E T \in SUBSET LearningWords :
       /\ Writes(T) /\ T \subseteq {"SKILL_ASSESSED"}
       /\ Cardinality(Assessed(skills')) =
            IF "SKILL_ASSESSED" \in T THEN Cardinality(Assessed(skills)) + 1 ELSE Cardinality(Assessed(skills))

LEMMA AssessedIs ==
  ASSUME NEW of, NEW x
  PROVE  x \in Assessed(of) <=> \E k \in Skill : \E i \in DOMAIN of[k] : x = <<k, i>>
BY DEF Assessed

LEMMA SkillAssessed ==
  ASSUME LinesInv, VersionsInv, ScopesInv, NotesInv, LearningInv, RowsKept, Kept(claims, claims', DOMAIN claims),
         UNCHANGED <<songs, versions, sessions>>,
         NEW k \in Skill, NEW a, Assess(k, a), a.level \in Level, a.evidence \subseteq DOMAIN claims,
         a.session # None => a.session \in DOMAIN sessions
  PROVE  LearnsOfSkills
<1>1. IsTable(events) /\ IsTable(sessions) /\ IsTable(skills[k]) /\ DOMAIN skills = Skill
  BY DEF LinesInv, NotesInv, LearningInv
<1>2. PICK s, v, i, known, T : /\ i = a.session /\ s = SongOfAssessment(a) /\ v = IF i = None THEN None ELSE sessions[i].version
                        /\ known = skills[k] /\ T = {"SKILL_ASSESSED"}
  OBVIOUS
<1>3. /\ Assessable(a) /\ skills' = [skills EXCEPT ![k] = Append(known, a)] /\ Log(<<Event("SKILL_ASSESSED", s, v)>>)
      /\ UNCHANGED episodes
  BY <1>2 DEF Assess
<1>4. LineReads(s, v)
  BY <1>2 DEF SongOfAssessment, NotesInv, SessionReads, LineReads
<1>5. LineReads(s, v)'
  BY <1>4, SameReads
<1>6. Writes(T)
  BY <1>1, <1>2, <1>3, <1>5, WritesOne
<1>7. SessionsGrow
  BY <1>1, SessionsSame
<1>8. AssessmentReads(a)
  BY <1>3 DEF AssessmentReads
<1>9. AssessmentReads(a)'
  BY <1>7, <1>8, AssessmentStill
<1>10. IsTable(known)
  BY <1>1, <1>2
<1>11. PICK now : now = Append(known, a)
  OBVIOUS
<1>12. /\ IsTable(now) /\ DOMAIN now = 1..(Len(known) + 1) /\ DOMAIN known = 1..Len(known) /\ Len(known) \in Nat
       /\ now[Len(known) + 1] = a /\ \A j \in DOMAIN known : now[j] = known[j]
  BY <1>10, <1>11, RowAppended, TableIs
<1>13. DOMAIN skills' = Skill /\ skills'[k] = now /\ \A j \in Skill : j # k => skills'[j] = skills[j]
  BY <1>1, <1>3, <1>11
<1>14. ASSUME NEW j \in Skill
       PROVE  IsTable(skills'[j]) /\ \A n \in DOMAIN skills'[j] : AssessmentReads(skills[j][n])'
  <2>1. CASE j = k
    <3>1. IsTable(skills'[k])
      BY <1>12, <1>13
    <3>2. \A n \in DOMAIN skills'[k] : (\E m \in DOMAIN skills[k] : skills'[k][n] = skills[k][m]) \/ AssessmentReads(skills[k][n])'
      <4>1. PICK m : m = Len(known) + 1
        OBVIOUS
      <4>2. skills'[k][m] = a
        BY <1>12, <1>13, <4>1
      <4>3. AssessmentReads(skills[k][m])'
        BY <1>9, <4>2
      <4>4. \A n \in DOMAIN skills'[k] : n = m \/ (n \in DOMAIN skills[k] /\ skills'[k][n] = skills[k][n])
        BY <1>2, <1>12, <1>13, <4>1
      <4> QED
        BY <4>3, <4>4
    <3> QED
      BY <1>7, <2>1, <3>1, <3>2, SkillsRead
  <2>2. CASE j # k
    <3>1. IsTable(skills'[j]) /\ \A n \in DOMAIN skills'[j] : \E m \in DOMAIN skills[j] : skills'[j][n] = skills[j][m]
      BY <1>13, <2>2 DEF LearningInv
    <3> QED
      BY <1>7, <3>1, SkillsRead
  <2> QED
    BY <2>1, <2>2
<1>15. PICK x : x = <<k, Len(known) + 1>>
  OBVIOUS
<1>16. x \notin Assessed(skills) /\ Assessed(skills') = Assessed(skills) \cup {x}
  <2>1. x \notin Assessed(skills)
    BY <1>2, <1>12, <1>15, AssessedIs
  <2>2. ASSUME NEW y PROVE y \in Assessed(skills') <=> y \in Assessed(skills) \/ y = x
    <3>1. ASSUME y \in Assessed(skills') PROVE y \in Assessed(skills) \/ y = x
      <4>1. PICK j \in Skill : \E n \in DOMAIN skills'[j] : y = <<j, n>>
        BY <3>1, AssessedIs
      <4>2. PICK n \in DOMAIN skills'[j] : y = <<j, n>>
        BY <4>1
      <4>3. CASE j = k /\ n = Len(known) + 1
        BY <1>15, <4>2, <4>3
      <4>4. CASE ~(j = k /\ n = Len(known) + 1)
        <5>1. n \in DOMAIN skills[j]
          BY <1>2, <1>12, <1>13, <4>2, <4>4
        <5> QED
          BY <4>2, <5>1, AssessedIs
      <4> QED
        BY <4>3, <4>4
    <3>2. ASSUME y \in Assessed(skills) PROVE y \in Assessed(skills')
      <4>1. PICK j \in Skill : \E n \in DOMAIN skills[j] : y = <<j, n>>
        BY <3>2, AssessedIs
      <4>2. \A n \in DOMAIN skills[j] : n \in DOMAIN skills'[j]
        BY <1>2, <1>12, <1>13
      <4> QED
        BY <4>1, <4>2, AssessedIs
    <3>3. x \in Assessed(skills')
      <4>1. Len(known) + 1 \in DOMAIN skills'[k]
        BY <1>12, <1>13
      <4> QED
        BY <1>15, <4>1, AssessedIs
    <3> QED
      BY <3>1, <3>2, <3>3
  <2> QED
    BY <2>1, <2>2
<1>17. IsFiniteSet(Assessed(skills)) /\ Assessed(skills') = Assessed(skills) \cup {x} /\ x \notin Assessed(skills)
  BY <1>16 DEF LearningInv
<1>18. IsFiniteSet(Assessed(skills')) /\ Cardinality(Assessed(skills')) = Cardinality(Assessed(skills)) + 1
  BY <1>17, OneMore
<1>19. T \in SUBSET LearningWords /\ T \subseteq {"SKILL_ASSESSED"} /\ "SKILL_ASSESSED" \in T
  BY <1>2 DEF LearningWords
<1> QED
  BY <1>3, <1>6, <1>13, <1>14, <1>18, <1>19 DEF LearnsOfSkills

LEMMA NothingLearnt ==
  ASSUME TablesInv, LinesInv, LearningInv, IsTable(sessions), UNCHANGED <<sessions, episodes, skills, events>>
  PROVE  LearnsOfEpisodes
<1>1. IsTable(events) /\ SessionsGrow
  BY SessionsSame DEF LinesInv
<1>2. PICK T : T = {} /\ Writes(T)
  BY <1>1, WritesNothing
<1>3. \A e \in DOMAIN episodes' : EpisodeReads(episodes[e])'
  BY <1>1, EpisodesRead
<1>4. T \in SUBSET LearningWords
  BY <1>2
<1> QED
  BY <1>2, <1>3, <1>4 DEF LearnsOfEpisodes

\* What a page shows to be corrected is a skill.
LEMMA BoundStill ==
  ASSUME LearningInv, LearningStep
  PROVE  \A b \in bound' : b.kind = "correct" => b.on \in Skill
<1>1. CASE bound' \subseteq bound
  BY <1>1 DEF LearningInv
<1>2. ASSUME NEW b \in Bindings, bound' = bound \cup {b} PROVE b.kind = "correct" => b.on \in Skill
  BY <1>2 DEF Bindings, StartBinding, DecisionBinding, CorrectionBinding
<1>3. bound' \subseteq bound \/ \E b \in Bindings : bound' = bound \cup {b}
  BY DEF LearningStep, ShowLearning, SendLearning
<1> QED
  BY <1>1, <1>2, <1>3 DEF LearningInv

LEMMA SkillDeclared ==
  ASSUME LinesInv, VersionsInv, ScopesInv, NotesInv, LearningInv, RowsKept, Kept(claims, claims', DOMAIN claims),
         UNCHANGED <<songs, versions, sessions>>,
         NEW k \in Skill, NEW level \in Levels, NEW source, Assess(k, Assessment(level, source, None, {}))
  PROVE  LearnsOfSkills
<1>1. PICK a : a = Assessment(level, source, None, {})
  OBVIOUS
<1>2. a.level \in Level /\ a.evidence \subseteq DOMAIN claims /\ a.session = None
  BY <1>1 DEF Assessment, Levels, Level
<1>3. Assess(k, a)
  BY <1>1
<1> QED
  BY <1>2, <1>3, SkillAssessed

LEMMA LearningStepLearns ==
  ASSUME TablesInv, LinesInv, VersionsInv, ScopesInv, NotesInv, LearningInv, RowsKept, Kept(claims, claims', DOMAIN claims),
         UNCHANGED <<songs, versions, sessions>>, LearningStep
  PROVE  LearnsOfEpisodes \/ LearnsOfSkills
<1>1. ASSUME NEW i, CreateEpisode(i) PROVE LearnsOfEpisodes
  BY <1>1, EpisodeStarts
<1>2. ASSUME NEW e, NEW source, AppendConsequence(e, source) PROVE LearnsOfEpisodes
  BY <1>2, EpisodeGoesOn
<1>3. ASSUME NEW e, DecideEpisode(e) PROVE LearnsOfEpisodes
  BY <1>3, EpisodeIsDecided
<1>4. ASSUME NEW k \in Skill, NEW level \in Levels, NEW source, Assess(k, Assessment(level, source, None, {})) PROVE LearnsOfSkills
  BY <1>4, SkillDeclared
<1>5. ASSUME NEW k \in Skill, NEW level \in Levels, NEW i \in DOMAIN sessions, NEW c \in DOMAIN claims, Assess(k, Seen(level, i, c))
      PROVE  LearnsOfSkills
  <2>1. PICK a : a = Seen(level, i, c)
    OBVIOUS
  <2>2. a.level \in Level /\ a.evidence \subseteq DOMAIN claims /\ a.session = i
    BY <2>1 DEF Seen, Assessment, Levels, Level
  <2>3. Assess(k, a)
    BY <1>5, <2>1
  <2> QED
    BY <2>2, <2>3, SkillAssessed
<1>6. ASSUME UNCHANGED <<episodes, skills, events>> PROVE LearnsOfEpisodes
  <2>1. IsTable(sessions)
    BY DEF NotesInv
  <2> QED
    BY <1>6, <2>1, NothingLearnt
<1>7. ASSUME NEW b \in Bindings, ShowLearning(b) PROVE LearnsOfEpisodes
  <2>1. UNCHANGED <<episodes, skills, events>>
    BY <1>7 DEF ShowLearning, lineageVars
  <2> QED
    BY <2>1, <1>6
<1>8. ASSUME NEW b \in bound, NEW level \in Levels, SendLearning(b, level) PROVE LearnsOfEpisodes \/ LearnsOfSkills
  <2>1. CASE b.kind = "start" /\ StartEpisode(b)
    BY <2>1, <1>1 DEF StartEpisode
  <2>2. CASE b.kind = "decide" /\ DecideBound(b)
    BY <2>2, <1>3 DEF DecideBound
  <2>3. CASE b.kind = "correct" /\ Correct(b, level)
    <3>1. PICK k \in Skill : k = b.on
      BY <2>3 DEF LearningInv
    <3>2. Assess(k, Assessment(level, "ARTIST_CORRECTION", None, {}))
      BY <2>3, <3>1 DEF Correct
    <3> QED
      BY <3>2, <1>4
  <2>4. CASE UNCHANGED <<lineageVars, sessionVars, episodes, skills>>
    BY <2>4, <1>6 DEF lineageVars
  <2> QED
    BY <1>8, <2>1, <2>2, <2>3, <2>4 DEF SendLearning
<1>9. CASE \/ \E i \in DOMAIN sessions : CreateEpisode(i)
           \/ \E e \in DOMAIN episodes : AppendConsequence(e, "OBSERVED") \/ AppendObservation(e) \/ DecideEpisode(e)
  BY <1>1, <1>2, <1>3, <1>9 DEF AppendObservation
<1>10. CASE \/ \E k \in Skill, level \in Levels : Declare(k, level)
            \/ \E k \in Skill, level \in Levels, i \in DOMAIN sessions, c \in DOMAIN claims : Assess(k, Seen(level, i, c))
  BY <1>4, <1>5, <1>10 DEF Declare
<1> QED
  BY <1>7, <1>8, <1>9, <1>10 DEF LearningStep

LEMMA LearningWritten ==
  ASSUME TablesInv, LinesInv, PointersInv, VersionsInv, ScopesInv, NotesInv, IsTable(claims), LearningInv, LearningTold, LearningStep
  PROVE  LearningInv' /\ LearningTold' /\ \E T \in SUBSET LearningWords : Writes(T)
<1>1. UNCHANGED <<songs, versions, assets, sessions>>
  BY DEF LearningStep, CreateEpisode, AppendObservation, AppendConsequence, DecideEpisode, Declare, Assess, ShowLearning, SendLearning,
         StartEpisode, DecideBound, Correct, recordVars, lineageVars, sessionVars
<1>2. UNCHANGED <<claims, frictions>>
  BY DEF LearningStep, context, frictionVars
<1>3. /\ IsTable(versions) /\ IsTable(assets) /\ IsTable(sessions) /\ IsTable(events) /\ IsTable(frictions)
      /\ \A i \in DOMAIN frictions : frictions[i].episode \in DOMAIN episodes
  BY DEF PointersInv, VersionsInv, NotesInv, LinesInv, LearningInv
<1>4. RowsKept /\ Kept(claims, claims', DOMAIN claims)
  <2>1. IsTable(versions) /\ IsTable(assets)
    BY <1>3
  <2>2. Kept(versions, versions', DOMAIN versions) /\ Kept(assets, assets', DOMAIN assets)
    BY <1>1, <2>1, KeptSame
  <2>3. Kept(claims, claims', DOMAIN claims)
    BY <1>2, KeptSame
  <2> QED
    BY <1>1, <2>2, <2>3 DEF RowsKept, Known
<1>5. SessionsGrow
  BY <1>1, <1>3, SessionsSame
<1>6. \A b \in bound' : b.kind = "correct" => b.on \in Skill
  BY BoundStill
<1>7. CASE LearnsOfEpisodes
  <2>1. DOMAIN skills' = Skill /\ IsFiniteSet(Assessed(skills'))
        /\ \A k \in Skill : IsTable(skills'[k]) /\ \A i \in DOMAIN skills'[k] : AssessmentReads(skills[k][i])'
    BY <1>4, <1>5, <1>7, SkillsStill DEF LearnsOfEpisodes
  <2>2. IsTable(frictions') /\ \A i \in DOMAIN frictions' : frictions'[i].episode \in DOMAIN episodes'
    BY <1>2, <1>3, <1>7 DEF LearnsOfEpisodes
  <2>3. LearningInv'
    BY <1>6, <1>7, <2>1, <2>2 DEF LearningInv, LearnsOfEpisodes
  <2>4. PICK T \in SUBSET LearningWords :
          /\ Writes(T) /\ "SKILL_ASSESSED" \notin T /\ "FRICTION_OBSERVED" \notin T
          /\ Len(episodes') = IF "LEARNING_EPISODE_STARTED" \in T THEN Len(episodes) + 1 ELSE Len(episodes)
          /\ Cardinality(DecidedRows(episodes')) =
               IF "LEARNING_DECISION_RECORDED" \in T THEN Cardinality(DecidedRows(episodes)) + 1 ELSE Cardinality(DecidedRows(episodes))
    BY <1>7 DEF LearnsOfEpisodes
  <2>5. UNCHANGED skills
    BY <1>7 DEF LearnsOfEpisodes
  <2>6. LearningTold'
    BY <1>2, <2>4, <2>5 DEF LearningTold, Writes, Superseding
  <2> QED
    BY <2>3, <2>4, <2>6
<1>8. CASE LearnsOfSkills
  <2>1. UNCHANGED episodes
    BY <1>8 DEF LearnsOfSkills
  <2>2. \A e \in DOMAIN episodes' : EpisodeReads(episodes[e])'
    BY <1>5, <2>1, EpisodesRead
  <2>3. LearningInv'
    BY <1>2, <1>3, <1>6, <1>8, <2>1, <2>2 DEF LearningInv, LearnsOfSkills
  <2>4. PICK T \in SUBSET LearningWords :
          /\ Writes(T) /\ T \subseteq {"SKILL_ASSESSED"}
          /\ Cardinality(Assessed(skills')) =
               IF "SKILL_ASSESSED" \in T THEN Cardinality(Assessed(skills)) + 1 ELSE Cardinality(Assessed(skills))
    BY <1>8 DEF LearnsOfSkills
  <2>5. LearningTold'
    BY <1>2, <2>1, <2>4 DEF LearningTold, Writes, Superseding
  <2> QED
    BY <2>3, <2>4, <2>5
<1> QED
  BY <1>1, <1>4, <1>7, <1>8, LearningStepLearns

LEMMA FrictionWritten ==
  ASSUME TablesInv, LinesInv, PointersInv, VersionsInv, ScopesInv, NotesInv, IsTable(claims), LearningInv, LearningTold, FrictionStep
  PROVE  LearningInv' /\ LearningTold' /\ \E T \in SUBSET LearningWords : Writes(T)
<1>1. UNCHANGED <<songs, versions, assets, sessions, claims>> /\ UNCHANGED <<episodes, skills, bound>>
  BY DEF FrictionStep, recordVars, making, sessionVars, learningVars
<1>2. IsTable(versions) /\ IsTable(assets) /\ IsTable(sessions) /\ IsTable(events) /\ IsTable(frictions)
  BY DEF PointersInv, VersionsInv, NotesInv, LinesInv, LearningInv
<1>3. RowsKept /\ Kept(claims, claims', DOMAIN claims)
  <2>1. IsTable(versions) /\ IsTable(assets)
    BY <1>2
  <2>2. Kept(versions, versions', DOMAIN versions) /\ Kept(assets, assets', DOMAIN assets)
    BY <1>1, <2>1, KeptSame
  <2>3. Kept(claims, claims', DOMAIN claims)
    BY <1>1, KeptSame
  <2> QED
    BY <1>1, <2>2, <2>3 DEF RowsKept, Known
<1>4. SessionsGrow
  BY <1>1, <1>2, SessionsSame
<1>5. \A e \in DOMAIN episodes' : EpisodeReads(episodes[e])'
  BY <1>1, <1>4, EpisodesRead
<1>6. DOMAIN skills' = Skill /\ IsFiniteSet(Assessed(skills'))
      /\ \A k \in Skill : IsTable(skills'[k]) /\ \A i \in DOMAIN skills'[k] : AssessmentReads(skills[k][i])'
  BY <1>1, <1>3, <1>4, SkillsStill
<1>7. CASE UNCHANGED <<frictions, events>>
  <2>1. PICK T : T = {} /\ Writes(T)
    BY <1>2, <1>7, WritesNothing
  <2>2. LearningInv'
    BY <1>1, <1>5, <1>6, <1>7 DEF LearningInv
  <2>3. LearningTold'
    BY <1>1, <1>7 DEF LearningTold
  <2> QED
    BY <2>1, <2>2, <2>3
<1>8. ASSUME NEW e, NEW key, NEW source, RecordFriction(e, key, source)
      PROVE  LearningInv' /\ LearningTold' /\ \E T \in SUBSET LearningWords : Writes(T)
  <2>1. PICK i, row, T : i = episodes[e].session /\ row = [episode |-> e, key |-> key, source |-> source] /\ T = {"FRICTION_OBSERVED"}
    OBVIOUS
  <2>2. /\ e \in DOMAIN episodes /\ frictions' = Append(frictions, row)
        /\ Log(<<Event("FRICTION_OBSERVED", sessions[i].song, sessions[i].version)>>)
    BY <1>8, <2>1 DEF RecordFriction
  <2>3. i \in DOMAIN sessions
    BY <2>1, <2>2 DEF LearningInv, EpisodeReads
  <2>4. Writes(T)
    BY <1>1, <1>2, <2>1, <2>2, <2>3, TellsSession
  <2>5. IsTable(frictions)
    BY <1>2
  <2>6. /\ IsTable(frictions') /\ Len(frictions') = Len(frictions) + 1 /\ DOMAIN frictions' = 1..(Len(frictions) + 1)
        /\ DOMAIN frictions = 1..Len(frictions) /\ Len(frictions) \in Nat /\ frictions'[Len(frictions) + 1] = row
        /\ \A j \in DOMAIN frictions : frictions'[j] = frictions[j]
    BY <2>2, <2>5, RowAppended, TableIs
  <2>7. \A j \in DOMAIN frictions' : frictions'[j].episode \in DOMAIN episodes'
    <3>1. row.episode = e
      BY <2>1
    <3> QED
      BY <1>1, <2>2, <2>6, <3>1 DEF LearningInv
  <2>8. LearningInv'
    BY <1>1, <1>5, <1>6, <2>6, <2>7 DEF LearningInv
  <2>9. LearningTold'
    BY <1>1, <2>1, <2>4, <2>6 DEF LearningTold, Writes, Superseding
  <2>10. T \in SUBSET LearningWords
    BY <2>1 DEF LearningWords
  <2> QED
    BY <2>4, <2>8, <2>9, <2>10
<1>9. \/ UNCHANGED <<frictions, events>>
      \/ \E e, key, source : RecordFriction(e, key, source)
  BY DEF FrictionStep, ShowFriction, SendFriction, RecordBound
<1> QED
  BY <1>7, <1>8, <1>9

-----------------------------------------------------------------------------
(* What is brought in, chosen and declared, and what these steps leave alone   *)

ImportsInv == IsTable(imports) /\ ImportsReadable

CatalogInv == IsTable(templates) /\ IsTable(selections) /\ CatalogReadable

CareerTold  == Tally(events, "CAREER_STATE_RECORDED") = Len(seasons)
CareerWords == {"CAREER_STATE_RECORDED"}

\* No step of a profile that is only written to by these memories installs a file or
\* decides between two Versions.
FilesInv == blobs = [d \in Digest |-> "absent"] /\ ingest = None /\ decisions = <<>>

LEMMA FilesStay == FilesInv /\ [Next]_vars => FilesInv'
<1> SUFFICES ASSUME FilesInv, [Next]_vars PROVE FilesInv'
  OBVIOUS
<1>1. UNCHANGED <<blobs, ingest, decisions>>
  BY Framed DEF vars, allVars, base, lineageVars, recordVars
<1> QED
  BY <1>1 DEF FilesInv

LEMMA ImportsStay ==
  ASSUME ImportsInv, Known \subseteq Known', [Next]_vars
  PROVE  ImportsInv'
<1>1. ImportScopes \subseteq ImportScopes'
  BY DEF ImportScopes
<1>2. CASE UNCHANGED imports
  BY <1>1, <1>2 DEF ImportsInv, ImportsReadable
<1>3. ASSUME NEW scope, ImportContext(scope) PROVE ImportsInv'
  <2>1. IsTable(imports)
    BY DEF ImportsInv
  <2>2. /\ IsTable(imports') /\ DOMAIN imports' = 1..(Len(imports) + 1) /\ DOMAIN imports = 1..Len(imports)
        /\ Len(imports) \in Nat /\ imports'[Len(imports) + 1] = scope /\ \A i \in DOMAIN imports : imports'[i] = imports[i]
    BY <1>3, <2>1, RowAppended, TableIs DEF ImportContext
  <2>3. scope \in ImportScopes'
    BY <1>1, <1>3 DEF ImportContext
  <2>4. \A i \in DOMAIN imports' : imports'[i] \in ImportScopes'
    BY <1>1, <2>2, <2>3 DEF ImportsInv, ImportsReadable
  <2> QED
    BY <2>2, <2>4 DEF ImportsInv, ImportsReadable
<1>4. RetentionStep \/ UNCHANGED imports
  BY Framed DEF vars, allVars, context, retentionVars
<1>5. RetentionStep => UNCHANGED imports \/ \E scope : ImportContext(scope)
  BY DEF RetentionStep, ProjectionForSong
<1> QED
  BY <1>2, <1>3, <1>4, <1>5

LEMMA CatalogStays ==
  ASSUME CatalogInv, Known \subseteq Known', [Next]_vars
  PROVE  CatalogInv'
<1>1. IsTable(templates) /\ IsTable(selections)
  BY DEF CatalogInv
<1>2. CASE UNCHANGED <<present, templates, selections>>
  BY <1>2 DEF CatalogInv, CatalogReadable
<1>3. CASE InitializeSchema
  BY <1>3 DEF InitializeSchema, CatalogInv, CatalogReadable
<1>4. ASSUME NEW id, NEW meaning, SaveTemplate(id, meaning) PROVE CatalogInv'
  <2>1. templates' = templates \/ templates' = Append(templates, meaning)
    BY <1>4 DEF SaveTemplate
  <2>2. IsTable(templates') /\ DOMAIN templates \subseteq DOMAIN templates'
    <3>1. CASE templates' = templates
      BY <1>1, <3>1
    <3>2. CASE templates' = Append(templates, meaning)
      <4>1. IsTable(templates)
        BY <1>1
      <4>2. IsTable(templates') /\ \A i \in DOMAIN templates : i \in DOMAIN templates'
        BY <3>2, <4>1, RowAppended, TableIs
      <4> QED
        BY <4>2
    <3> QED
      BY <2>1, <3>1, <3>2
  <2>3. UNCHANGED selections /\ present' = TRUE
    BY <1>4 DEF SaveTemplate
  <2> QED
    BY <1>1, <2>2, <2>3 DEF CatalogInv, CatalogReadable
<1>5. ASSUME NEW s, NEW id, SelectForSong(s, id) PROVE CatalogInv'
  <2>1. PICK row : row = [song |-> s, template |-> id] /\ selections' = Append(selections, row)
    BY <1>5 DEF SelectForSong
  <2>2. s \in Known /\ id \in DOMAIN templates /\ present = TRUE /\ UNCHANGED <<present, templates>>
    BY <1>5 DEF SelectForSong, TemplatesOf
  <2>3. row.song = s /\ row.template = id
    BY <2>1
  <2>4. IsTable(selections)
    BY <1>1
  <2>5. /\ IsTable(selections') /\ DOMAIN selections' = 1..(Len(selections) + 1) /\ DOMAIN selections = 1..Len(selections)
        /\ Len(selections) \in Nat /\ selections'[Len(selections) + 1] = row
        /\ \A i \in DOMAIN selections : selections'[i] = selections[i]
    BY <2>1, <2>4, RowAppended, TableIs
  <2>6. \A i \in DOMAIN selections' : selections'[i].song \in Known' /\ selections'[i].template \in DOMAIN templates'
    BY <2>2, <2>3, <2>5 DEF CatalogInv, CatalogReadable
  <2> QED
    BY <1>1, <2>2, <2>5, <2>6 DEF CatalogInv, CatalogReadable
<1>6. TemplateStep \/ UNCHANGED <<present, templates, selections>>
  BY Framed DEF catalogVars
<1>7. ASSUME TemplateStep
      PROVE  \/ UNCHANGED <<present, templates, selections>> \/ InitializeSchema
             \/ \E id, meaning : SaveTemplate(id, meaning)
             \/ \E s, id : SelectForSong(s, id)
  <2>1. ASSUME NEW f, NEW meaning, SendTemplate(f, meaning)
        PROVE  \/ UNCHANGED <<present, templates, selections>> \/ InitializeSchema
               \/ \E id, m : SaveTemplate(id, m)
               \/ \E s, id : SelectForSong(s, id)
    BY <2>1 DEF SendTemplate, CreateTemplate
  <2>2. ASSUME NEW f, ShowTemplates(f) PROVE UNCHANGED <<present, templates, selections>>
    BY <2>2 DEF ShowTemplates
  <2> QED
    BY <1>7, <2>1, <2>2 DEF TemplateStep
<1> QED
  BY <1>2, <1>3, <1>4, <1>5, <1>6, <1>7

LEMMA CareerWritten ==
  ASSUME IsTable(events), IsTable(seasons), CareerTold, CareerStep
  PROVE  IsTable(seasons') /\ CareerTold' /\ \E T \in SUBSET CareerWords : Writes(T)
<1>1. CASE UNCHANGED <<seasons, events>>
  <2>1. PICK T : T = {} /\ Writes(T)
    BY <1>1, WritesNothing
  <2> QED
    BY <1>1, <2>1 DEF CareerTold
<1>2. ASSUME NEW state, seasons' = Append(seasons, state), Log(<<Event("CAREER_STATE_RECORDED", None, None)>>)
      PROVE  IsTable(seasons') /\ CareerTold' /\ \E T \in SUBSET CareerWords : Writes(T)
  <2>1. LineReads(None, None)'
    BY DEF LineReads
  <2>2. Writes({"CAREER_STATE_RECORDED"})
    BY <1>2, <2>1, WritesOne
  <2>3. IsTable(seasons') /\ Len(seasons') = Len(seasons) + 1
    BY <1>2, RowAppended
  <2>4. CareerTold'
    BY <2>2, <2>3 DEF CareerTold, Writes, Superseding
  <2> QED
    BY <2>2, <2>3, <2>4 DEF CareerWords
<1>3. \/ UNCHANGED <<seasons, events>>
      \/ \E state : seasons' = Append(seasons, state) /\ Log(<<Event("CAREER_STATE_RECORDED", None, None)>>)
  <2>1. ASSUME NEW state, NEW expected, RecordState(state, expected)
        PROVE  \/ UNCHANGED <<seasons, events>>
               \/ seasons' = Append(seasons, state) /\ Log(<<Event("CAREER_STATE_RECORDED", None, None)>>)
    BY <2>1 DEF RecordState
  <2> QED
    BY <2>1 DEF CareerStep, ShowCareerState, SendCareerState
<1> QED
  BY <1>1, <1>2, <1>3

LEMMA TransactionsWriteNothing ==
  ASSUME IsTable(events), TransactionStep \/ RetentionStep \/ TemplateStep \/ UNCHANGED vars
  PROVE  Writes({})
<1>1. UNCHANGED events
  BY DEF TransactionStep, ClaimOperation, Bind, EndOperation, RunBound, Hand, RetentionStep, TemplateStep, base, lineageVars,
     vars, allVars
<1> QED
  BY <1>1, WritesNothing

-----------------------------------------------------------------------------
(* Every step of every memory                                                *)

\* Each of the stores reads what is in it, as what the others hold stands.
StoresInv ==
  /\ TablesInv /\ SheetsInv /\ FormsInv /\ PointersInv /\ ClaimsInv
  /\ LinesInv /\ VersionsInv /\ ScopesInv /\ RightsInv
  /\ PeopleInv /\ CollaborationInv /\ ProfessionalInv /\ CreditsInv /\ ObligationsInv
  /\ NotesInv /\ SuggestionsInv /\ LearningInv
  /\ ImportsInv /\ CatalogInv /\ IsTable(seasons) /\ FilesInv

\* And the chronology tells what there is.
TalesInv ==
  /\ PeopleTold /\ ClaimsTold /\ CollaborationTold /\ ProfessionalTold /\ CreditsTold /\ ObligationsTold
  /\ NotesTold /\ SuggestionsTold /\ LearningTold /\ CareerTold

\* The lines of a step are those of the store that it writes to.
TellsOf(T) ==
  /\ PeopleStep \/ T \cap PeopleWords = {}
  /\ CollaborationStep \/ T \cap CollaborationWords = {}
  /\ ProfessionalStep \/ T \cap ProfessionalWords = {}
  /\ CreditsStep \/ T \cap CreditsWords = {}
  /\ ObligationStep \/ T \cap ObligationsWords = {}
  /\ NotesStep \/ T \cap NotesWords = {}
  /\ NotesStep \/ ClaimsStep \/ T \cap {"EVIDENCE_CLAIM_RECORDED"} = {}
  /\ SuggestionStep \/ T \cap SuggestionsWords = {}
  /\ LearningStep \/ FrictionStep \/ T \cap LearningWords = {}
  /\ CareerStep \/ T \cap CareerWords = {}

ObligationsTypes ==
  {"OBLIGATION_STATUS_OPEN", "OBLIGATION_STATUS_BLOCKED", "OBLIGATION_STATUS_DISPUTED", "OBLIGATION_STATUS_SATISFIED",
   "OBLIGATION_STATUS_WAIVED", "OBLIGATION_STATUS_CANCELED", "OBLIGATION_CREATED", "OBLIGATION_TRIGGER_OBSERVED"}

LEMMA ObligationsTypesAre == ObligationsWords = ObligationsTypes
BY DEF ObligationsWords, ObligationsTypes, Statuses, OpenStatus, Terminal, StatusTold

\* No two stores have a type of line in common.
Apart(TypesOfObligations) ==
  /\ \A t \in LineageWords \cup {"EVIDENCE_CLAIM_RECORDED"} :
       t \notin PeopleWords \cup CollaborationWords \cup ProfessionalWords \cup CreditsWords \cup TypesOfObligations
                  \cup NotesWords \cup SuggestionsWords \cup LearningWords \cup CareerWords
  /\ \A t \in LineageWords : t # "EVIDENCE_CLAIM_RECORDED"
  /\ \A t \in PeopleWords :
       t \notin CollaborationWords \cup ProfessionalWords \cup CreditsWords \cup TypesOfObligations
                  \cup NotesWords \cup SuggestionsWords \cup LearningWords \cup CareerWords
  /\ \A t \in CollaborationWords :
       t \notin ProfessionalWords \cup CreditsWords \cup TypesOfObligations
                  \cup NotesWords \cup SuggestionsWords \cup LearningWords \cup CareerWords
  /\ \A t \in ProfessionalWords :
       t \notin CreditsWords \cup TypesOfObligations
                  \cup NotesWords \cup SuggestionsWords \cup LearningWords \cup CareerWords
  /\ \A t \in CreditsWords : t \notin TypesOfObligations \cup NotesWords \cup SuggestionsWords \cup LearningWords \cup CareerWords
  /\ \A t \in TypesOfObligations : t \notin NotesWords \cup SuggestionsWords \cup LearningWords \cup CareerWords
  /\ \A t \in NotesWords : t \notin SuggestionsWords \cup LearningWords \cup CareerWords
  /\ \A t \in SuggestionsWords : t \notin LearningWords \cup CareerWords
  /\ \A t \in LearningWords : t \notin CareerWords

LEMMA WordsApart == Apart(ObligationsWords)
<1>1. Apart(ObligationsTypes)
  BY DEF Apart, LineageWords, PeopleWords, CollaborationWords, ProfessionalWords, CreditsWords, ObligationsTypes,
         NotesWords, SuggestionsWords, LearningWords, CareerWords
<1> QED
  BY <1>1, ObligationsTypesAre

LEMMA WhoWrites ==
  ASSUME StoresInv, TalesInv, [Next]_vars
  PROVE  \E T : Writes(T) /\ TellsOf(T)
<1>0. IsTable(events) /\ IsTable(claims)
  BY DEF StoresInv, LinesInv, ClaimsInv
<1>1. CASE LineageStep
  <2>1. PICK T \in SUBSET LineageWords : Writes(T)
    BY <1>1, LineageWritten DEF StoresInv
  <2>2. TellsOf(T)
    BY WordsApart DEF Apart, TellsOf
  <2> QED
    BY <2>1, <2>2
<1>2. CASE PeopleStep
  <2>1. PICK T \in SUBSET PeopleWords : Writes(T)
    BY <1>2, PeopleWritten DEF StoresInv, TalesInv
  <2>2. \A t \in T : t # "EVIDENCE_CLAIM_RECORDED"
    BY WordsApart DEF Apart
  <2>3. TellsOf(T)
    BY <1>2, <2>2, WordsApart DEF Apart, TellsOf
  <2> QED
    BY <2>1, <2>3
<1>3. CASE ClaimsStep
  <2>1. PICK T \in SUBSET {"EVIDENCE_CLAIM_RECORDED"} : Writes(T)
    BY <1>0, <1>3, ClaimsWritten DEF StoresInv, TalesInv
  <2>2. TellsOf(T)
    BY <1>3, WordsApart DEF Apart, TellsOf
  <2> QED
    BY <2>1, <2>2
<1>4. CASE CollaborationStep
  <2>1. PICK T \in SUBSET CollaborationWords : Writes(T)
    BY <1>4, CollaborationWritten DEF StoresInv, TalesInv
  <2>2. TellsOf(T)
    BY <1>4, WordsApart DEF Apart, TellsOf
  <2> QED
    BY <2>1, <2>2
<1>5. CASE ProfessionalStep
  <2>1. PICK T \in SUBSET ProfessionalWords : Writes(T)
    BY <1>5, ProfessionalWritten DEF StoresInv, TalesInv
  <2>2. TellsOf(T)
    BY <1>5, WordsApart DEF Apart, TellsOf
  <2> QED
    BY <2>1, <2>2
<1>6. CASE CreditsStep
  <2>1. PICK T \in SUBSET CreditsWords : Writes(T)
    BY <1>6, CreditsWritten DEF StoresInv, TalesInv
  <2>2. TellsOf(T)
    BY <1>6, WordsApart DEF Apart, TellsOf
  <2> QED
    BY <2>1, <2>2
<1>7. CASE ObligationStep
  <2>1. PICK T \in SUBSET ObligationsWords : Writes(T)
    BY <1>0, <1>7, ObligationsWritten DEF StoresInv, TalesInv
  <2>2. TellsOf(T)
    BY <1>7, WordsApart DEF Apart, TellsOf
  <2> QED
    BY <2>1, <2>2
<1>8. CASE NotesStep
  <2>1. PICK T \in SUBSET (NotesWords \cup {"EVIDENCE_CLAIM_RECORDED"}) : Writes(T)
    BY <1>0, <1>8, NotesWritten DEF StoresInv, TalesInv
  <2>2. TellsOf(T)
    BY <1>8, WordsApart DEF Apart, TellsOf
  <2> QED
    BY <2>1, <2>2
<1>9. CASE SuggestionStep
  <2>1. PICK T \in SUBSET SuggestionsWords : Writes(T)
    BY <1>9, SuggestionsWritten DEF StoresInv, TalesInv
  <2>2. TellsOf(T)
    BY <1>9, WordsApart DEF Apart, TellsOf
  <2> QED
    BY <2>1, <2>2
<1>10. CASE LearningStep \/ FrictionStep
  <2>1. PICK T \in SUBSET LearningWords : Writes(T)
    BY <1>0, <1>10, LearningWritten, FrictionWritten DEF StoresInv, TalesInv
  <2>2. TellsOf(T)
    BY <1>10, WordsApart DEF Apart, TellsOf
  <2> QED
    BY <2>1, <2>2
<1>11. CASE CareerStep
  <2>1. PICK T \in SUBSET CareerWords : Writes(T)
    BY <1>0, <1>11, CareerWritten DEF StoresInv, TalesInv
  <2>2. TellsOf(T)
    BY <1>11, WordsApart DEF Apart, TellsOf
  <2> QED
    BY <2>1, <2>2
<1>12. CASE TransactionStep \/ RetentionStep \/ TemplateStep \/ UNCHANGED vars
  <2>1. PICK T : T = {} /\ Writes(T)
    BY <1>0, <1>12, TransactionsWriteNothing
  <2>2. TellsOf(T)
    BY <2>1 DEF TellsOf
  <2> QED
    BY <2>1, <2>2
<1> QED
  BY <1>1, <1>2, <1>3, <1>4, <1>5, <1>6, <1>7, <1>8, <1>9, <1>10, <1>11, <1>12 DEF Next, ClaimsStep, NotesStep

\* What is there stays there, for every store that names it.
StoresGrow ==
  /\ RowsKept /\ Kept(claims, claims', DOMAIN claims) /\ SessionsGrow /\ Kept(events, events', DOMAIN events)
  /\ people \subseteq people' /\ DOMAIN followups \subseteq DOMAIN followups'

LEMMA StoresAreKept ==
  ASSUME StoresInv, TalesInv, [Next]_vars
  PROVE  StoresGrow /\ VersionsInv' /\ LinesInv'
<1>0. /\ IsTable(events) /\ IsTable(claims) /\ IsTable(versions) /\ IsTable(assets) /\ IsTable(sessions)
      /\ IsTable(followups)
  BY DEF StoresInv, LinesInv, ClaimsInv, PointersInv, VersionsInv, NotesInv, TablesInv
<1>1. RowsKept /\ VersionsInv'
  <2>1. CASE LineageStep
    BY <2>1, LineageWritten DEF StoresInv
  <2>2. CASE UNCHANGED <<songs, active, versions, assets>>
    <3>1. IsTable(versions) /\ IsTable(assets)
      BY <1>0
    <3>2. Kept(versions, versions', DOMAIN versions) /\ Kept(assets, assets', DOMAIN assets)
      BY <2>2, <3>1, KeptSame
    <3>3. RowsKept
      BY <2>2, <3>2 DEF RowsKept, Known
    <3>4. VersionsInv
      BY DEF StoresInv
    <3>5. VersionsInv'
      BY <2>2, <3>3, <3>4, VersionsKept DEF Known, VersionsOf
    <3> QED
      BY <3>3, <3>5
  <2> QED
    BY <2>1, <2>2, Framed DEF vars, allVars, base, lineageVars, recordVars
<1>2. Kept(claims, claims', DOMAIN claims)
  <2>1. CASE ClaimsStep
    BY <1>0, <2>1, ClaimsWritten DEF StoresInv, TalesInv
  <2>2. CASE UNCHANGED claims
    BY <1>0, <2>2, KeptSame
  <2> QED
    BY <2>1, <2>2, Framed DEF ClaimsStep, vars, allVars, base
<1>3. SessionsGrow
  <2>1. CASE NotesStep
    BY <1>0, <2>1, NotesWritten DEF StoresInv, TalesInv
  <2>2. CASE UNCHANGED sessions
    BY <1>0, <2>2, SessionsSame
  <2> QED
    BY <2>1, <2>2, Framed DEF NotesStep, vars, allVars, making, sessionVars
<1>4. PICK T : Writes(T)
  BY WhoWrites
<1>5. Kept(events, events', DOMAIN events)
  BY <1>4 DEF Writes
<1>6. people \subseteq people' /\ DOMAIN followups \subseteq DOMAIN followups'
  <2>1. CASE PeopleStep
    BY <2>1, PeopleWritten DEF StoresInv, TalesInv, Kept
  <2>2. CASE UNCHANGED peopleVars
    BY <2>2 DEF peopleVars
  <2> QED
    BY <2>1, <2>2, Framed DEF vars, allVars, base
<1>7. LinesInv'
  BY <1>1, <1>4, StillReads, LinesStay DEF StoresInv
<1> QED
  BY <1>1, <1>2, <1>3, <1>5, <1>6, <1>7 DEF StoresGrow

LEMMA UntoldIs ==
  ASSUME NEW words, NEW T, Writes(T), T \cap words = {}, Superseding \notin words
  PROVE  Untold(words)
BY DEF Writes, Untold

LEMMA WordsAreNot ==
  /\ Superseding \notin PeopleWords /\ Superseding \notin CollaborationWords /\ Superseding \notin ProfessionalWords
  /\ Superseding \notin CreditsWords /\ Superseding \notin ObligationsWords /\ Superseding \notin NotesWords
  /\ Superseding \notin SuggestionsWords /\ Superseding \notin LearningWords /\ Superseding \notin CareerWords
  /\ Superseding \notin {"EVIDENCE_CLAIM_RECORDED"}
<1> USE DEF Superseding, PeopleWords, CollaborationWords, ProfessionalWords, CreditsWords, ObligationsTypes,
            NotesWords, SuggestionsWords, LearningWords, CareerWords
<1>1. Superseding \notin ObligationsTypes
  OBVIOUS
<1>2. /\ Superseding \notin PeopleWords /\ Superseding \notin CollaborationWords /\ Superseding \notin ProfessionalWords
      /\ Superseding \notin CreditsWords /\ Superseding \notin NotesWords
      /\ Superseding \notin SuggestionsWords /\ Superseding \notin LearningWords /\ Superseding \notin CareerWords
      /\ Superseding \notin {"EVIDENCE_CLAIM_RECORDED"}
  OBVIOUS
<1> QED
  BY ONLY <1>1, <1>2, ObligationsTypesAre

\* What a store is not written to by is not told.
LEMMA WhatIsUntold ==
  ASSUME StoresInv, TalesInv, [Next]_vars
  PROVE  /\ PeopleStep \/ Untold(PeopleWords)
         /\ CollaborationStep \/ Untold(CollaborationWords)
         /\ ProfessionalStep \/ Untold(ProfessionalWords)
         /\ CreditsStep \/ Untold(CreditsWords)
         /\ ObligationStep \/ Untold(ObligationsWords)
         /\ NotesStep \/ Untold(NotesWords)
         /\ NotesStep \/ ClaimsStep \/ Untold({"EVIDENCE_CLAIM_RECORDED"})
         /\ SuggestionStep \/ Untold(SuggestionsWords)
         /\ LearningStep \/ FrictionStep \/ Untold(LearningWords)
         /\ CareerStep \/ Untold(CareerWords)
<1>1. PICK T : Writes(T) /\ TellsOf(T)
  BY WhoWrites
<1> QED
  BY <1>1, UntoldIs, WordsAreNot DEF TellsOf

\* Who may change what, of the stores of this proof.
LEMMA WhoChanges ==
  ASSUME [Next]_vars
  PROVE  /\ PeopleStep \/ UNCHANGED peopleVars
         /\ ClaimsStep \/ UNCHANGED claims
         /\ CollaborationStep \/ UNCHANGED handoffVars
         /\ ProfessionalStep \/ UNCHANGED handoffs
         /\ CreditsStep \/ UNCHANGED creditVars
         /\ ObligationStep \/ UNCHANGED obligations
         /\ NotesStep \/ UNCHANGED <<sessions, items, derivations>>
         /\ SuggestionStep \/ UNCHANGED <<deferrals, opinions>>
         /\ LearningStep \/ UNCHANGED <<episodes, skills, bound>>
         /\ FrictionStep \/ UNCHANGED frictions
         /\ CareerStep \/ UNCHANGED seasons
<1>1. CASE UNCHANGED vars
  BY <1>1 DEF vars, allVars, base, lineageVars, recordVars, collabs, rights, making, context, sessionVars,
     suggestionVars, learningVars, frictionVars, careerVars
<1>2. CASE Next
  BY <1>2, Framed DEF ClaimsStep, NotesStep
<1> QED
  BY <1>1, <1>2

LEMMA PeopleStay == ASSUME StoresInv, TalesInv, [Next]_vars PROVE PeopleInv' /\ PeopleTold'
<1>1. CASE PeopleStep
  BY <1>1, PeopleWritten DEF StoresInv, TalesInv
<1>2. CASE ~PeopleStep
  <2>1. UNCHANGED peopleVars /\ Untold(PeopleWords) /\ Known \subseteq Known'
    BY <1>2, WhoChanges, WhatIsUntold, StoresAreKept DEF StoresGrow, RowsKept
  <2> QED
    BY <2>1, PeopleFramed DEF StoresInv, TalesInv
<1> QED
  BY <1>1, <1>2

LEMMA ScopesStay == ASSUME StoresInv, TalesInv, [Next]_vars PROVE ScopesInv' /\ ClaimsTold'
<1>0. IsTable(claims)
  BY DEF StoresInv, ClaimsInv
<1>1. CASE ClaimsStep
  BY <1>0, <1>1, ClaimsWritten DEF StoresInv, TalesInv
<1>2. CASE ~ClaimsStep
  <2>1. UNCHANGED claims /\ RowsKept
    BY <1>2, WhoChanges, StoresAreKept DEF StoresGrow
  <2>2. ScopesInv'
    BY <2>1, ScopesFramed DEF StoresInv
  <2>3. CASE NotesStep
    BY <1>0, <2>2, <2>3, NotesWritten DEF StoresInv, TalesInv
  <2>4. CASE ~NotesStep
    <3>1. Untold(NotesWords) /\ Untold({"EVIDENCE_CLAIM_RECORDED"})
      BY <1>2, <2>4, WhatIsUntold
    <3>2. ClaimsTold
      BY DEF TalesInv
    <3>3. ClaimsTold'
      BY <2>1, <3>1, <3>2 DEF ClaimsTold, Untold, NotesWords
    <3> QED
      BY <2>2, <3>3
  <2> QED
    BY <2>3, <2>4
<1> QED
  BY <1>1, <1>2

LEMMA CollaborationStays == ASSUME StoresInv, TalesInv, [Next]_vars PROVE CollaborationInv' /\ CollaborationTold'
<1>1. CASE CollaborationStep
  BY <1>1, CollaborationWritten DEF StoresInv, TalesInv
<1>2. CASE ~CollaborationStep
  <2>1. UNCHANGED handoffVars /\ Untold(CollaborationWords) /\ RowsKept /\ people \subseteq people'
    BY <1>2, WhoChanges, WhatIsUntold, StoresAreKept DEF StoresGrow
  <2> QED
    BY <2>1, CollaborationFramed DEF StoresInv, TalesInv
<1> QED
  BY <1>1, <1>2

LEMMA ProfessionalStays == ASSUME StoresInv, TalesInv, [Next]_vars PROVE ProfessionalInv' /\ ProfessionalTold'
<1>1. CASE ProfessionalStep
  BY <1>1, ProfessionalWritten DEF StoresInv, TalesInv
<1>2. CASE ~ProfessionalStep
  <2>1. UNCHANGED handoffs /\ Untold(ProfessionalWords) /\ RowsKept
    BY <1>2, WhoChanges, WhatIsUntold, StoresAreKept DEF StoresGrow
  <2> QED
    BY <2>1, ProfessionalFramed DEF StoresInv, TalesInv
<1> QED
  BY <1>1, <1>2

LEMMA CreditsStay == ASSUME StoresInv, TalesInv, [Next]_vars PROVE CreditsInv' /\ CreditsTold'
<1>1. CASE CreditsStep
  BY <1>1, CreditsWritten DEF StoresInv, TalesInv
<1>2. CASE ~CreditsStep
  <2>1. UNCHANGED creditVars /\ Untold(CreditsWords) /\ Known \subseteq Known' /\ people \subseteq people'
    BY <1>2, WhoChanges, WhatIsUntold, StoresAreKept DEF StoresGrow, RowsKept
  <2> QED
    BY <2>1, CreditsFramed DEF StoresInv, TalesInv
<1> QED
  BY <1>1, <1>2

LEMMA ObligationsStay == ASSUME StoresInv, TalesInv, [Next]_vars PROVE ObligationsInv' /\ ObligationsTold'
<1>0. IsTable(claims)
  BY DEF StoresInv, ClaimsInv
<1>1. CASE ObligationStep
  BY <1>0, <1>1, ObligationsWritten DEF StoresInv, TalesInv
<1>2. CASE ~ObligationStep
  <2>1. UNCHANGED obligations /\ Untold(ObligationsWords)
    BY <1>2, WhoChanges, WhatIsUntold
  <2> QED
    BY <2>1, StoresAreKept, ObligationsFramed DEF StoresInv, TalesInv, StoresGrow
<1> QED
  BY <1>1, <1>2

LEMMA NotesStay == ASSUME StoresInv, TalesInv, [Next]_vars PROVE NotesInv' /\ NotesTold'
<1>0. IsTable(claims)
  BY DEF StoresInv, ClaimsInv
<1>1. CASE NotesStep
  BY <1>0, <1>1, NotesWritten DEF StoresInv, TalesInv
<1>2. CASE ~NotesStep
  <2>1. UNCHANGED sessionVars /\ UNCHANGED derivations /\ Untold(NotesWords) /\ RowsKept
    BY <1>2, WhoChanges, WhatIsUntold, StoresAreKept DEF StoresGrow, sessionVars
  <2> QED
    BY <2>1, NotesFramed DEF StoresInv, TalesInv
<1> QED
  BY <1>1, <1>2

LEMMA SuggestionsStay == ASSUME StoresInv, TalesInv, [Next]_vars PROVE SuggestionsInv' /\ SuggestionsTold'
<1>1. CASE SuggestionStep
  BY <1>1, SuggestionsWritten DEF StoresInv, TalesInv
<1>2. CASE ~SuggestionStep
  <2>1. UNCHANGED <<deferrals, opinions>> /\ Untold(SuggestionsWords)
    BY <1>2, WhoChanges, WhatIsUntold
  <2> QED
    BY <2>1, StoresAreKept, SuggestionsFramed DEF StoresInv, TalesInv, StoresGrow
<1> QED
  BY <1>1, <1>2

LEMMA LearningStays == ASSUME StoresInv, TalesInv, [Next]_vars PROVE LearningInv' /\ LearningTold'
<1>0. IsTable(claims)
  BY DEF StoresInv, ClaimsInv
<1>1. CASE LearningStep \/ FrictionStep
  BY <1>0, <1>1, LearningWritten, FrictionWritten DEF StoresInv, TalesInv
<1>2. CASE ~(LearningStep \/ FrictionStep)
  <2>1. UNCHANGED learningVars /\ UNCHANGED frictions /\ Untold(LearningWords)
    BY <1>2, WhoChanges, WhatIsUntold DEF learningVars
  <2> QED
    BY <2>1, StoresAreKept, LearningFramed DEF StoresInv, TalesInv, StoresGrow
<1> QED
  BY <1>1, <1>2

LEMMA CareerStays == ASSUME StoresInv, TalesInv, [Next]_vars PROVE IsTable(seasons') /\ CareerTold'
<1>0. IsTable(events) /\ IsTable(seasons)
  BY DEF StoresInv, LinesInv
<1>1. CASE CareerStep
  BY <1>0, <1>1, CareerWritten DEF TalesInv
<1>2. CASE ~CareerStep
  <2>1. UNCHANGED seasons /\ Untold(CareerWords)
    BY <1>2, WhoChanges, WhatIsUntold
  <2>2. CareerTold
    BY DEF TalesInv
  <2> QED
    BY <1>0, <2>1, <2>2 DEF CareerTold, Untold, CareerWords
<1> QED
  BY <1>1, <1>2

LEMMA StoresStay == StoresInv /\ TalesInv /\ [Next]_vars => StoresInv' /\ TalesInv'
<1> SUFFICES ASSUME StoresInv, TalesInv, [Next]_vars PROVE StoresInv' /\ TalesInv'
  OBVIOUS
<1>1. TablesInv' /\ SheetsInv'
  BY TablesStay DEF StoresInv
<1>2. FormsInv'
  BY FormsStay DEF StoresInv
<1>3. IsTable(claims)
  BY DEF StoresInv, ClaimsInv
<1>4. PointersInv'
  BY <1>3, PointersStay DEF StoresInv
<1>5. ClaimsInv' /\ RightsInv'
  BY <1>3, ClaimsStay, RightsKept DEF StoresInv
<1>6. LinesInv' /\ VersionsInv' /\ Known \subseteq Known'
  BY StoresAreKept DEF StoresGrow, RowsKept
<1>7. ImportsInv' /\ CatalogInv'
  BY <1>6, ImportsStay, CatalogStays DEF StoresInv
<1>8. FilesInv'
  BY FilesStay DEF StoresInv
<1>9. /\ PeopleInv' /\ PeopleTold' /\ ScopesInv' /\ ClaimsTold' /\ CollaborationInv' /\ CollaborationTold'
      /\ ProfessionalInv' /\ ProfessionalTold' /\ CreditsInv' /\ CreditsTold'
  BY PeopleStay, ScopesStay, CollaborationStays, ProfessionalStays, CreditsStay
<1>10. /\ ObligationsInv' /\ ObligationsTold' /\ NotesInv' /\ NotesTold' /\ SuggestionsInv' /\ SuggestionsTold'
       /\ LearningInv' /\ LearningTold' /\ IsTable(seasons') /\ CareerTold'
  BY ObligationsStay, NotesStay, SuggestionsStay, LearningStays, CareerStays
<1>11. StoresInv'
  BY <1>1, <1>2, <1>4, <1>5, <1>6, <1>7, <1>8, <1>9, <1>10 DEF StoresInv
<1>12. TalesInv'
  BY <1>9, <1>10 DEF TalesInv
<1> QED
  BY <1>11, <1>12

LEMMA StoresStart == Init => StoresInv /\ TalesInv
<1> SUFFICES ASSUME Init PROVE StoresInv /\ TalesInv
  OBVIOUS
<1>1. TablesInv /\ SheetsInv /\ FormsInv /\ PointersInv /\ ClaimsInv
  BY TablesStart, FormsStart, PointersStart, ClaimsStart
<1>2. /\ songs = [s \in Song |-> None] /\ versions = <<>> /\ assets = <<>> /\ claims = <<>>
      /\ blobs = [d \in Digest |-> "absent"] /\ ingest = None /\ decisions = <<>> /\ derivations = <<>>
      /\ events = <<Event("ACTIVITY_TRACKING_ENABLED", None, None)>>
      /\ people = {} /\ accounts = {} /\ followups = <<>> /\ reviews = <<>>
  BY DEF Init, LineageInit, ClaimsInit, PeopleInit
<1>3. /\ packages = <<>> /\ feedback = <<>> /\ handoffs = <<>> /\ credits = <<>> /\ sheets = <<>>
      /\ obligations = <<>> /\ sessions = <<>> /\ items = <<>> /\ deferrals = <<>> /\ opinions = <<>>
      /\ episodes = <<>> /\ skills = [k \in Skill |-> <<>>] /\ bound = {} /\ frictions = <<>>
      /\ imports = <<>> /\ present = FALSE /\ templates = <<>> /\ selections = <<>> /\ seasons = <<>>
  BY DEF Init, HandoffInit, ProfessionalInit, CreditsInit, ObligationsInit, SessionsInit, SuggestionsInit, OpinionsInit,
     LearningInit, FrictionInit, RetentionInit, CatalogInit, CareerInit
<1>4. PICK one : /\ one = <<Event("ACTIVITY_TRACKING_ENABLED", None, None)>> /\ IsTable(one)
                 /\ Len(one) = 1 /\ one[1] = Event("ACTIVITY_TRACKING_ENABLED", None, None)
  BY OneRow
<1>5. DOMAIN one = 1..1 /\ one[1].type = "ACTIVITY_TRACKING_ENABLED" /\ one[1].song = None /\ one[1].version = None
  BY <1>4, TableIs DEF Event
<1>6. IsTable(events) /\ events = one /\ DOMAIN events = {1}
  BY <1>2, <1>4, <1>5
<1>7. LinesInv
  BY <1>4, <1>5, <1>6 DEF LinesInv, LineReads
<1>8. ASSUME NEW type, type # "ACTIVITY_TRACKING_ENABLED" PROVE Tally(events, type) = 0
  <2>1. {i \in DOMAIN events : events[i].type = type} = {}
    BY <1>5, <1>6, <1>8
  <2> QED
    BY <2>1, FS_EmptySet DEF Tally
<1>9. Known = {}
  BY <1>2 DEF Known
<1>10. VersionsInv
  <2>1. DOMAIN versions = {} /\ DOMAIN assets = {} /\ IsTable(assets)
    BY <1>2, EmptyTable
  <2> QED
    BY <1>9, <2>1 DEF VersionsInv
<1>11. ScopesInv /\ RightsInv
  BY <1>2, EmptyTable DEF ScopesInv, RightsInv
<1>12. \A st : InState(<<>>, st) = 0
  <2>1. \A st : {i \in DOMAIN <<>> : <<>>[i].state = st} = {}
    BY EmptyTable
  <2> QED
    BY <2>1, FS_EmptySet DEF InState
<1>13. PeopleInv /\ PeopleTold
  <2>1. DOMAIN followups = {} /\ DOMAIN reviews = {} /\ Len(followups) = 0
    BY <1>2, EmptyTable
  <2>2. PeopleInv
    BY <1>2, <2>1, FS_EmptySet DEF PeopleInv
  <2>3. \A st : Through(reviews, st) = {}
    BY <2>1 DEF Through
  <2>4. Cardinality({}) = 0
    BY FS_EmptySet
  <2> QED
    BY <1>2, <1>8, <1>12, <2>1, <2>2, <2>3, <2>4 DEF PeopleTold
<1>14. CollaborationInv /\ CollaborationTold
  <2>1. DOMAIN packages = {} /\ DOMAIN feedback = {}
    BY <1>3, EmptyTable
  <2>2. CollaborationInv
    BY <2>1 DEF CollaborationInv
  <2> QED
    BY <1>3, <1>8, <1>12, <2>2 DEF CollaborationTold
<1>15. ProfessionalInv /\ ProfessionalTold
  <2>1. DOMAIN handoffs = {}
    BY <1>3, EmptyTable
  <2>2. ProfessionalInv
    BY <2>1 DEF ProfessionalInv
  <2>3. Cardinality(Receipts(handoffs)) = 0
    BY <2>1, FS_EmptySet DEF Receipts
  <2> QED
    BY <1>3, <1>8, <1>12, <2>2, <2>3 DEF ProfessionalTold
<1>16. CreditsInv /\ CreditsTold
  <2>1. DOMAIN credits = {} /\ DOMAIN sheets = {} /\ IsTable(credits) /\ Len(sheets) = 0
    BY <1>3, EmptyTable
  <2>2. CreditsInv
    BY <2>1 DEF CreditsInv
  <2> QED
    BY <1>3, <1>8, <1>12, <2>1, <2>2 DEF CreditsTold
<1>17. ObligationsInv /\ ObligationsTold
  <2>1. DOMAIN obligations = {}
    BY <1>3, EmptyTable
  <2>2. \A st : Lived(obligations, st) = {}
    BY <2>1 DEF Lived
  <2>3. ObligationsInv
    BY <2>1, <2>2, FS_EmptySet DEF ObligationsInv
  <2>4. \A st \in Statuses : StatusTold[st] # "ACTIVITY_TRACKING_ENABLED"
    BY DEF Statuses, OpenStatus, Terminal, StatusTold
  <2> QED
    BY <1>8, <2>2, <2>3, <2>4, FS_EmptySet DEF ObligationsTold
<1>18. NotesInv /\ NotesTold
  <2>1. /\ DOMAIN sessions = {} /\ DOMAIN items = {} /\ DOMAIN derivations = {} /\ Len(derivations) = 0
        /\ IsTable(sessions) /\ IsTable(items) /\ IsTable(derivations)
    BY <1>2, <1>3, EmptyTable
  <2>2. NotesInv
    BY <2>1 DEF NotesInv
  <2>3. Cardinality(Promoted(items)) = 0
    BY <2>1, FS_EmptySet DEF Promoted
  <2> QED
    BY <1>8, <2>1, <2>2, <2>3 DEF NotesTold
<1>19. SuggestionsInv /\ SuggestionsTold
  <2>1. /\ DOMAIN deferrals = {} /\ DOMAIN opinions = {} /\ Len(deferrals) = 0 /\ Len(opinions) = 0
        /\ IsTable(deferrals) /\ IsTable(opinions)
    BY <1>3, EmptyTable
  <2>2. SuggestionsInv
    BY <2>1 DEF SuggestionsInv
  <2> QED
    BY <1>8, <2>1, <2>2 DEF SuggestionsTold
<1>20. LearningInv /\ LearningTold
  <2>1. /\ DOMAIN episodes = {} /\ Len(episodes) = 0 /\ DOMAIN frictions = {} /\ Len(frictions) = 0 /\ IsTable(frictions)
        /\ DOMAIN skills = Skill /\ \A k \in Skill : IsTable(skills[k]) /\ DOMAIN skills[k] = {}
    BY <1>3, EmptyTable
  <2>2. Assessed(skills) = {}
    BY <2>1, AssessedIs
  <2>3. LearningInv
    BY <1>3, <2>1, <2>2, FS_EmptySet DEF LearningInv
  <2>4. Cardinality(DecidedRows(episodes)) = 0
    BY <2>1, FS_EmptySet DEF DecidedRows
  <2> QED
    BY <1>8, <2>1, <2>2, <2>3, <2>4, FS_EmptySet DEF LearningTold
<1>21. ClaimsTold
  BY <1>2, <1>8, EmptyTable DEF ClaimsTold
<1>22. IsTable(seasons) /\ CareerTold
  BY <1>3, <1>8, EmptyTable DEF CareerTold
<1>23. ImportsInv /\ CatalogInv /\ FilesInv
  BY <1>2, <1>3, EmptyTable DEF ImportsInv, ImportsReadable, CatalogInv, CatalogReadable, FilesInv
<1>24. StoresInv
  BY <1>1, <1>7, <1>10, <1>11, <1>13, <1>14, <1>15, <1>16, <1>17, <1>18, <1>19, <1>20, <1>22, <1>23 DEF StoresInv
<1> QED
  BY <1>13, <1>14, <1>15, <1>16, <1>17, <1>18, <1>19, <1>20, <1>21, <1>22, <1>24 DEF TalesInv

-----------------------------------------------------------------------------
(* A profile reopens as it was left                                          *)

LEMMA LineageReads == StoresInv => LineageTypeOK /\ LineageReadable /\ ActivityReadable /\ DecisionsReadable /\ ProvenanceReadable
<1> SUFFICES ASSUME StoresInv
             PROVE  LineageTypeOK /\ LineageReadable /\ ActivityReadable /\ DecisionsReadable /\ ProvenanceReadable
  OBVIOUS
<1>1. PointersInv /\ LinesInv /\ VersionsInv /\ NotesInv /\ FilesInv
  BY DEF StoresInv
<1>2. DOMAIN versions \subseteq Nat
  <2>1. IsTable(versions)
    BY <1>1 DEF PointersInv
  <2> QED
    BY <2>1, TableIs
<1>3. songs \in [Song -> {None} \cup [current : DOMAIN versions \cup {None}, approved : DOMAIN versions \cup {None}]]
  <2>1. ASSUME NEW s \in Song, songs[s] # None
        PROVE  songs[s] \in [current : DOMAIN versions \cup {None}, approved : DOMAIN versions \cup {None}]
    <3>1. s \in Known /\ songs[s] \in SongRow
      BY <1>1, <2>1 DEF PointersInv, Known
    <3>2. {songs[s].current, songs[s].approved} \subseteq DOMAIN versions \cup {None}
      BY <1>1, <3>1 DEF VersionsInv, VersionsOf
    <3> QED
      BY <3>1, <3>2 DEF SongRow
  <2> QED
    BY <1>1, <2>1 DEF PointersInv
<1>4. versions \in Seq([song : Song, ordinal : Nat \ {0}, parent : DOMAIN versions \cup {None}, assets : SUBSET DOMAIN assets])
  <2>1. IsTable(versions)
    BY <1>1 DEF PointersInv
  <2>2. \A v \in DOMAIN versions :
          versions[v] \in [song : Song, ordinal : Nat \ {0}, parent : DOMAIN versions \cup {None}, assets : SUBSET DOMAIN assets]
    BY <1>1 DEF VersionsInv, VersionRow, Known
  <2> QED
    BY <2>1, <2>2, RowsTyped
<1>5. assets \in Seq([song : Song, digest : Digest, managed : BOOLEAN])
  <2>1. IsTable(assets) /\ \A a \in DOMAIN assets : assets[a] \in [song : Song, digest : Digest, managed : BOOLEAN]
    BY <1>1 DEF VersionsInv, AssetRow, Known
  <2> QED
    BY <2>1, RowsTyped
<1>6. /\ blobs \in [Digest -> {"absent", "whole", "damaged"}] /\ ingest \in {None} \cup [song : Song, digest : Digest]
      /\ decisions \in Seq([song : Song, reference : DOMAIN versions, current : DOMAIN versions, judgment : Judgment])
      /\ DecisionsReadable
  <2>1. IsTable(<<>>) /\ DOMAIN <<>> = {}
    BY EmptyTable
  <2>2. <<>> \in Seq([song : Song, reference : DOMAIN versions, current : DOMAIN versions, judgment : Judgment])
    BY <2>1, RowsTyped
  <2> QED
    BY <1>1, <2>1, <2>2 DEF FilesInv, DecisionsReadable
<1>7. derivations \in Seq([song : Song, output : Object, input : Object \cup {External}]) /\ ProvenanceReadable
  <2>1. IsTable(derivations) /\ \A i \in DOMAIN derivations : DerivationReads(derivations[i])
    BY <1>1 DEF NotesInv
  <2>2. \A i \in DOMAIN derivations : derivations[i] \in [song : Song, output : Object, input : Object \cup {External}]
    BY <2>1 DEF DerivationReads, Known
  <2>3. derivations \in Seq([song : Song, output : Object, input : Object \cup {External}])
    BY <2>1, <2>2, RowsTyped
  <2>4. ASSUME NEW i \in DOMAIN derivations
        PROVE  LET d == derivations[i] IN
               /\ d.output \in Object /\ SongOfObject(d.output) = d.song
               /\ \/ d.input = External
                  \/ d.input \in Object /\ SongOfObject(d.input) = d.song
    <3>1. PICK d : d = derivations[i] /\ DerivationReads(d)
      BY <2>1
    <3> QED
      BY <3>1 DEF DerivationReads
  <2> QED
    BY <2>3, <2>4 DEF ProvenanceReadable
<1>8. events \in Seq([type : {events[i].type : i \in DOMAIN events}, song : Song \cup {None}, version : DOMAIN versions \cup {None}])
  <2>1. IsTable(events)
    BY <1>1 DEF LinesInv
  <2>2. ASSUME NEW i \in DOMAIN events
        PROVE  events[i] \in [type : {events[j].type : j \in DOMAIN events}, song : Song \cup {None},
                              version : DOMAIN versions \cup {None}]
    <3>1. events[i] = Event(events[i].type, events[i].song, events[i].version) /\ LineReads(events[i].song, events[i].version)
      BY <1>1 DEF LinesInv
    <3>2. events[i].song \in Song \cup {None} /\ events[i].version \in DOMAIN versions \cup {None}
      BY <3>1 DEF LineReads, Known, VersionsOf
    <3> QED
      BY <3>1, <3>2 DEF Event
  <2> QED
    BY <2>1, <2>2, RowsTyped
<1>9. ActivityReadable
  <2>1. \A i \in DOMAIN events : LineReads(events[i].song, events[i].version)
    BY <1>1 DEF LinesInv
  <2>2. events # <<>>
    BY <1>1, EmptyTable DEF LinesInv
  <2> QED
    BY <2>1, <2>2 DEF ActivityReadable, LineReads
<1> QED
  BY <1>1, <1>3, <1>4, <1>5, <1>6, <1>7, <1>8, <1>9 DEF LineageTypeOK, LineageReadable, PointersInv

LEMMA PeopleRead == StoresInv => PeopleTypeOK /\ PeopleReadable /\ ClaimsReadable /\ RightsReadable
<1> SUFFICES ASSUME StoresInv PROVE PeopleTypeOK /\ PeopleReadable /\ ClaimsReadable /\ RightsReadable
  OBVIOUS
<1>1. PeopleInv /\ TablesInv /\ ClaimsInv /\ ScopesInv /\ RightsInv
  BY DEF StoresInv
<1>2. PeopleTypeOK
  <2>1. IsTable(followups) /\ \A i \in DOMAIN followups : followups[i] \in FollowupRow
    BY <1>1 DEF TablesInv, PeopleInv, FollowupReads, FollowupRow, Known
  <2> QED
    BY <1>1, <2>1, RowsTyped DEF PeopleTypeOK, PeopleInv
<1>3. FollowupsReadable
  BY <1>1 DEF FollowupsReadable, PeopleInv, FollowupReads
<1>4. ReviewsReadable
  <2>1. ASSUME NEW x \in accounts PROVE Cardinality(Standing(x)) <= 1
    <3>1. \A q, r \in Standing(x) : q = r
      BY <1>1 DEF Standing, PeopleInv
    <3> QED
      BY <3>1, AtMostOne
  <2>2. \A r \in DOMAIN reviews :
          reviews[r].account \in accounts /\ reviews[r].person \in people /\ reviews[r].states \in ReviewLives
    BY <1>1 DEF PeopleInv, ReviewReads
  <2> QED
    BY <2>1, <2>2 DEF ReviewsReadable, ReviewLives
<1>5. ClaimsReadable
  <2>1. ASSUME NEW c \in DOMAIN claims, NEW d \in claims[c].replaces
        PROVE  d < c /\ claims[d].scope = claims[c].scope /\ claims[d].key = claims[c].key
    <3>1. IsTable(claims) /\ d \in 1..(c - 1) /\ claims[d].scope = claims[c].scope /\ claims[d].key = claims[c].key
      BY <1>1 DEF ClaimsInv, ReplacesInv
    <3>2. c \in Nat
      BY <3>1, TableIs
    <3> QED
      BY <3>1, <3>2
  <2> QED
    BY <1>1, <2>1 DEF ClaimsReadable, ScopesInv
<1>6. RightsReadable
  <2>1. ASSUME NEW t \in Targets, NEW i \in DOMAIN Stages, NEW c \in ItemsOf(t, Stages[i])
        PROVE  /\ claims[c].value \in Assertion /\ claims[c].ref
               /\ Stages[i] = "PROVIDER_RECEIPT" => claims[c].source = "PROVIDER_VERIFIED"
    <3>1. PICK stage : stage = Stages[i]
      OBVIOUS
    <3>2. c \in DOMAIN claims /\ claims[c].key = EvidenceKey(t, stage)
      BY <2>1, <3>1 DEF ItemsOf, ActiveClaims
    <3>3. claims[c].key[1] = "rights" /\ claims[c].key[3] = stage
      BY <3>2 DEF EvidenceKey
    <3>4. RightsReads(claims[c])
      BY <1>1, <3>2, <3>3 DEF RightsInv
    <3> QED
      BY <3>1, <3>3, <3>4 DEF RightsReads
  <2> QED
    BY <2>1 DEF RightsReadable
<1> QED
  BY <1>2, <1>3, <1>4, <1>5, <1>6 DEF PeopleReadable

LEMMA HandoffsRead == StoresInv => HandoffTypeOK /\ HandoffReadable /\ ProfessionalTypeOK /\ ProfessionalReadable
<1> SUFFICES ASSUME StoresInv PROVE HandoffTypeOK /\ HandoffReadable /\ ProfessionalTypeOK /\ ProfessionalReadable
  OBVIOUS
<1>1. CollaborationInv /\ ProfessionalInv /\ TablesInv /\ PeopleInv
  BY DEF StoresInv
<1>2. HandoffTypeOK
  <2>1. IsTable(packages) /\ \A k \in DOMAIN packages : packages[k] \in PackageRow
    BY <1>1 DEF TablesInv, CollaborationInv, PackageReads, PackageRow, PeopleInv
  <2>2. IsTable(feedback) /\ \A f \in DOMAIN feedback : feedback[f] \in FeedbackRow
    BY <1>1 DEF TablesInv, CollaborationInv, FeedbackReads, FeedbackRow
  <2> QED
    BY <2>1, <2>2, RowsTyped DEF HandoffTypeOK
<1>3. HandoffReadable
  <2>1. \A k \in DOMAIN packages : packages[k].person \in people /\ versions[packages[k].version].assets # {}
    BY <1>1 DEF CollaborationInv, PackageReads
  <2>2. \A f \in DOMAIN feedback : Answers(versions, feedback[f], packages[feedback[f].package].version)
    BY <1>1 DEF CollaborationInv
  <2>3. \A j, k \in DOMAIN packages : packages[j] = packages[k] /\ packages[k].state = "PREPARED" => j = k
    BY <1>1 DEF CollaborationInv
  <2> QED
    BY <2>1, <2>2, <2>3 DEF HandoffReadable, Answers, IsLater, SongOfVersion
<1>4. ProfessionalTypeOK
  BY <1>1, RowsTyped DEF TablesInv, ProfessionalInv, ProfessionalTypeOK
<1>5. ProfessionalReadable
  <2>1. ASSUME NEW h \in DOMAIN handoffs
        PROVE  /\ \A v \in {handoffs[h].current, handoffs[h].approved} \ {None} : versions[v].song = SongOf(h)
               /\ handoffs[h].state = "ACCEPTED" => handoffs[h].complete /\ handoffs[h].receipt
               /\ handoffs[h].supersedes # None =>
                    LET prior == handoffs[h].supersedes IN
                    /\ prior < h /\ Closed(prior)
                    /\ SongOf(prior) = SongOf(h) /\ handoffs[prior].policy = handoffs[h].policy
    <3>1. PICK row : row = handoffs[h]
      OBVIOUS
    <3>2. StateReads(row) /\ PointsRead(versions, row) /\ PriorReads(versions, handoffs, row, h)
      BY <1>1, <3>1 DEF ProfessionalInv
    <3>3. h \in Nat
      BY <1>1, TableIs DEF TablesInv
    <3>4. SongOf(h) = versions[row.upstream].song
      BY <3>1 DEF SongOf
    <3>5. row.state = "ACCEPTED" => row.complete /\ row.receipt
      BY <3>2 DEF StateReads
    <3>6. \A v \in {row.current, row.approved} \ {None} : versions[v].song = SongOf(h)
      BY <3>2, <3>4 DEF PointsRead
    <3>7. ASSUME row.supersedes # None
          PROVE  /\ row.supersedes < h /\ Closed(row.supersedes)
                 /\ SongOf(row.supersedes) = SongOf(h) /\ handoffs[row.supersedes].policy = row.policy
      <4>1. PICK prior : prior = row.supersedes
        OBVIOUS
      <4>2. /\ prior \in 1..(h - 1) /\ handoffs[prior].state \in {"RETURNED", "STALE"}
            /\ versions[handoffs[prior].upstream].song = versions[row.upstream].song
            /\ handoffs[prior].policy = row.policy
        BY <3>2, <3>7, <4>1 DEF PriorReads
      <4> QED
        BY <3>3, <3>4, <4>1, <4>2 DEF Closed, SongOf
    <3> QED
      BY <3>1, <3>5, <3>6, <3>7
  <2> QED
    BY <2>1 DEF ProfessionalReadable
<1> QED
  BY <1>2, <1>3, <1>4, <1>5

LEMMA CreditsRead == StoresInv => CreditsTypeOK /\ CreditsReadable /\ ObligationsReadable
<1> SUFFICES ASSUME StoresInv PROVE CreditsTypeOK /\ CreditsReadable /\ ObligationsReadable
  OBVIOUS
<1>1. CreditsInv /\ ObligationsInv /\ PeopleInv
  BY DEF StoresInv
<1>2. credits \in Seq([song : Song, person : Person])
  <2>1. IsTable(credits) /\ \A i \in DOMAIN credits : credits[i] \in [song : Song, person : Person]
    BY <1>1 DEF CreditsInv, PeopleInv, Known
  <2> QED
    BY <2>1, RowsTyped
<1>3. ASSUME NEW k \in DOMAIN sheets
      PROVE  /\ sheets[k].song \in Known /\ sheets[k].state \in SheetState /\ sheets[k].shares \in [Person -> {0} \cup Share]
             /\ Participants(k) \subseteq people
             /\ Total(sheets[k].shares) <= Whole
             /\ sheets[k].state = "OPEN_CONFIRMATION" => Total(sheets[k].shares) = Whole
             /\ \A i \in DOMAIN sheets[k].said : sheets[k].said[i].person \in Participants(k)
  <2>1. PICK row : row = sheets[k] /\ SheetReads(row)
    BY <1>1 DEF CreditsInv
  <2> QED
    BY <2>1 DEF SheetReads, Participants
<1>4. ASSUME NEW s \in Song PROVE Cardinality(ActiveSheets(s)) <= 1
  <2>1. \A j, k \in ActiveSheets(s) : j = k
    BY <1>1 DEF ActiveSheets, SheetsOf, CreditsInv
  <2> QED
    BY <2>1, AtMostOne
<1>5. CreditsTypeOK
  BY <1>2, <1>3 DEF CreditsTypeOK, Known
<1>6. CreditsReadable
  <2>1. \A i \in DOMAIN credits : credits[i].song \in Known /\ credits[i].person \in people
    BY <1>1 DEF CreditsInv
  <2> QED
    BY <1>3, <1>4, <2>1 DEF CreditsReadable
<1>7. ObligationsReadable
  <2>1. ASSUME NEW o \in DOMAIN obligations
        PROVE  LET ob == obligations[o] IN
               /\ ob.person \in people /\ ob.song \in Known \cup {None}
               /\ Compatible(ob.source, ob.song)
               /\ ob.followup # None => ob.followup \in DOMAIN followups
               /\ Len(ob.life) > 0 /\ ob.life[1].status = "OPEN"
               /\ \A i \in DOMAIN ob.life :
                    /\ Compatible(ob.life[i].claim, ob.song)
                    /\ i > 1 => MayBecome(ob.life[i - 1].status, ob.life[i].status)
               /\ \A i \in DOMAIN ob.triggers : ob.awaits /\ Compatible(ob.triggers[i], ob.song)
    <3>1. PICK ob : ob = obligations[o] /\ ObligationReads(ob)
      BY <1>1 DEF ObligationsInv
    <3>2. /\ ob.person \in people /\ ob.song \in Known \cup {None}
          /\ Compatible(ob.source, ob.song)
          /\ ob.followup # None => ob.followup \in DOMAIN followups
          /\ Len(ob.life) > 0 /\ ob.life[1].status = "OPEN"
          /\ \A i \in DOMAIN ob.life :
               /\ Compatible(ob.life[i].claim, ob.song)
               /\ i > 1 => MayBecome(ob.life[i - 1].status, ob.life[i].status)
          /\ \A i \in DOMAIN ob.triggers : ob.awaits /\ Compatible(ob.triggers[i], ob.song)
      BY <3>1 DEF ObligationReads, Rests
    <3> QED
      BY <3>1, <3>2
  <2> QED
    BY <2>1 DEF ObligationsReadable
<1> QED
  BY <1>5, <1>6, <1>7

LEMMA SessionsRead ==
  StoresInv => /\ SessionsTypeOK /\ SessionsReadable /\ SuggestionsReadable /\ LearningReadable /\ FrictionReadable
               /\ \A k \in Skill : \A i \in DOMAIN skills[k] : skills[k][i].level \in Level
<1> SUFFICES ASSUME StoresInv
             PROVE  /\ SessionsTypeOK /\ SessionsReadable /\ SuggestionsReadable /\ LearningReadable /\ FrictionReadable
                    /\ \A k \in Skill : \A i \in DOMAIN skills[k] : skills[k][i].level \in Level
  OBVIOUS
<1>1. NotesInv /\ SuggestionsInv /\ LearningInv
  BY DEF StoresInv
<1>2. SessionsTypeOK
  <2>1. IsTable(sessions) /\ IsTable(items)
    BY <1>1 DEF NotesInv
  <2>2. \A i \in DOMAIN sessions :
          sessions[i] \in [song : Song, version : {None} \cup DOMAIN versions, state : {"OPEN", "CLOSED"}]
    BY <1>1 DEF NotesInv, SessionReads, Known
  <2>3. \A i \in DOMAIN items :
          items[i] \in [session : DOMAIN sessions, kind : Kind, written : BOOLEAN,
                        request : {None} \cup AllTerms, claim : {None} \cup AllTerms]
    BY <1>1 DEF NotesInv, ItemReads
  <2> QED
    BY <2>1, <2>2, <2>3, RowsTyped DEF SessionsTypeOK
<1>3. SessionsReadable
  <2>1. \A i \in DOMAIN sessions :
          /\ sessions[i].song \in Known
          /\ sessions[i].version # None => sessions[i].version \in VersionsOf(sessions[i].song)
    BY <1>1 DEF NotesInv, SessionReads
  <2>2. ASSUME NEW i \in DOMAIN items
        PROVE  LET item == items[i] IN
               /\ item.request # None => item.request = Terms(i, item.request.scope, item.request.key)
               /\ item.claim # None => item.claim = item.request
    <3>1. PICK item : item = items[i] /\ ItemReads(item)
      BY <1>1 DEF NotesInv
    <3>2. PICK terms : terms = item.request
      OBVIOUS
    <3>3. Terms(i, terms.scope, terms.key) = AskedOf(sessions[item.session], terms)
      BY <3>1 DEF Terms, AskedOf
    <3>4. /\ item.request # None => item.request = AskedOf(sessions[item.session], item.request)
          /\ item.claim # None => item.claim = item.request
      BY <3>1 DEF ItemReads
    <3> QED
      BY <3>1, <3>2, <3>3, <3>4
  <2> QED
    BY <2>1, <2>2 DEF SessionsReadable
<1>4. SuggestionsReadable
  <2>1. \A d \in DOMAIN deferrals : DeferralReads(deferrals[d])
    BY <1>1 DEF SuggestionsInv
  <2> QED
    BY <1>1, <2>1 DEF SuggestionsReadable, OpinionsReadable, SuggestionsInv, DeferralReads
<1>5. LearningReadable
  <2>1. \A e \in DOMAIN episodes :
          /\ episodes[e].session \in DOMAIN sessions
          /\ episodes[e].decidedOn # None => episodes[e].decidedOn \in DOMAIN episodes[e].observed
    BY <1>1 DEF LearningInv, EpisodeReads
  <2>2. \A k \in Skill : \A i \in DOMAIN skills[k] : Assessable(skills[k][i])
    BY <1>1 DEF LearningInv, AssessmentReads
  <2> QED
    BY <2>1, <2>2 DEF LearningReadable, IsDecided
<1>6. \A k \in Skill : \A i \in DOMAIN skills[k] : skills[k][i].level \in Level
  BY <1>1 DEF LearningInv, AssessmentReads
<1>7. FrictionReadable
  BY <1>1 DEF LearningInv, FrictionReadable
<1> QED
  BY <1>2, <1>3, <1>4, <1>5, <1>6, <1>7

LEMMA AllRead == StoresInv => HistoryReadable
<1> SUFFICES ASSUME StoresInv PROVE HistoryReadable
  OBVIOUS
<1>1. ImportsReadable /\ CatalogReadable
  BY DEF StoresInv, ImportsInv, CatalogInv
<1> QED
  BY <1>1, LineageReads, PeopleRead, HandoffsRead, CreditsRead, SessionsRead DEF HistoryReadable, TypeOK

LEMMA AllTold == StoresInv /\ TalesInv => ChronologyTells
<1> SUFFICES ASSUME StoresInv, TalesInv PROVE ChronologyTells
  OBVIOUS
<1> USE ToldIs
<1>0. IsTable(packages) /\ IsTable(events)
  BY DEF StoresInv, TablesInv, LinesInv
<1>1. /\ Told("PERSON_CREATED") = Cardinality(people)
      /\ Told("EXTERNAL_IDENTITY_RECORDED") = Cardinality(accounts)
      /\ Told("FOLLOWUP_CREATED") = Len(followups)
  BY DEF TalesInv, PeopleTold
<1>2. \A st \in {"RESOLVED", "CANCELED"} : Told(FollowupTold[st]) = InState(followups, st)
  BY DEF TalesInv, PeopleTold, FollowupTold
<1>3. \A st \in {"LINKED", "SPLIT", "REJECTED"} :
        Told(ReviewTold[st])
          = Cardinality({r \in DOMAIN reviews : \E i \in DOMAIN reviews[r].states : reviews[r].states[i] = st})
  <2>1. \A st : Through(reviews, st) = {r \in DOMAIN reviews : \E i \in DOMAIN reviews[r].states : reviews[r].states[i] = st}
    BY DEF Through, Went
  <2>2. \A st \in {"LINKED", "SPLIT", "REJECTED"} : Told(ReviewTold[st]) = Cardinality(Through(reviews, st))
    BY DEF TalesInv, PeopleTold, ReviewTold
  <2> QED
    BY <2>1, <2>2
<1>4. Told("COLLAB_HANDOFF_PREPARED") - Told("COLLAB_HANDOFF_REVOKED") = InState(packages, "PREPARED")
  <2>1. Tally(events, "COLLAB_HANDOFF_REVOKED") \in Nat /\ InState(packages, "PREPARED") \in Nat
    BY <1>0, TallyAppended, InStateAppended
  <2> QED
    BY <2>1 DEF TalesInv, CollaborationTold
<1>5. \A st \in {"ADDRESSED", "DISMISSED"} : Told(FeedbackTold[st]) = InState(feedback, st)
  BY DEF TalesInv, CollaborationTold, FeedbackTold
<1>6. Told("PROFESSIONAL_HANDOFF_ACCEPTED") = Cardinality({h \in DOMAIN handoffs : handoffs[h].receipt})
  <2>1. \A h \in DOMAIN handoffs : handoffs[h].receipt \in BOOLEAN
    BY DEF StoresInv, ProfessionalInv, HandoffPackage
  <2>2. Receipts(handoffs) = {h \in DOMAIN handoffs : handoffs[h].receipt}
    BY <2>1 DEF Receipts
  <2> QED
    BY <2>2 DEF TalesInv, ProfessionalTold
<1>7. \A st \in {"RETURNED", "STALE"} : Told(StateTold[st]) = InState(handoffs, st)
  BY DEF TalesInv, ProfessionalTold, StateTold
<1>8. /\ Told("COMPOSITION_SPLIT_DRAFT_CREATED") = Len(sheets)
      /\ Told("COMPOSITION_SPLIT_VOIDED") = InState(sheets, "VOIDED")
      /\ Told("EVIDENCE_CLAIM_RECORDED") = Len(claims) + Told("SESSION_ITEM_PROMOTED")
  BY DEF TalesInv, CreditsTold, ClaimsTold
<1>9. /\ Told("SESSION_ITEM_PROMOTED") = Cardinality({i \in DOMAIN items : items[i].claim # None})
      /\ Told("PROVENANCE_RECORDED") = Len(derivations)
  BY DEF TalesInv, NotesTold, Promoted
<1>10. \A st \in OpenStatus \cup Terminal :
         Told(StatusTold[st]) =
           Cardinality(UNION {{o} \X {i \in DOMAIN obligations[o].life : obligations[o].life[i].status = st}
                                : o \in DOMAIN obligations})
  BY DEF TalesInv, ObligationsTold, Statuses, Lived
<1>11. /\ Told("SUGGESTION_DEFERRED") = Len(deferrals)
       /\ Told("SUGGESTION_FEEDBACK_RECORDED") = Len(opinions)
  BY DEF TalesInv, SuggestionsTold
<1>12. /\ Told("LEARNING_EPISODE_STARTED") = Len(episodes)
       /\ Told("LEARNING_DECISION_RECORDED") = Cardinality({e \in DOMAIN episodes : IsDecided(e)})
       /\ Told("FRICTION_OBSERVED") = Len(frictions) /\ Told("CAREER_STATE_RECORDED") = Len(seasons)
       /\ Told("SKILL_ASSESSED") = Cardinality(UNION {{k} \X DOMAIN skills[k] : k \in Skill})
  BY DEF TalesInv, LearningTold, CareerTold, DecidedRows, IsDecided, Assessed
<1> QED
  BY <1>1, <1>2, <1>3, <1>4, <1>5, <1>6, <1>7, <1>8, <1>9, <1>10, <1>11, <1>12 DEF ChronologyTells

(* A profile that was written by any of its memories opens again: every store finds     *)
(* what its rows name in the others, in a state its own rules let it reach, and the     *)
(* chronology the triggers wrote counts exactly what there is (memory.py with the       *)
(* _validate_existing of each store).                                                   *)
THEOREM MemoriesReopen == Spec => []ReopensAsLeft
<1>1. Init => StoresInv /\ TalesInv
  BY StoresStart
<1>2. StoresInv /\ TalesInv /\ [Next]_vars => (StoresInv /\ TalesInv)'
  BY StoresStay
<1>3. StoresInv /\ TalesInv => ReopensAsLeft
  BY AllRead, AllTold DEF ReopensAsLeft
<1> QED
  BY <1>1, <1>2, <1>3, PTL DEF Spec

-----------------------------------------------------------------------------
(* A view that was handed out                                                *)

\* What a list of a packet says, whatever the order.
Texts(list) == {x[2] : x \in list}

(* What a view says follows from the memory its digest names: the contradictions from   *)
(* the facts, and of the experiments that were decided none is shown while one is left  *)
(* out that was not.                                                          *)
ViewInv ==
  view # None =>
    /\ view.contradictions = Disputed(view.digest[3]["DURABLE_FACTS"])
    /\ "LEARNING" \in view.sections =>
         /\ view.context["LEARNING"] \subseteq Texts(view.digest[2]["LEARNING"])
         /\ \A x \in Texts(view.digest[2]["LEARNING"]) \ view.context["LEARNING"] :
              x[3] \/ \A y \in view.context["LEARNING"] : ~y[3]

\* The experiments listed for a Song, and what is said of them.
LEMMA ExperimentsListed ==
  ASSUME NEW s
  PROVE  /\ Items("LEARNING", s) = {e \in DOMAIN episodes : SongOfEpisode(e) = s}
         /\ \A e : Content("LEARNING", e, s) = <<e, episodes[e].observed, IsDecided(e)>>
         /\ \A e, f : Ahead("LEARNING", e, f, s) = (IF IsDecided(e) = IsDecided(f) THEN e > f ELSE IsDecided(f))
BY DEF Items, Content, Ahead

\* The list of them in a packet says just that.
LEMMA ExperimentsTold ==
  ASSUME NEW s, NEW sections, "LEARNING" \in sections
  PROVE  Texts(Packet(s, sections)["LEARNING"]) = {Content("LEARNING", i, s) : i \in Items("LEARNING", s)}
<1> DEFINE list == Packet(s, sections)["LEARNING"]
           rows == Items("LEARNING", s)
<1>1. list = {<<Place("LEARNING", i, s), Content("LEARNING", i, s)>> : i \in rows}
  BY DEF Packet
<1>2. ASSUME NEW i \in rows PROVE Content("LEARNING", i, s) \in Texts(list)
  <2> HIDE DEF list, rows
  <2>1. <<Place("LEARNING", i, s), Content("LEARNING", i, s)>> \in list
    BY <1>1
  <2> QED
    BY <2>1 DEF Texts
<1>3. ASSUME NEW z \in Texts(list) PROVE \E i \in rows : z = Content("LEARNING", i, s)
  <2> HIDE DEF list, rows
  <2>1. PICK x \in list : z = x[2]
    BY DEF Texts
  <2>2. PICK i \in rows : x = <<Place("LEARNING", i, s), Content("LEARNING", i, s)>>
    BY <1>1
  <2> QED
    BY <2>1, <2>2
<1> HIDE DEF list, rows
<1>4. Texts(list) = {Content("LEARNING", i, s) : i \in rows}
  BY <1>2, <1>3
<1> QED
  BY <1>4 DEF list, rows

\* Whatever is ahead of an experiment that is not decided is ahead of every decided one.
LEMMA UndecidedFirst ==
  ASSUME IsTable(episodes), NEW s, NEW e \in Items("LEARNING", s), NEW f \in BoundedItems("LEARNING", s),
         ~IsDecided(e), IsDecided(f)
  PROVE  e \in BoundedItems("LEARNING", s)
<1> DEFINE Leading(i) == {j \in Items("LEARNING", s) : j # i /\ Ahead("LEARNING", j, i, s)}
<1>1. Limit \in Nat
  BY LimitAssumption
<1>2. f \in Items("LEARNING", s) /\ Cardinality(Leading(f)) < Limit
  BY DEF BoundedItems
<1>3. Items("LEARNING", s) \in SUBSET DOMAIN episodes
  BY ExperimentsListed
<1>4. \A i : IsFiniteSet(Leading(i)) /\ Cardinality(Leading(i)) \in Nat
  BY <1>3, SomeRows
<1>5. Leading(e) \subseteq Leading(f)
  BY <1>2, ExperimentsListed
<1>6. Cardinality(Leading(e)) <= Cardinality(Leading(f))
  BY <1>4, <1>5, FS_Subset
<1>7. Cardinality(Leading(e)) < Limit
  BY <1>1, <1>2, <1>4, <1>6
<1> QED
  BY <1>7 DEF BoundedItems

LEMMA ViewHandedOut ==
  ASSUME IsTable(episodes), NEW s, NEW sections, ProjectionForSong(s, sections)
  PROVE  ViewInv'
<1>1. /\ view'.sections = sections
      /\ view'.digest = <<songs[s], Packet(s, sections), Packet(s, Facts)>>
      /\ view'.contradictions = Contradictions(s, sections)
      /\ view'.context = [section \in sections |->
                            {Content(section, i, s) : i \in BoundedItems(section, s)}]
  BY DEF ProjectionForSong, SourceDigest
<1>2. view'.contradictions = Disputed(view'.digest[3]["DURABLE_FACTS"])
  BY <1>1 DEF Contradictions, Packet, Facts
<1>3. ASSUME "LEARNING" \in sections
      PROVE  /\ view'.context["LEARNING"] \subseteq Texts(view'.digest[2]["LEARNING"])
             /\ \A x \in Texts(view'.digest[2]["LEARNING"]) \ view'.context["LEARNING"] :
                  x[3] \/ \A y \in view'.context["LEARNING"] : ~y[3]
  <2>1. view'.context["LEARNING"] = {Content("LEARNING", i, s) : i \in BoundedItems("LEARNING", s)}
    BY <1>1, <1>3
  <2>2. view'.digest[2]["LEARNING"] = Packet(s, sections)["LEARNING"]
    BY <1>1
  <2>3. Texts(view'.digest[2]["LEARNING"]) = {Content("LEARNING", i, s) : i \in Items("LEARNING", s)}
    BY <1>3, <2>2, ExperimentsTold
  <2>4. BoundedItems("LEARNING", s) \subseteq Items("LEARNING", s)
    BY DEF BoundedItems
  <2>5. ASSUME NEW e \in Items("LEARNING", s), Content("LEARNING", e, s) \notin view'.context["LEARNING"],
               NEW f \in BoundedItems("LEARNING", s), IsDecided(f)
        PROVE  IsDecided(e)
    BY <2>1, <2>5, UndecidedFirst
  <2> QED
    BY <2>1, <2>3, <2>4, <2>5, ExperimentsListed
<1> QED
  BY <1>1, <1>2, <1>3 DEF ViewInv

LEMMA ViewStays == TablesInv /\ ViewInv /\ [Next]_vars => ViewInv'
<1> SUFFICES ASSUME TablesInv, ViewInv, [Next]_vars PROVE ViewInv'
  OBVIOUS
<1>1. IsTable(episodes)
  BY DEF TablesInv
<1>2. CASE UNCHANGED view
  BY <1>2 DEF ViewInv
<1>3. RetentionStep \/ UNCHANGED view
  BY Framed DEF vars, allVars, context, retentionVars
<1>4. RetentionStep => UNCHANGED view \/ \E s, sections : ProjectionForSong(s, sections)
  BY DEF RetentionStep, ImportContext
<1> QED
  BY <1>1, <1>2, <1>3, <1>4, ViewHandedOut

\* What is held true of a Song, and what of it is disputed.
LEMMA FactsDisputed ==
  ASSUME NEW s
  PROVE  (Disputed(Packet(s, Facts)["DURABLE_FACTS"]) # {}) <=>
           \E c, d \in DurableFacts(s) :
             /\ claims[c].scope = claims[d].scope /\ claims[c].key = claims[d].key
             /\ claims[c].value # claims[d].value
<1> DEFINE fact(c) == [scope |-> claims[c].scope[1], key |-> claims[c].key,
                       value |-> claims[c].value, source |-> claims[c].source]
           list    == {<<Place("DURABLE_FACTS", c, s), fact(c)>> : c \in DurableFacts(s)}
           apart(c, d) == /\ claims[c].scope[1] = claims[d].scope[1] /\ claims[c].key = claims[d].key
                          /\ claims[c].value # claims[d].value
<1>1. Packet(s, Facts)["DURABLE_FACTS"] = list
  BY DEF Packet, Facts, Items, Content
<1>2. \A c : /\ fact(c).scope = claims[c].scope[1] /\ fact(c).key = claims[c].key
             /\ fact(c).value = claims[c].value
  OBVIOUS
<1>3. Disputed(list) # {} <=> \E g, h \in list : /\ g[2].scope = h[2].scope /\ g[2].key = h[2].key
                                                 /\ g[2].value # h[2].value
  BY DEF Disputed
<1>4. \A g : g \in list <=> \E c \in DurableFacts(s) : g = <<Place("DURABLE_FACTS", c, s), fact(c)>>
  OBVIOUS
<1>5. (\E g, h \in list : /\ g[2].scope = h[2].scope /\ g[2].key = h[2].key
                          /\ g[2].value # h[2].value)
        <=> \E c, d \in DurableFacts(s) : apart(c, d)
  <2> HIDE DEF list, fact
  <2>1. ASSUME NEW g \in list, NEW h \in list, g[2].scope = h[2].scope, g[2].key = h[2].key, g[2].value # h[2].value
        PROVE  \E c, d \in DurableFacts(s) : apart(c, d)
    <3>1. PICK c \in DurableFacts(s) : g = <<Place("DURABLE_FACTS", c, s), fact(c)>>
      BY <1>4
    <3>2. PICK d \in DurableFacts(s) : h = <<Place("DURABLE_FACTS", d, s), fact(d)>>
      BY <1>4
    <3> QED
      BY <1>2, <2>1, <3>1, <3>2
  <2>2. ASSUME NEW c \in DurableFacts(s), NEW d \in DurableFacts(s), apart(c, d)
        PROVE  \E g, h \in list : g[2].scope = h[2].scope /\ g[2].key = h[2].key /\ g[2].value # h[2].value
    <3> DEFINE g == <<Place("DURABLE_FACTS", c, s), fact(c)>>
               h == <<Place("DURABLE_FACTS", d, s), fact(d)>>
    <3>1. g \in list /\ h \in list
      BY <1>4
    <3>2. g[2].scope = h[2].scope /\ g[2].key = h[2].key /\ g[2].value # h[2].value
      BY <1>2, <2>2
    <3> QED
      BY <3>1, <3>2
  <2> QED
    BY <2>1, <2>2
<1>6. \A c, d \in DurableFacts(s) : claims[c].scope[1] = claims[d].scope[1] <=> claims[c].scope = claims[d].scope
  <2>1. \A x, y \in ScopesOf(s) : x[1] = y[1] => x = y
    BY DEF ScopesOf
  <2> QED
    BY <2>1 DEF DurableFacts
<1> QED
  BY <1>1, <1>3, <1>5, <1>6

LEMMA ViewsHold == ViewInv => CurrentViewsHold
<1> SUFFICES ASSUME ViewInv, view # None, view.digest = SourceDigest(view.song, view.sections)
             PROVE  /\ (view.contradictions # {}) =
                         \E c, d \in DurableFacts(view.song) :
                           /\ claims[c].scope = claims[d].scope /\ claims[c].key = claims[d].key
                           /\ claims[c].value # claims[d].value
                    /\ "LEARNING" \in view.sections =>
                         LET mine == {e \in DOMAIN episodes : SongOfEpisode(e) = view.song}
                             shown == {x[1] : x \in view.context["LEARNING"]} IN
                         \A e \in mine \ shown : IsDecided(e) \/ \A f \in shown : ~IsDecided(f)
  BY DEF CurrentViewsHold
<1>1. /\ view.digest[2] = Packet(view.song, view.sections)
      /\ view.digest[3] = Packet(view.song, Facts)
  BY DEF SourceDigest
<1>2. (view.contradictions # {}) <=>
         \E c, d \in DurableFacts(view.song) :
           /\ claims[c].scope = claims[d].scope /\ claims[c].key = claims[d].key
           /\ claims[c].value # claims[d].value
  <2>1. view.contradictions = Disputed(Packet(view.song, Facts)["DURABLE_FACTS"])
    BY <1>1 DEF ViewInv
  <2> QED
    BY <2>1, FactsDisputed
<1>3. ASSUME "LEARNING" \in view.sections,
             NEW e \in {i \in DOMAIN episodes : SongOfEpisode(i) = view.song},
             e \notin {x[1] : x \in view.context["LEARNING"]},
             NEW f \in {x[1] : x \in view.context["LEARNING"]}, ~IsDecided(e)
      PROVE  ~IsDecided(f)
  <2> DEFINE all == Texts(view.digest[2]["LEARNING"])
             text(i) == <<i, episodes[i].observed, IsDecided(i)>>
  <2>1. all = {Content("LEARNING", i, view.song) : i \in Items("LEARNING", view.song)}
    BY <1>1, <1>3, ExperimentsTold
  <2>2. all = {text(i) : i \in {j \in DOMAIN episodes : SongOfEpisode(j) = view.song}}
    <3> HIDE DEF all
    <3>1. \A i : Content("LEARNING", i, view.song) = text(i)
      BY ExperimentsListed
    <3>2. Items("LEARNING", view.song) = {j \in DOMAIN episodes : SongOfEpisode(j) = view.song}
      BY ExperimentsListed
    <3> HIDE DEF text
    <3> QED
      BY <2>1, <3>1, <3>2
  <2>3. /\ view.context["LEARNING"] \subseteq all
        /\ \A x \in all \ view.context["LEARNING"] : x[3] \/ \A y \in view.context["LEARNING"] : ~y[3]
    BY <1>3 DEF ViewInv
  <2>4. text(e) \in all /\ text(e) \notin view.context["LEARNING"]
    BY <1>3, <2>2
  <2>5. \A y \in view.context["LEARNING"] : ~y[3]
    BY <1>3, <2>3, <2>4
  <2>6. PICK y \in view.context["LEARNING"] : y[1] = f
    BY <1>3
  <2>7. PICK i \in DOMAIN episodes : y = text(i)
    BY <2>2, <2>3, <2>6
  <2> QED
    BY <2>5, <2>6, <2>7
<1> QED
  BY <1>2, <1>3

(* A view that still matches its memory tells the truth about it, whatever became of   *)
(* the memory meanwhile: its contradictions are those of the claims in force, also of    *)
(* the facts it was not asked for, and no undecided experiment gave way to a decided one  *)
(* (context_lifecycle.py, projection_for_song).                                        *)
THEOREM ViewsAreTrue == Spec => []CurrentViewsHold
<1>1. Init => TablesInv /\ SheetsInv /\ ViewInv
  BY TablesStart DEF Init, RetentionInit, ViewInv
<1>2. TablesInv /\ SheetsInv /\ ViewInv /\ [Next]_vars => (TablesInv /\ SheetsInv /\ ViewInv)'
  BY TablesStay, ViewStays
<1>3. ViewInv => CurrentViewsHold
  BY ViewsHold
<1> QED
  BY <1>1, <1>2, <1>3, PTL DEF Spec

=============================================================================
