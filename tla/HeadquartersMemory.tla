------------------------- MODULE HeadquartersMemory -------------------------
(***************************************************************************)
(* n0te2/memory.py and the memories a profile has beside it: stores that share *)
(* one connection, one lineage of Songs and Versions and one chronology.  A    *)
(* profile opens only if every store can read what it finds.                  *)
(***************************************************************************)
EXTENDS CollaborationHandoff, ProfessionalHandoffs, RightsEvidence, Obligations,
        CreativeSuggestions, SongTransactions, SongRetention, TemplateCatalog,
        CareerState, DirectFan

CONSTANTS
  Use,         \* the sets of memories an artist may be using
  Selections,  \* the sets of sections a view may be asked for
  Within(_,_)  \* the bounds of an instance, over the memories in use and Rows

VARIABLES uses  \* the memories in use

base    == <<lineageVars, peopleVars, claims>>
collabs == handoffVars
rights  == <<creditVars, requested>>
making  == <<sessionVars, suggestionVars, transactionVars, learningVars>>
context == <<frictionVars, retentionVars, catalogVars, careerVars, plans>>
allVars == <<base, collabs, handoffs, rights, obligations, making, context>>
vars    == <<uses, allVars>>

\* The key of the claims an obligation is founded on.
TermsKey == <<"terms">>

Lines(types) == Cardinality({i \in DOMAIN events : events[i].type \in types})

\* How much there is in each of the stores, and how often what is kept moved.
Rows ==
  [songs |-> Cardinality(Known), versions |-> Len(versions), assets |-> Len(assets),
   people |-> Cardinality(people), followups |-> Len(followups), reviews |-> Len(reviews),
   accounts |-> Cardinality(accounts), claims |-> Len(claims), packages |-> Len(packages),
   feedback |-> Len(feedback), handoffs |-> Len(handoffs), credits |-> Len(credits),
   sheets |-> Len(sheets), forms |-> Cardinality(offered) + Cardinality(requested),
   obligations |-> Len(obligations), events |-> Len(events),
   moves |-> Lines({"CURRENT_VERSION_CHANGED", "VERSION_APPROVED"}),
   statuses |-> Cardinality(UNION {{o} \X DOMAIN obligations[o].life : o \in DOMAIN obligations}),
   sessions |-> Len(sessions), items |-> Len(items), derivations |-> Len(derivations), deferrals |-> Len(deferrals), opinions |-> Len(opinions),
   prompts |-> IF prompt = None THEN 0 ELSE 1,
   operations |-> Cardinality(Claimed), runs |-> Len(runs), bindings |-> Cardinality(bindings),
   episodes |-> Len(episodes), bound |-> Cardinality(bound),
   assessments |-> Cardinality(UNION {{k} \X DOMAIN skills[k] : k \in Skill}),
   frictions |-> Len(frictions), captures |-> Cardinality(captures), imports |-> Len(imports),
   views |-> IF view = None THEN 0 ELSE 1, templates |-> Len(templates), choices |-> Len(selections),
   starts |-> Cardinality(starts), seasons |-> Len(seasons), reviewed |-> Cardinality(reviewed),
   plans |-> Cardinality(plans),
   saves |-> Cardinality(UNION {{k} \X (1..sheets[k].saved) : k \in DOMAIN sheets})]

-----------------------------------------------------------------------------

LineageStep ==
  /\ \/ \E s \in Song : CreateSong(s) \/ SelectSong(s)
     \/ \E s \in Song, d \in Digest : AttachAsset(s, d)
     \/ \E s \in Song, attached \in {{}, DOMAIN assets}, becomesCurrent \in BOOLEAN :
          CreateVersion(s, None, attached, becomesCurrent)
     \/ \E s \in Song, v \in DOMAIN versions : SetCurrentVersion(s, v) \/ ApproveVersion(s, v)
  /\ UNCHANGED <<peopleVars, claims, collabs, handoffs, rights, obligations, making, context>>

PeopleStep ==
  /\ \/ \E p \in Person : CreatePerson(p)
     \/ \E p \in Person, s \in Song \cup {None} : CreateFollowup(p, s)
     \/ \E i \in DOMAIN followups, state \in {"RESOLVED", "CANCELED"} : CloseFollowup(i, state)
     \/ \E x \in Account : RecordAccount(x)
     \/ \E x \in Account, p \in Person : ProposeLink(x, p)
     \/ \E r \in DOMAIN reviews, state \in {"LINKED", "REJECTED", "SPLIT"} : Decide(r, state)
  /\ UNCHANGED <<claims, collabs, handoffs, rights, obligations, making, context>>

ClaimStep ==
  /\ \E scope \in Scopes, source \in {"USER_DECLARED", "OBSERVED"}, ref \in BOOLEAN :
       \E replaces \in SUBSET ActiveClaims(scope, TermsKey) :
         RecordClaim(scope, TermsKey, source, ref, None, replaces)
  /\ UNCHANGED <<collabs, handoffs, rights, obligations, making, context>>

CollaborationStep ==
  /\ \/ \E v \in DOMAIN versions, p \in Person : PreparePackage(v, p)
     \/ \E k \in DOMAIN packages : RevokePackage(k) \/ RecordFeedback(k)
     \/ \E f \in DOMAIN feedback, v \in DOMAIN versions : AddressFeedback(f, v)
     \/ \E f \in DOMAIN feedback : DismissFeedback(f)
  /\ UNCHANGED <<peopleVars, claims, handoffs, rights, obligations, making, context>>

ProfessionalStep ==
  /\ \/ \E policy \in Policy, v \in DOMAIN versions, complete \in BOOLEAN,
           prior \in DOMAIN handoffs \cup {None} : Submit(policy, v, complete, prior)
     \/ \E h \in DOMAIN handoffs : Accept(h) \/ ReturnSubmission(h) \/ VerifyFreshness(h)
  /\ UNCHANGED <<peopleVars, claims, collabs, rights, obligations, making, context>>

\* The shares a form that saves a draft carries, or the status of a confirmation.
TypedIn(f) == IF f.kind = "SAVE" THEN [Person -> {0} \cup Share] \X {None} ELSE {None} \X Status

CreditsStep ==
  /\ \/ \E s \in Song, p \in Person : RecordCredit(s, p) /\ UNCHANGED <<recordVars, peopleVars, offered>>
     \/ \E k \in DOMAIN sheets : VoidSplit(k) /\ UNCHANGED <<recordVars, peopleVars, offered>>
     \/ active # None /\ \E f \in CreditsPage(active) : Offer(f)
     \/ \E f \in offered : \E typed \in TypedIn(f) : Send(f, typed[1], typed[2])
  /\ UNCHANGED <<claims, requested, collabs, handoffs, obligations, making, context>>

RightsStep ==
  /\ \/ \E t \in Targets, stage \in Recordable :
          \/ AskForReference(t, stage)
          \/ \E assertion \in Assertion : Observe(t, stage, assertion)
     \/ \E f \in requested, assertion \in Assertion : SendReference(f, assertion)
     \/ \E t \in Targets, assertion \in Assertion : Receive(t, assertion)
  /\ UNCHANGED <<collabs, handoffs, obligations, making, context>>

ObligationStep ==
  /\ \/ \E p \in Person, s \in Song \cup {None}, followup \in DOMAIN followups \cup {None},
           awaits \in BOOLEAN, c \in DOMAIN claims :
          CreateObligation(p, s, followup, None, awaits, c)
     \/ \E o \in DOMAIN obligations, c \in DOMAIN claims :
          \/ RecordTrigger(o, c)
          \/ \E status \in OpenStatus \cup Terminal : Transition(o, status, c)
  /\ UNCHANGED <<collabs, handoffs, rights, making, context>>

SessionStep ==
  /\ \/ \E s \in Song : StartSession(s, None)
     \/ \E i \in DOMAIN sessions : CloseSession(i)
  /\ UNCHANGED <<peopleVars, claims, collabs, handoffs, rights, obligations,
                 suggestionVars, transactionVars, learningVars, context>>

\* What is noted in a session and promoted, in one transaction or in two, and what a
\* Version or an asset is said to be made from.
NoteStep ==
  /\ \/ \E i \in DOMAIN sessions, kind \in Kind, written \in BOOLEAN : AppendScratch(i, kind, written)
     \/ \E i \in DOMAIN items, scope \in {"SONG", "VERSION"} :
          \/ PromoteDecision(i, scope)
          \/ \E key \in Key : RequestPromotion(i, scope, key) \/ RecordPromotion(i, scope, key)
     \/ \E output \in Object, input \in Object \cup {External} :
          RecordDerivation(output, input) /\ UNCHANGED sessionVars
  /\ UNCHANGED <<peopleVars, claims, collabs, handoffs, rights, obligations,
                 suggestionVars, transactionVars, learningVars, context>>

SuggestionStep ==
  /\ \/ \E key \in Idea : Suggest(key) \/ \E scope \in Scope : PutOff(key, scope)
     \/ ForgetPrompt
     \/ \E scope \in Scope : NotNow(scope)
     \/ \E direction \in {"MORE", "LESS"} : RecordOpinion(direction)
  /\ UNCHANGED <<peopleVars, claims, collabs, handoffs, rights, obligations,
                 transactionVars, learningVars, context>>

TransactionStep ==
  /\ \/ \E o \in Operation, s \in Song, target \in {None} \cup DOMAIN versions : ClaimOperation(o, s, target)
     \/ \E o \in Operation : Bind(o) \/ \E outcome \in OperationEnd : EndOperation(o, outcome)
     \/ \E b \in bindings, outcome \in Outcome : RunBound(b, outcome)
  /\ UNCHANGED <<peopleVars, claims, collabs, handoffs, rights, obligations,
                 sessionVars, suggestionVars, learningVars, context>>

\* A level of each kind: unknown, learned, and used in real work.
Levels == {"UNKNOWN", "INTRODUCED", "APPLIED"}

\* What others than the artist see in the work of a session.
Seen(level, i, c) == Assessment(level, "OBSERVED", i, {c})

LearningStep ==
  /\ \/ /\ \/ \E i \in DOMAIN sessions : CreateEpisode(i)
           \/ \E e \in DOMAIN episodes :
                AppendConsequence(e, "OBSERVED") \/ AppendObservation(e) \/ DecideEpisode(e)
           \/ \E k \in Skill, level \in Levels : Declare(k, level)
           \/ \E k \in Skill, level \in Levels, i \in DOMAIN sessions, c \in DOMAIN claims :
                Assess(k, Seen(level, i, c))
        /\ UNCHANGED bound
     \/ \E b \in Bindings : ShowLearning(b)
     \/ \E b \in bound, level \in Levels : SendLearning(b, level)
  /\ UNCHANGED <<peopleVars, claims, collabs, handoffs, rights, obligations,
                 suggestionVars, transactionVars, context>>

\* Things that may be held true, and the values they may be said to have.
FactKey  == <<"fact">>
FactValue == {1, 2}

FactStep ==
  /\ \E scope \in Scopes, source \in {"USER_DECLARED", "OBSERVED"}, value \in FactValue :
       \E replaces \in {{}, ActiveClaims(scope, FactKey)} :
         RecordClaim(scope, FactKey, source, TRUE, value, replaces)
  /\ UNCHANGED <<collabs, handoffs, rights, obligations, making, context>>

FrictionStep ==
  /\ \/ \E e \in DOMAIN episodes, key \in Friction : RecordFriction(e, key, "OBSERVED") /\ UNCHANGED captures
     \/ \E e \in DOMAIN episodes : ShowFriction(e)
     \/ \E b \in captures, key \in Friction : SendFriction(b, key)
  /\ UNCHANGED <<recordVars, peopleVars, claims, collabs, handoffs, rights, obligations, making,
                 retentionVars, catalogVars, careerVars, plans>>

RetentionStep ==
  /\ \/ \E scope \in ImportScopes : ImportContext(scope)
     \/ \E s \in Known, sections \in Selections : ProjectionForSong(s, sections)
  /\ UNCHANGED <<base, collabs, handoffs, rights, obligations, making,
                 frictionVars, catalogVars, careerVars, plans>>

TemplateStep ==
  /\ \/ \E id \in DOMAIN templates, meaning \in Meaning : SaveTemplate(id, meaning) /\ UNCHANGED starts
     \/ active # None /\ \E f \in TemplateCatalogCard(active) : ShowTemplates(f)
     \/ \E f \in starts, meaning \in Meaning : SendTemplate(f, meaning)
  /\ UNCHANGED <<base, collabs, handoffs, rights, obligations, making,
                 frictionVars, retentionVars, careerVars, plans>>

CareerStep ==
  /\ \/ \E state \in Season, expected \in {CurrentState} :
          RecordState(state, expected) /\ UNCHANGED reviewed
     \/ ShowCareerState
     \/ \E shown \in reviewed, state \in Season : SendCareerState(shown, state)
  /\ UNCHANGED <<recordVars, peopleVars, claims, collabs, handoffs, rights, obligations, making,
                 frictionVars, retentionVars, catalogVars, plans>>

FanStep ==
  /\ \/ \E p \in people, channel \in Channel :
          /\ \/ RecordStage(p, "OBSERVED") \/ RecordContactPoint(p, channel, "USER_DECLARED")
             \/ \E status \in {"OPTED_IN", "OPTED_OUT"} : RecordConsent(p, channel, status, "USER_DECLARED")
             \/ \E status \in {"OPTED_IN", "OPTED_OUT"},
                   replaces \in {{c} : c \in FanClaims("consent", p)} :
                  ProviderRecords("consent", p, [channel |-> channel, status |-> status], replaces)
             \/ \E s \in Known, purpose \in Purpose : RecordContactIntent(p, s, channel, purpose)
          /\ UNCHANGED plans
     \/ \E f \in AudiencePage : ShowAudience(f)
     \/ \E f \in plans : SendPlan(f)
  /\ UNCHANGED <<collabs, handoffs, rights, obligations, making,
                 frictionVars, retentionVars, catalogVars, careerVars>>

ReferenceStep ==
  /\ \E s \in Known, version \in {None} \cup DOMAIN versions :
       \/ \E source \in {"USER_DECLARED", "OBSERVED"}, ref \in BOOLEAN : CreateReference(s, version, source, ref)
       \/ \E key \in {claims[c].key : c \in {x \in DOMAIN claims : IsReferenceKey(claims[x].key)}} :
            \/ ReviseReference(s, key, version, "USER_DECLARED", FALSE)
            \/ \E kind \in {"note", "decision"} : Judge(s, key, kind)
            \/ \E replaces \in {{}, ActiveClaims(OfSong(s), key)} :
                 ReferenceObserved(s, key, version, replaces)
  /\ UNCHANGED <<collabs, handoffs, rights, obligations, making, context>>

Init ==
  /\ uses \in Use
  /\ FrictionInit /\ RetentionInit /\ CatalogInit /\ CareerInit /\ FanInit
  /\ SessionsInit /\ SuggestionsInit /\ TransactionsInit /\ LearningInit
  /\ LineageInit /\ PeopleInit /\ ClaimsInit /\ HandoffInit /\ ProfessionalInit
  /\ CreditsInit /\ RightsInit /\ ObligationsInit

Next ==
  /\ \/ "lineage" \in uses /\ LineageStep
     \/ "people" \in uses /\ PeopleStep
     \/ "claims" \in uses /\ ClaimStep
     \/ "collaboration" \in uses /\ CollaborationStep
     \/ "handoffs" \in uses /\ ProfessionalStep
     \/ "credits" \in uses /\ CreditsStep
     \/ "rights" \in uses /\ RightsStep
     \/ "obligations" \in uses /\ ObligationStep
     \/ "sessions" \in uses /\ SessionStep
     \/ "notes" \in uses /\ NoteStep
     \/ "suggestions" \in uses /\ SuggestionStep
     \/ "transactions" \in uses /\ TransactionStep
     \/ "learning" \in uses /\ LearningStep
     \/ "facts" \in uses /\ FactStep
     \/ "friction" \in uses /\ FrictionStep
     \/ "views" \in uses /\ RetentionStep
     \/ "templates" \in uses /\ TemplateStep
     \/ "career" \in uses /\ CareerStep
     \/ "fans" \in uses /\ FanStep
     \/ "references" \in uses /\ ReferenceStep
  /\ \E rows \in {Rows'} : Within(uses, rows)
  /\ UNCHANGED uses

Spec == Init /\ [][Next]_vars

-----------------------------------------------------------------------------

TypeOK ==
  /\ LineageTypeOK /\ SessionsTypeOK /\ PeopleTypeOK /\ CreditsTypeOK
  /\ HandoffTypeOK /\ ProfessionalTypeOK
  /\ \A k \in Skill : \A i \in DOMAIN skills[k] : skills[k][i].level \in Level

(* A profile that was written can be opened again: every store reads back what   *)
(* it and the others wrote (the _validate_existing of each).                   *)
HistoryReadable ==
  /\ TypeOK /\ LineageReadable /\ ActivityReadable /\ DecisionsReadable /\ ProvenanceReadable
  /\ PeopleReadable /\ ClaimsReadable /\ HandoffReadable
  /\ ProfessionalReadable /\ CreditsReadable /\ RightsReadable /\ ObligationsReadable
  /\ SessionsReadable /\ SuggestionsReadable /\ LearningReadable
  /\ FrictionReadable /\ ImportsReadable /\ CatalogReadable

Told(type)        == Lines({type})
InState(rows, st) == Cardinality({i \in DOMAIN rows : rows[i].state = st})

(* The chronology, which triggers write, tells each row and each decision about it *)
(* once: the state of every store can be counted in it.                        *)
ChronologyTells ==
  /\ Told("PERSON_CREATED") = Cardinality(people)
  /\ Told("EXTERNAL_IDENTITY_RECORDED") = Cardinality(accounts)
  /\ Told("FOLLOWUP_CREATED") = Len(followups)
  /\ \A st \in {"RESOLVED", "CANCELED"} : Told(FollowupTold[st]) = InState(followups, st)
  /\ \A st \in {"LINKED", "SPLIT", "REJECTED"} :
       Told(ReviewTold[st])
         = Cardinality({r \in DOMAIN reviews : \E i \in DOMAIN reviews[r].states : reviews[r].states[i] = st})
  /\ Told("COLLAB_HANDOFF_PREPARED") - Told("COLLAB_HANDOFF_REVOKED") = InState(packages, "PREPARED")
  /\ \A st \in {"ADDRESSED", "DISMISSED"} : Told(FeedbackTold[st]) = InState(feedback, st)
  /\ Told("PROFESSIONAL_HANDOFF_ACCEPTED") = Cardinality({h \in DOMAIN handoffs : handoffs[h].receipt})
  /\ \A st \in {"RETURNED", "STALE"} : Told(StateTold[st]) = InState(handoffs, st)
  /\ Told("COMPOSITION_SPLIT_DRAFT_CREATED") = Len(sheets)
  /\ Told("COMPOSITION_SPLIT_VOIDED") = InState(sheets, "VOIDED")
  /\ Told("EVIDENCE_CLAIM_RECORDED") = Len(claims) + Told("SESSION_ITEM_PROMOTED")
  /\ Told("SESSION_ITEM_PROMOTED") = Cardinality({i \in DOMAIN items : items[i].claim # None})
  /\ Told("PROVENANCE_RECORDED") = Len(derivations)
  /\ \A st \in OpenStatus \cup Terminal :
       Told(StatusTold[st]) =
         Cardinality(UNION {{o} \X {i \in DOMAIN obligations[o].life : obligations[o].life[i].status = st}
                              : o \in DOMAIN obligations})

  /\ Told("SUGGESTION_DEFERRED") = Len(deferrals)
  /\ Told("SUGGESTION_FEEDBACK_RECORDED") = Len(opinions)
  /\ Told("LEARNING_EPISODE_STARTED") = Len(episodes)
  /\ Told("LEARNING_DECISION_RECORDED") = Cardinality({e \in DOMAIN episodes : IsDecided(e)})
  /\ Told("FRICTION_OBSERVED") = Len(frictions) /\ Told("CAREER_STATE_RECORDED") = Len(seasons)
  /\ Told("SKILL_ASSESSED") = Cardinality(UNION {{k} \X DOMAIN skills[k] : k \in Skill})

(* What is read when the profile is opened again is accepted, and its chronology    *)
(* agrees with it.                                                             *)
ReopensAsLeft == HistoryReadable /\ ChronologyTells

(* A transaction was only ever run on the Song and the current Version it was bound  *)
(* to, as the chronology tells them, and never again after the journal ended its     *)
(* operation, by an earlier run or without one.                                 *)
RunsAsBound == \A r \in DOMAIN runs : RanAsBound(r)

(* What is decided stays: a closed follow-up, a decided review, a package taken    *)
(* back, feedback that was answered, a handoff that was returned or is stale, the  *)
(* shares of a sheet that was submitted, an obligation that is closed.           *)
DecidedStays ==
  [][/\ \A i \in DOMAIN followups : followups[i].state # "OPEN" => followups'[i] = followups[i]
     /\ \A r \in DOMAIN reviews : ~IsActive(r) => reviews'[r] = reviews[r]
     /\ \A k \in DOMAIN packages : packages[k].state = "REVOKED" => packages'[k] = packages[k]
     /\ \A f \in DOMAIN feedback : feedback[f].state # "OPEN" => feedback'[f] = feedback[f]
     /\ \A h \in DOMAIN handoffs : Closed(h) => handoffs'[h] = handoffs[h]
     /\ \A k \in DOMAIN sheets :
          /\ sheets[k].state # "DRAFT" => sheets'[k].shares = sheets[k].shares
          /\ sheets[k].state = "VOIDED" => sheets'[k] = sheets[k]
     /\ \A o \in DOMAIN obligations : IsTerminal(o) => obligations'[o] = obligations[o]
     /\ \A e \in DOMAIN episodes : IsDecided(e) => episodes'[e] = episodes[e]]_allVars

(* A form changes only what it showed: a draft is saved or submitted with the shares  *)
(* that were shown, the participants are recorded as saying something of them, a    *)
(* decision is made on the observations of an experiment that were shown, a         *)
(* correction and a season replace what was shown, a start is chosen for the Song    *)
(* whose page it was on and an intent rests on the consent that was shown.         *)
ActedOnAsShown ==
  [][/\ \A f \in offered : f \notin offered' /\ f.sheet # 0 =>
          LET now == sheets[f.sheet] IN
          sheets'[f.sheet] # now =>
            /\ f.kind \in {"SAVE", "SUBMIT", "VOID"} => f.seen.shares = now.shares
            /\ f.kind \in {"CONFIRM", "VOID"} => f.seen.said = now.said
     /\ \A b \in bound : b \notin bound' =>
          /\ b.kind = "decide" /\ episodes'[b.on] # episodes[b.on] => b.seen = episodes[b.on].observed
          /\ b.kind = "correct" /\ skills'[b.on] # skills[b.on] => b.seen = Latest(b.on)
     /\ \A shown \in reviewed : shown \notin reviewed' /\ seasons' # seasons => shown = Len(seasons)
     /\ \A f \in starts : f \notin starts' /\ f.kind = "select" /\ selections' # selections =>
          f.song = active /\ CurrentSelection(f.song)' = f.template
     /\ \A b \in captures : b \notin captures' /\ frictions' # frictions => b.song = active
     /\ \A f \in plans : f \notin plans' /\ claims' # claims =>
          claims'[Len(claims')].value = f.intent /\ OptedIn(f.person, f.intent.channel)]_allVars

(* What the artist enters about a credit or a split never takes its chain of         *)
(* evidence further, whatever was observed or received before.                   *)
DeclaringNeverAdvances ==
  [][(Len(claims') > Len(claims) /\ claims'[Len(claims')].source = "USER_DECLARED") =>
       \A t \in Targets : Reach(t)' <= Reach(t)]_allVars

(* What an artist means to tell somebody is offered for review only while nothing     *)
(* newer is known of how they can be reached or whether they agreed: saying yes again  *)
(* after a no does not bring an old intent back.  It stops being readable only when    *)
(* the very consent it was formed on was superseded.                             *)
NothingNewerIsKnown ==
  \A p \in people : \A c \in FanClaims("intent", p) :
    LET intent == claims[c].value IN
    IF Parses(c)
      THEN AssessIntent(c) = "REVIEWABLE" =>
             \A d \in (c + 1)..Len(claims) :
               IsFanClaim(d, "consent", p) \/ IsFanClaim(d, "contact", p)
                 => claims[d].value.channel # intent.channel
      ELSE intent.consent \in Superseded

(* A note or a decision about a reference names the one revision that was in force   *)
(* when it was made, whatever was recorded of the reference since, and it is read     *)
(* again with the reference as long as that one is not in conflict.              *)
JudgedAsItStood ==
  \A j \in {c \in DOMAIN claims : claims[c].key[1] = "judgment"} :
    LET key    == claims[j].key[2]
        before == {d \in 1..(j - 1) : claims[d].key = key}
        s      == claims[j].scope[2]
    IN /\ before \ UNION {claims[d].replaces : d \in 1..(j - 1)} = {claims[j].value.revision}
       /\ ReferencesOf(s) # None => j \in Judgments(s, key, claims[j].key[3]) /\ JudgmentReads(s, j)

(* A view that was handed out and still matches its memory tells the truth about it:    *)
(* it stops autonomous changes exactly while two claims in force disagree on what the  *)
(* Song stands on, whichever sections it was asked for, and it leaves out no experiment *)
(* that is undecided while it shows one that was decided.                         *)
CurrentViewsHold ==
  view # None /\ view.digest = SourceDigest(view.song, view.sections) =>
    /\ (view.contradictions # {}) =
         \E c, d \in DurableFacts(view.song) :
           /\ claims[c].scope = claims[d].scope /\ claims[c].key = claims[d].key
           /\ claims[c].value # claims[d].value
    /\ "LEARNING" \in view.sections =>
         LET mine == {e \in DOMAIN episodes : SongOfEpisode(e) = view.song}
             shown == {x[1] : x \in view.context["LEARNING"]} IN
         \A e \in mine \ shown : IsDecided(e) \/ \A f \in shown : ~IsDecided(f)
=============================================================================
