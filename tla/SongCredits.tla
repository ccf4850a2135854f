---------------------------- MODULE SongCredits ----------------------------
(***************************************************************************)
(* n0te2/credits.py and credits_shell.py: who is credited on a Song, and how    *)
(* its composition is to be split.  The shares of a sheet are a draft until it  *)
(* is submitted, and then every participant is recorded as confirming them or   *)
(* disputing them; the sheet can only be voided.                               *)
(*                                                                         *)
(* A page carries fingerprints of what it shows, made of the sequence numbers   *)
(* of the rows, and its forms are refused when another page changed them.       *)
(***************************************************************************)
EXTENDS ArtistPeople, FiniteSetsExt

CONSTANTS Whole, Share  \* 10000 basis points, and the shares one participant gets

ASSUME ShareAssumption == Whole \in Nat \ {0} /\ Share \subseteq 1..Whole

VARIABLES
  credits,  \* table song_credits
  sheets,   \* table composition_split_sheets, with its allocations and confirmations;
            \* saved counts the sequence numbers its allocations went through
  offered   \* the forms of pages that were shown and not sent yet

creditVars == <<credits, sheets, offered>>

SheetState == {"DRAFT", "OPEN_CONFIRMATION", "VOIDED"}
Status     == {"RECORDED_CONFIRMED", "RECORDED_DISPUTED"}

SheetOn(k)         == sheets[k].state \in {"DRAFT", "OPEN_CONFIRMATION"}
SheetsOf(s)        == {k \in DOMAIN sheets : sheets[k].song = s}
ActiveSheets(s)    == {k \in SheetsOf(s) : SheetOn(k)}
Participants(k)    == {p \in Person : sheets[k].shares[p] > 0}
Total(shares)      == MapThenSumSet(LAMBDA p : shares[p], {p \in Person : shares[p] > 0})

\* latest_confirmation; confirmation_state is PENDING when there is none.
ConfirmationState(k, p) ==
  LET of == {i \in DOMAIN sheets[k].said : sheets[k].said[i].person = p} IN
  IF of = {} THEN "PENDING" ELSE sheets[k].said[Max(of)].status

SplitEvent(type, k) == Log(<<Event(type, sheets[k].song, None)>>)

-----------------------------------------------------------------------------
(* CreditsMemory *)

RecordCredit(s, p) ==
  /\ s \in Known /\ p \in people
  /\ credits' = Append(credits, [song |-> s, person |-> p])
  /\ Log(<<Event("SONG_CREDIT_RECORDED", s, None)>>)
  /\ UNCHANGED sheets

\* An index of the table allows one sheet of a Song that is not voided.
CreateSplitDraft(s) ==
  /\ s \in Known /\ ActiveSheets(s) = {}
  /\ sheets' = Append(sheets, [song |-> s, state |-> "DRAFT", saved |-> 0, said |-> <<>>,
                               shares |-> [p \in Person |-> 0]])
  /\ Log(<<Event("COMPOSITION_SPLIT_DRAFT_CREATED", s, None)>>)
  /\ UNCHANGED credits

\* A bug: rows written again get the numbers of the rows they replace.
RewriteAllocations(k, shares) ==
  /\ k \in DOMAIN sheets /\ sheets[k].state = "DRAFT"
  /\ {p \in Person : shares[p] > 0} \subseteq people
  /\ Total(shares) <= Whole
  /\ sheets' = [sheets EXCEPT ![k].shares = shares, ![k].saved = 1]
  /\ UNCHANGED <<credits, events>>

\* The rows of the sheet are deleted and written again.
SetDraftAllocations(k, shares) ==
  /\ k \in DOMAIN sheets /\ sheets[k].state = "DRAFT"
  /\ {p \in Person : shares[p] > 0} \subseteq people
  /\ Total(shares) <= Whole
  /\ sheets' = [sheets EXCEPT ![k].shares = shares,
                  ![k].saved = IF \E p \in Person : shares[p] > 0 THEN @ + 1 ELSE @]
  /\ UNCHANGED <<credits, events>>

SubmitSplit(k) ==
  /\ k \in DOMAIN sheets /\ sheets[k].state = "DRAFT"
  /\ Total(sheets[k].shares) = Whole
  /\ sheets' = [sheets EXCEPT ![k].state = "OPEN_CONFIRMATION"]
  /\ SplitEvent("COMPOSITION_SPLIT_SUBMITTED", k)
  /\ UNCHANGED credits

RecordConfirmation(k, p, status) ==
  /\ k \in DOMAIN sheets /\ sheets[k].state = "OPEN_CONFIRMATION"
  /\ p \in Participants(k) /\ ConfirmationState(k, p) # status
  /\ sheets' = [sheets EXCEPT ![k].said = Append(@, [person |-> p, status |-> status])]
  /\ SplitEvent("COMPOSITION_SPLIT_CONFIRMATION_RECORDED", k)
  /\ UNCHANGED credits

VoidSplit(k) ==
  /\ k \in DOMAIN sheets /\ SheetOn(k)
  /\ sheets' = [sheets EXCEPT ![k].state = "VOIDED"]
  /\ SplitEvent("COMPOSITION_SPLIT_VOIDED", k)
  /\ UNCHANGED credits

-----------------------------------------------------------------------------
(* The page of people and credits *)

AllocationMark(k)   == IF Participants(k) = {} THEN 0 ELSE sheets[k].saved
ConfirmationMark(k) == Len(sheets[k].said)

\* The fingerprints in a form: the allocations, the people, the confirmations and
\* the state; a form has those that can make it obsolete.
Marks(kind, k) ==
  CASE kind = "SAVE"    -> <<AllocationMark(k), people, 0, None>>
    [] kind = "SUBMIT"  -> <<AllocationMark(k), {}, 0, None>>
    [] kind = "CONFIRM" -> <<0, {}, ConfirmationMark(k), None>>
    [] kind = "VOID"    -> <<AllocationMark(k), {}, ConfirmationMark(k), sheets[k].state>>
    [] OTHER            -> <<0, {}, 0, None>>

FormFor(kind, s, k, p) == [kind |-> kind, song |-> s, sheet |-> k, person |-> p,
                           marks |-> Marks(kind, k),
                           seen |-> IF k = 0 THEN None ELSE sheets[k]]

\* _credits_content, for the active Song.
SheetForms(s) ==
  IF ActiveSheets(s) = {} THEN {FormFor("CREATE", s, 0, None)}
  ELSE UNION {IF sheets[k].state = "DRAFT"
              THEN IF people = {} THEN {} ELSE {FormFor(kind, s, k, None) : kind \in {"SAVE", "SUBMIT"}}
              ELSE {FormFor("CONFIRM", s, k, p) : p \in Participants(k)} \cup {FormFor("VOID", s, k, None)}
              : k \in ActiveSheets(s)}

CreditsPage(s) == {FormFor("CREDIT", s, 0, p) : p \in people} \cup SheetForms(s)

\* The page is shown; f is the form of it the artist may still send.
Offer(f) ==
  /\ active # None /\ f \in CreditsPage(active)
  /\ offered' = offered \cup {f}
  /\ UNCHANGED <<lineageVars, peopleVars, credits, sheets>>

StateWanted(f) ==
  CASE f.kind \in {"SAVE", "SUBMIT"} -> sheets[f.sheet].state = "DRAFT"
    [] f.kind = "CONFIRM"            -> sheets[f.sheet].state = "OPEN_CONFIRMATION"
    [] f.kind = "VOID"               -> SheetOn(f.sheet)
    [] OTHER                         -> TRUE

\* The checks of the _post handlers, after _consume and before the call.
FormStands(f) ==
  /\ active = f.song
  /\ StateWanted(f)
  /\ Marks(f.kind, f.sheet) = f.marks

\* The call itself, which may refuse what is typed in; save takes the shares typed in.
Call(f, shares, status) ==
  CASE f.kind = "CREDIT"  -> RecordCredit(f.song, f.person)
    [] f.kind = "CREATE"  -> CreateSplitDraft(f.song)
    [] f.kind = "SAVE"    -> SetDraftAllocations(f.sheet, shares)
    [] f.kind = "SUBMIT"  -> SubmitSplit(f.sheet)
    [] f.kind = "CONFIRM" -> RecordConfirmation(f.sheet, f.person, status)
    [] f.kind = "VOID"    -> VoidSplit(f.sheet)

\* A form that is sent is used up, whether it stands or not.
Send(f, shares, status) ==
  /\ f \in offered
  /\ offered' = offered \ {f}
  /\ \/ FormStands(f) /\ Call(f, shares, status)
     \/ UNCHANGED <<credits, sheets, events>>  \* refused, or nothing usable was typed in
  /\ UNCHANGED <<recordVars, peopleVars>>

-----------------------------------------------------------------------------

CreditsInit == credits = <<>> /\ sheets = <<>> /\ offered = {}

CreditsTypeOK ==
  /\ credits \in Seq([song : Song, person : Person])
  /\ \A k \in DOMAIN sheets :
       /\ sheets[k].song \in Song /\ sheets[k].state \in SheetState
       /\ sheets[k].shares \in [Person -> {0} \cup Share]

\* _validate_existing.
CreditsReadable ==
  /\ \A i \in DOMAIN credits : credits[i].song \in Known /\ credits[i].person \in people
  /\ \A k \in DOMAIN sheets :
       /\ sheets[k].song \in Known /\ Participants(k) \subseteq people
       /\ Total(sheets[k].shares) <= Whole
       /\ sheets[k].state = "OPEN_CONFIRMATION" => Total(sheets[k].shares) = Whole
       /\ \A i \in DOMAIN sheets[k].said : sheets[k].said[i].person \in Participants(k)
  /\ \A s \in Song : Cardinality(ActiveSheets(s)) <= 1
=============================================================================
