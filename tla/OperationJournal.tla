--------------------------- MODULE OperationJournal ---------------------------
(***************************************************************************)
(* n0te2/operations.py: the tables operations and operation_events, and     *)
(* the callers of OperationJournal.  Every write is one SQLite transaction  *)
(* (BEGIN IMMEDIATE), hence one action; prepare looks its idempotency key   *)
(* up before it opens the transaction that inserts it.                      *)
(***************************************************************************)
EXTENDS Naturals, Sequences, SequencesExt, FiniteSets

CONSTANTS
  Caller,     \* those who hold a connection to the profile's database
  Key,        \* idempotency keys
  Identity,   \* exact identities: intent, approval, Song, Version, route ...
  Outbound,   \* the identities whose intent has a destination
  Operation,  \* operation ids
  MaxCalls,   \* bound: prepare calls of one caller
  None

ASSUME JournalAssumption ==
  /\ Outbound \subseteq Identity
  /\ MaxCalls \in Nat

VARIABLES
  operations,  \* the immutable rows, by operation id
  log,         \* operation_events, by operation id
  asked,       \* the prepare request a caller is working on (local variables)
  calls,       \* prepare calls a caller has made
  prepared,    \* what prepare returned: [by, key, identity, op] records
  claimed      \* what claim_execution returned: [by, op, identity] records, once each

vars == <<operations, log, asked, calls, prepared, claimed>>

Kinds == {"PREPARED", "EXECUTION_CLAIMED", "SUCCEEDED", "FAILED", "UNKNOWN",
          "RECONCILED_SUCCEEDED", "RECONCILED_FAILED"}

Row     == [key : Key, identity : Identity]
Request == [key : Key, identity : Identity, phase : {"lookup", "insert"}]

ASSUME NoneAssumption == None \notin Row \cup Request

TypeOK ==
  /\ operations \in [Operation -> Row \cup {None}]
  /\ log \in [Operation -> Seq(Kinds)]
  /\ asked \in [Caller -> Request \cup {None}]
  /\ calls \in [Caller -> 0..MaxCalls]
  /\ prepared \subseteq [by : Caller, key : Key, identity : Identity, op : Operation]
  /\ claimed \in Seq([by : Caller, op : Operation, identity : Identity])

Init ==
  /\ operations = [o \in Operation |-> None]
  /\ log = [o \in Operation |-> <<>>]
  /\ asked = [c \in Caller |-> None]
  /\ calls = [c \in Caller |-> 0]
  /\ prepared = {}
  /\ claimed = <<>>

-----------------------------------------------------------------------------
(* _derive: the lifecycle is what the events say *)

Corrupt == [state |-> "CORRUPT", effective |-> None, reconciled |-> FALSE]

\* The one kind of event each kind may follow: the branches of the loop, which
\* allow none after a terminal outcome.
Precedes(a, b) ==
  \/ a = "PREPARED" /\ b = "EXECUTION_CLAIMED"
  \/ a = "EXECUTION_CLAIMED" /\ b \in {"SUCCEEDED", "FAILED", "UNKNOWN"}
  \/ a = "UNKNOWN" /\ b \in {"RECONCILED_SUCCEEDED", "RECONCILED_FAILED"}

\* What the loop has derived after an event it accepted.
DerivedAt(kind) ==
  CASE kind = "PREPARED"             -> [state |-> kind, effective |-> None, reconciled |-> FALSE]
    [] kind = "EXECUTION_CLAIMED"    -> [state |-> "EXECUTING", effective |-> None, reconciled |-> FALSE]
    [] kind = "RECONCILED_SUCCEEDED" -> [state |-> "UNKNOWN", effective |-> "SUCCEEDED", reconciled |-> TRUE]
    [] kind = "RECONCILED_FAILED"    -> [state |-> "UNKNOWN", effective |-> "FAILED", reconciled |-> TRUE]
    [] OTHER                         -> [state |-> kind, effective |-> kind, reconciled |-> FALSE]

Derive(events) ==
  IF /\ events # <<>> /\ events[1] = "PREPARED"
     /\ \A i \in 1..(Len(events) - 1) : Precedes(events[i], events[i + 1])
  THEN DerivedAt(events[Len(events)])
  ELSE Corrupt

RecordedState(o) == Derive(log[o]).state

-----------------------------------------------------------------------------
(* prepare *)

ByKey(k) == {o \in Operation : operations[o] # None /\ operations[o].key = k}

\* Both lookups of prepare: hand an existing operation of the exact identity
\* back, refuse the key to any other.
ReturnExisting(c, k, i) ==
  /\ prepared' = prepared \cup
       {[by |-> c, key |-> k, identity |-> i, op |-> o] :
          o \in {o \in ByKey(k) : operations[o].identity = i}}
  /\ asked' = [asked EXCEPT ![c] = None]

\* prepare, up to the lookup; a stale approval is refused before that.
CallPrepare(c, k, i) ==
  /\ asked[c] = None /\ calls[c] < MaxCalls
  /\ calls' = [calls EXCEPT ![c] = @ + 1]
  /\ \/ asked' = [asked EXCEPT ![c] = [key |-> k, identity |-> i, phase |-> "lookup"]]
     \/ UNCHANGED asked
  /\ UNCHANGED <<operations, log, prepared, claimed>>

Lookup(c) ==
  /\ asked[c] # None /\ asked[c].phase = "lookup"
  /\ \/ /\ ByKey(asked[c].key) = {}
        /\ asked' = [asked EXCEPT ![c].phase = "insert"]
        /\ UNCHANGED prepared
     \/ /\ ByKey(asked[c].key) # {}
        /\ ReturnExisting(c, asked[c].key, asked[c].identity)
  /\ UNCHANGED <<operations, log, calls, claimed>>

\* The two inserts are one transaction; the UNIQUE key makes it fail when
\* another caller inserted in between, and prepare then looks again.
Insert(c, o) ==
  /\ asked[c] # None /\ asked[c].phase = "insert"
  /\ operations[o] = None
  /\ \/ /\ ByKey(asked[c].key) = {}
        /\ operations' = [operations EXCEPT
             ![o] = [key |-> asked[c].key, identity |-> asked[c].identity]]
        /\ log' = [log EXCEPT ![o] = Append(@, "PREPARED")]
        /\ prepared' = prepared \cup
             {[by |-> c, key |-> asked[c].key, identity |-> asked[c].identity, op |-> o]}
        /\ asked' = [asked EXCEPT ![c] = None]
     \/ /\ ByKey(asked[c].key) # {}
        /\ ReturnExisting(c, asked[c].key, asked[c].identity)
        /\ UNCHANGED <<operations, log>>
  /\ UNCHANGED <<calls, claimed>>

-----------------------------------------------------------------------------
(* claim_execution and the outcomes *)

\* _gates: a transport and an eligibility decision, each for one identity.
Decision == [route : Identity, status : {"ALLOW", "DENY"}]

Gates(i, transport, eligibility) ==
  IF i \in Outbound
  THEN \A d \in {transport, eligibility} : d # None /\ d.status = "ALLOW" /\ d.route = i
  ELSE transport = None /\ eligibility = None

\* A bug: the claim trusts the state the caller saw before.
ClaimAgain(c, o, i, transport, eligibility) ==
  /\ operations[o] # None
  /\ operations[o].identity = i
  /\ Gates(i, transport, eligibility)
  /\ RecordedState(o) \in {"PREPARED", "EXECUTING"} /\ Len(claimed) < 3
  /\ log' = IF RecordedState(o) = "PREPARED"
            THEN [log EXCEPT ![o] = Append(@, "EXECUTION_CLAIMED")] ELSE log
  /\ claimed' = Append(claimed, [by |-> c, op |-> o, identity |-> i])
  /\ UNCHANGED <<operations, asked, calls, prepared>>

\* A claim that the code refuses changes nothing.
ClaimExecution(c, o, i, transport, eligibility) ==
  /\ operations[o] # None
  /\ operations[o].identity = i
  /\ Gates(i, transport, eligibility)
  /\ RecordedState(o) = "PREPARED"
  /\ log' = [log EXCEPT ![o] = Append(@, "EXECUTION_CLAIMED")]
  /\ claimed' = Append(claimed, [by |-> c, op |-> o, identity |-> i])
  /\ UNCHANGED <<operations, asked, calls, prepared>>

\* A bug: an outcome is recorded for an operation nobody claimed.
TerminalUnclaimed(o, event) ==
  /\ operations[o] # None
  /\ RecordedState(o) \in {"PREPARED", "EXECUTING"}
  /\ log' = [log EXCEPT ![o] = Append(@, event)]
  /\ UNCHANGED <<operations, asked, calls, prepared, claimed>>

\* complete_success, complete_failure and mark_unknown
Terminal(o, event) ==
  /\ operations[o] # None
  /\ RecordedState(o) = "EXECUTING"
  /\ log' = [log EXCEPT ![o] = Append(@, event)]
  /\ UNCHANGED <<operations, asked, calls, prepared, claimed>>

\* A bug: a second observation may overrule the first.
ReconcileTwice(o, event) ==
  /\ operations[o] # None
  /\ RecordedState(o) = "UNKNOWN"
  /\ log' = [log EXCEPT ![o] = IF Derive(@).reconciled
                               THEN Append(SubSeq(@, 1, Len(@) - 1), event)
                               ELSE Append(@, event)]
  /\ UNCHANGED <<operations, asked, calls, prepared, claimed>>

ReconcileUnknown(o, event) ==
  /\ operations[o] # None
  /\ RecordedState(o) = "UNKNOWN" /\ ~Derive(log[o]).reconciled
  /\ log' = [log EXCEPT ![o] = Append(@, event)]
  /\ UNCHANGED <<operations, asked, calls, prepared, claimed>>

\* The process ends: its connection and its local variables go.
Crash(c) ==
  /\ asked[c] # None
  /\ asked' = [asked EXCEPT ![c] = None]
  /\ UNCHANGED <<operations, log, calls, prepared, claimed>>

Next ==
  \/ \E c \in Caller :
       \/ \E k \in Key, i \in Identity : CallPrepare(c, k, i)
       \/ Lookup(c) \/ Crash(c)
       \/ \E o \in Operation : Insert(c, o)
       \/ \E o \in Operation, i \in Identity, t, e \in Decision \cup {None} :
            ClaimExecution(c, o, i, t, e)
  \/ \E o \in Operation :
       \/ \E event \in {"SUCCEEDED", "FAILED", "UNKNOWN"} : Terminal(o, event)
       \/ \E event \in {"RECONCILED_SUCCEEDED", "RECONCILED_FAILED"} :
            ReconcileUnknown(o, event)

Spec == Init /\ [][Next]_vars

-----------------------------------------------------------------------------
(* Properties *)

\* Whoever prepared a key got the same operation, and one of the identity he
\* asked for, also when two callers looked the key up before either inserted
\* it (prepare's "idempotent for exact same identity").
OneOperationPerKey ==
  /\ \A a, b \in prepared : a.key = b.key => a.op = b.op
  /\ \A a \in prepared : operations[a.op] = [key |-> a.key, identity |-> a.identity]

\* Two claims never return for one key, so what the key stands for is executed
\* at most once, whoever asks and however often ("execute-once identity").
ExecutedOnce ==
  OneOperationPerKey /\ \A i, j \in DOMAIN claimed :
    operations[claimed[i].op].key = operations[claimed[j].op].key => i = j

\* The events of every operation pass _validate_existing, so the profile opens
\* again after a crash at any point.
HistoryReadable ==
  TypeOK /\ \A o \in Operation : operations[o] # None => RecordedState(o) # "CORRUPT"

\* What an operation's events say of it, in the words of ExecuteOnce.
Reported(d) ==
  IF d.reconciled
  THEN IF d.effective = "SUCCEEDED" THEN "RECONCILED_SUCCEEDED" ELSE "RECONCILED_FAILED"
  ELSE d.state

\* The status of a key is that of the operation prepared for it.
StatusOf(k) ==
  IF ByKey(k) = {} THEN "NONE" ELSE Reported(Derive(log[CHOOSE o \in ByKey(k) : TRUE]))

\* The journal implements ExecuteOnce for idempotency keys.
KeyStatus == [k \in Key |-> StatusOf(k)]

Abstract == INSTANCE ExecuteOnce WITH Operation <- Key, status <- KeyStatus

ImplementsExecuteOnce == Abstract!Spec

-----------------------------------------------------------------------------
(* Why the properties hold: an inductive invariant *)

\* A key has one row, and the row has a history that the loop accepts; what has no
\* row has no event either (the UNIQUE key, and the two inserts of prepare).
RowInv ==
  /\ \A o, u \in Operation :
       operations[o] # None /\ operations[u] # None /\ operations[o].key = operations[u].key => o = u
  /\ \A o \in Operation :
       /\ operations[o] = None => log[o] = <<>>
       /\ operations[o] # None => Derive(log[o]) # Corrupt

\* What prepare handed out is what the row says.
PreparedInv ==
  \A a \in prepared : operations[a.op] = [key |-> a.key, identity |-> a.identity]

\* A claim that returned has its event in the history of a row, and no second claim
\* of that operation returned.
ClaimedInv ==
  /\ \A i \in DOMAIN claimed :
       operations[claimed[i].op] # None /\ RecordedState(claimed[i].op) # "PREPARED"
  /\ \A i, j \in DOMAIN claimed : claimed[i].op = claimed[j].op => i = j

IInv == TypeOK /\ RowInv /\ PreparedInv /\ ClaimedInv
=============================================================================
