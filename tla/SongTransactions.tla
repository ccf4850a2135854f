--------------------------- MODULE SongTransactions ---------------------------
(***************************************************************************)
(* n0te2/song_transactions.py: an operation that is bound to a Song runs only  *)
(* on the Song and the current Version its caller saw.  The operations of the   *)
(* journal and the run of the coordinator are those of OperationJournal and     *)
(* TransactionCoordinator, here their states alone.                           *)
(***************************************************************************)
EXTENDS SongLineage

CONSTANTS Operation

VARIABLES
  operations,  \* the operations that were claimed: their Song, target and state
  bindings,    \* the SongTransactionBindings callers hold
  runs,        \* the bindings that were handed to the coordinator, in order, and how long
               \* the chronology was at each
  endings      \* when the journal ended an operation: how many runs there were by then

transactionVars == <<operations, bindings, runs, endings>>

\* What a run leaves the operation in; one that is cut off may be run again.
OperationEnd == {"SUCCEEDED", "FAILED", "UNKNOWN"}
Outcome == OperationEnd \cup {"EXECUTING"}

OperationRow == [song : Song, target : Nat \cup {None}, state : Outcome]

ASSUME OperationAssumption == None \notin OperationRow

Claimed == {o \in Operation : operations[o] # None}

\* The journal takes an operation on for a Song, or for a Version of it.
ClaimOperation(o, s, target) ==
  /\ operations[o] = None /\ s \in Known /\ target \in {None} \cup VersionsOf(s)
  /\ operations' = [operations EXCEPT ![o] = [song |-> s, target |-> target, state |-> "EXECUTING"]]
  /\ UNCHANGED <<lineageVars, bindings, runs, endings>>

\* bind.
Bind(o) ==
  /\ o \in Claimed /\ operations[o].state = "EXECUTING"
  /\ active = operations[o].song
  /\ bindings' = bindings \cup
       {[operation |-> o, song |-> active, target |-> operations[o].target,
         current |-> songs[active].current]}
  /\ UNCHANGED <<lineageVars, operations, runs, endings>>

\* _validate_execution_binding.
BindingStands(b) ==
  /\ operations[b.operation] = [song |-> b.song, target |-> b.target, state |-> "EXECUTING"]
  /\ active = b.song
  /\ songs[b.song].current = b.current

\* The journal records what became of an operation, after so many runs.
Record(o, outcome, after) ==
  /\ operations' = [operations EXCEPT ![o].state = outcome]
  /\ endings' = endings \cup (IF outcome \in OperationEnd THEN {[operation |-> o, after |-> after]} ELSE {})

Hand(b, outcome) ==
  /\ runs' = Append(runs, [of |-> b, at |-> Len(events)])
  /\ Record(b.operation, outcome, Len(runs'))
  /\ UNCHANGED <<lineageVars, bindings>>

\* A bug: that the operation is being executed is not asked again.
RunAgain(b, outcome) ==
  /\ b \in bindings /\ active = b.song /\ songs[b.song].current = b.current
  /\ Hand(b, outcome)

RunBound(b, outcome) ==
  /\ b \in bindings /\ BindingStands(b)
  /\ Hand(b, outcome)

\* The journal is told an outcome without a run.
EndOperation(o, outcome) ==
  /\ o \in Claimed /\ operations[o].state = "EXECUTING"
  /\ outcome \in OperationEnd /\ Record(o, outcome, Len(runs))
  /\ UNCHANGED <<lineageVars, bindings, runs>>

\* What a run was handed, at any time: its Song was the active one and its Version the
\* current one, and the journal had not ended the operation before, by a run or without.
LastBefore(at, type, about) ==
  LET of == {i \in 1..at : events[i].type = type /\ events[i].song \in about} IN
  IF of = {} THEN Event(None, None, None) ELSE events[CHOOSE i \in of : \A j \in of : j <= i]

RanAsBound(r) ==
  LET b == runs[r].of IN
  /\ LastBefore(runs[r].at, "SONG_SELECTED", Song).song = b.song
  /\ LastBefore(runs[r].at, "CURRENT_VERSION_CHANGED", {b.song}).version = b.current
  /\ \A e \in endings : e.operation = b.operation => r <= e.after

TransactionsInit ==
  /\ operations = [o \in Operation |-> None]
  /\ bindings = {} /\ runs = <<>> /\ endings = {}
=============================================================================
