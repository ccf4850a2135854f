---------------------------- MODULE JournalProofs ----------------------------
(***************************************************************************)
(* What n0te2/operations.py promises, for any number of callers, keys,      *)
(* identities and operations: the invariant of OperationJournal, and that   *)
(* every step of it is a step of ExecuteOnce or leaves all statuses alone.  *)
(***************************************************************************)
EXTENDS OperationJournal, TLAPS

-----------------------------------------------------------------------------
(* Logs: what an append does to what is derived from them *)

\* What _derive makes of a kind of event is never what it makes of a bad log.
LEMMA KindIsDerived ==
  ASSUME NEW kind \in Kinds
  PROVE  DerivedAt(kind) # Corrupt /\ DerivedAt(kind).state # "CORRUPT"
BY DEF Kinds, DerivedAt, Corrupt

\* A log that the loop accepts begins with PREPARED and derives from its last event.
LEMMA ReadableLog ==
  ASSUME NEW events \in Seq(Kinds), Derive(events) # Corrupt
  PROVE  /\ events # <<>> /\ Len(events) \in Nat \ {0}
         /\ events[1] = "PREPARED"
         /\ \A i \in 1..(Len(events) - 1) : Precedes(events[i], events[i + 1])
         /\ events[Len(events)] \in Kinds
         /\ Derive(events) = DerivedAt(events[Len(events)])
         /\ Derive(events).state # "CORRUPT"
<1>1. events # <<>> /\ events[1] = "PREPARED"
      /\ \A i \in 1..(Len(events) - 1) : Precedes(events[i], events[i + 1])
  BY DEF Derive
<1>2. Len(events) \in Nat \ {0}
  BY <1>1
<1>3. events[Len(events)] \in Kinds
  BY <1>2
<1>4. Derive(events) = DerivedAt(events[Len(events)])
  BY <1>1 DEF Derive
<1> QED
  BY <1>1, <1>2, <1>3, <1>4, KindIsDerived

\* The first event of an operation.
LEMMA FirstEvent ==
  /\ Append(<<>>, "PREPARED") \in Seq(Kinds)
  /\ Derive(Append(<<>>, "PREPARED")) = DerivedAt("PREPARED")
<1>1. "PREPARED" \in Kinds
  BY DEF Kinds
<1>2. Append(<<>>, "PREPARED") = <<"PREPARED">>
  OBVIOUS
<1>3. /\ <<"PREPARED">> # <<>> /\ Len(<<"PREPARED">>) = 1
      /\ <<"PREPARED">>[1] = "PREPARED" /\ <<"PREPARED">> \in Seq(Kinds)
  BY <1>1
<1>4. \A i \in 1..(Len(<<"PREPARED">>) - 1) :
        Precedes(<<"PREPARED">>[i], <<"PREPARED">>[i + 1])
  BY <1>3
<1> QED
  BY <1>2, <1>3, <1>4 DEF Derive

\* An event appended after one it may follow is the one that counts.
LEMMA NextEvent ==
  ASSUME NEW events \in Seq(Kinds), NEW kind \in Kinds,
         Derive(events) # Corrupt, Precedes(events[Len(events)], kind)
  PROVE  /\ Append(events, kind) \in Seq(Kinds)
         /\ Derive(Append(events, kind)) = DerivedAt(kind)
<1> DEFINE more == Append(events, kind)
<1> HIDE DEF more
<1>1. /\ events # <<>> /\ Len(events) \in Nat \ {0} /\ events[1] = "PREPARED"
      /\ \A i \in 1..(Len(events) - 1) : Precedes(events[i], events[i + 1])
  BY ReadableLog
<1>2. /\ more \in Seq(Kinds) /\ Len(more) = Len(events) + 1
      /\ \A i \in 1..Len(events) : more[i] = events[i]
      /\ more[Len(more)] = kind
  BY <1>1 DEF more
<1>3. more # <<>> /\ more[1] = "PREPARED"
  BY <1>1, <1>2
<1>4. ASSUME NEW i \in 1..(Len(more) - 1) PROVE Precedes(more[i], more[i + 1])
  <2>1. CASE i = Len(events)
    BY <2>1, <1>1, <1>2
  <2>2. CASE i # Len(events)
    <3>1. i \in 1..(Len(events) - 1) /\ i + 1 \in 1..Len(events) /\ i \in 1..Len(events)
      BY <2>2, <1>1, <1>2
    <3> QED
      BY <3>1, <1>1, <1>2
  <2> QED
    BY <2>1, <2>2
<1>5. Derive(more) = DerivedAt(kind)
  BY <1>2, <1>3, <1>4 DEF Derive
<1> QED
  BY <1>2, <1>5 DEF more

\* The state that a log records is that of its last event.
LEMMA LastEvent ==
  ASSUME NEW events \in Seq(Kinds), Derive(events) # Corrupt
  PROVE  LET last == events[Len(events)] IN
         /\ Derive(events).state = "PREPARED" => last = "PREPARED"
         /\ Derive(events).state = "EXECUTING" => last = "EXECUTION_CLAIMED"
         /\ Derive(events).state = "UNKNOWN" /\ ~Derive(events).reconciled => last = "UNKNOWN"
<1>1. /\ events[Len(events)] \in Kinds
      /\ Derive(events) = DerivedAt(events[Len(events)])
  BY ReadableLog
<1> QED
  BY <1>1 DEF DerivedAt, Kinds

-----------------------------------------------------------------------------
(* What a step does to the rows and their histories *)

\* A claim is one of an operation.
LEMMA ClaimTyped ==
  ASSUME TypeOK, NEW j \in DOMAIN claimed
  PROVE  claimed[j].op \in Operation
<1> DEFINE Claim == [by : Caller, op : Operation, identity : Identity]
<1>1. claimed \in Seq(Claim)
  BY DEF TypeOK
<1> HIDE DEF Claim
<1>2. claimed[j] \in Claim
  BY <1>1
<1> QED
  BY <1>2 DEF Claim

\* A caller works on his own: rows and histories stay as they are.
Preparing(c) ==
  \/ \E k \in Key, i \in Identity : CallPrepare(c, k, i)
  \/ Lookup(c) \/ Crash(c)

\* One event more in the history of a row.
Extends(o, kind) ==
  /\ operations[o] # None
  /\ Precedes(log[o][Len(log[o])], kind)
  /\ log' = [log EXCEPT ![o] = Append(@, kind)]
  /\ UNCHANGED <<operations, asked, calls, prepared>>

\* A claim, an outcome and an observation each append the event that may come next.
LEMMA ClaimExtends ==
  ASSUME IInv, NEW c \in Caller, NEW o \in Operation, NEW i \in Identity,
         NEW t \in Decision \cup {None}, NEW e \in Decision \cup {None},
         ClaimExecution(c, o, i, t, e)
  PROVE  /\ Extends(o, "EXECUTION_CLAIMED")
         /\ RecordedState(o) = "PREPARED"
         /\ claimed' = Append(claimed, [by |-> c, op |-> o, identity |-> i])
<1>1. log[o] \in Seq(Kinds) /\ Derive(log[o]) # Corrupt /\ Derive(log[o]).state = "PREPARED"
  BY DEF IInv, TypeOK, RowInv, ClaimExecution, RecordedState
<1>2. log[o][Len(log[o])] = "PREPARED"
  BY <1>1, LastEvent
<1> QED
  BY <1>2 DEF ClaimExecution, Extends, Precedes

\* An outcome is the event after the claim.
LEMMA TerminalExtends ==
  ASSUME IInv, NEW o \in Operation, NEW event \in {"SUCCEEDED", "FAILED", "UNKNOWN"},
         Terminal(o, event)
  PROVE  /\ Extends(o, event) /\ UNCHANGED claimed
         /\ log[o][Len(log[o])] = "EXECUTION_CLAIMED"
<1>1. log[o] \in Seq(Kinds) /\ Derive(log[o]) # Corrupt /\ Derive(log[o]).state = "EXECUTING"
  BY DEF IInv, TypeOK, RowInv, Terminal, RecordedState
<1>2. log[o][Len(log[o])] = "EXECUTION_CLAIMED"
  BY <1>1, LastEvent
<1> QED
  BY <1>2 DEF Terminal, Extends, Precedes

\* An observation is the event after UNKNOWN.
LEMMA ReconcileExtends ==
  ASSUME IInv, NEW o \in Operation, NEW event \in {"RECONCILED_SUCCEEDED", "RECONCILED_FAILED"},
         ReconcileUnknown(o, event)
  PROVE  /\ Extends(o, event) /\ UNCHANGED claimed
         /\ log[o][Len(log[o])] = "UNKNOWN"
<1>1. /\ log[o] \in Seq(Kinds) /\ Derive(log[o]) # Corrupt
      /\ Derive(log[o]).state = "UNKNOWN" /\ ~Derive(log[o]).reconciled
  BY DEF IInv, TypeOK, RowInv, ReconcileUnknown, RecordedState
<1>2. log[o][Len(log[o])] = "UNKNOWN"
  BY <1>1, LastEvent
<1> QED
  BY <1>2 DEF ReconcileUnknown, Extends, Precedes

\* The histories stay such that the loop accepts them.
LEMMA ExtendsKeeps ==
  ASSUME IInv, NEW o \in Operation, NEW kind \in Kinds, Extends(o, kind)
  PROVE  /\ log' \in [Operation -> Seq(Kinds)]
         /\ Derive(log[o]) = DerivedAt(log[o][Len(log[o])])
         /\ Derive(log'[o]) = DerivedAt(kind)
         /\ \A u \in Operation \ {o} : log'[u] = log[u]
         /\ RowInv' /\ PreparedInv'
<1>1. /\ log \in [Operation -> Seq(Kinds)]
      /\ Derive(log[o]) # Corrupt /\ Precedes(log[o][Len(log[o])], kind)
  BY DEF IInv, TypeOK, RowInv, Extends
<1>2. /\ Append(log[o], kind) \in Seq(Kinds)
      /\ Derive(Append(log[o], kind)) = DerivedAt(kind)
  BY <1>1, NextEvent
<1>3. /\ log' \in [Operation -> Seq(Kinds)]
      /\ log'[o] = Append(log[o], kind)
      /\ \A u \in Operation \ {o} : log'[u] = log[u]
  BY <1>1, <1>2 DEF Extends
<1>4. Derive(log[o]) = DerivedAt(log[o][Len(log[o])])
  BY <1>1, ReadableLog
<1>5. Derive(log'[o]) = DerivedAt(kind) /\ Derive(log'[o]) # Corrupt
  BY <1>2, <1>3, KindIsDerived
<1>6. RowInv'
  BY <1>3, <1>5 DEF IInv, RowInv, Extends
<1>7. PreparedInv'
  BY DEF IInv, PreparedInv, Extends
<1> QED
  BY <1>3, <1>4, <1>5, <1>6, <1>7

\* Two claims of one operation never both return: after the first, it is not PREPARED.
LEMMA ExtendsClaims ==
  ASSUME IInv, NEW o \in Operation, NEW kind \in Kinds, Extends(o, kind), UNCHANGED claimed
  PROVE  ClaimedInv'
<1>1. Derive(log'[o]).state # "PREPARED"
  <2>1. kind # "PREPARED"
    BY DEF Extends, Precedes
  <2>2. Derive(log'[o]) = DerivedAt(kind)
    BY ExtendsKeeps
  <2> QED
    BY <2>1, <2>2 DEF DerivedAt, Kinds
<1>2. \A u \in Operation \ {o} : log'[u] = log[u]
  BY ExtendsKeeps
<1> QED
  BY <1>1, <1>2 DEF IInv, TypeOK, ClaimedInv, RecordedState, Extends

\* The claim of a PREPARED operation is the first to return for it.
LEMMA ClaimKeeps ==
  ASSUME IInv, NEW c \in Caller, NEW o \in Operation, NEW i \in Identity,
         Extends(o, "EXECUTION_CLAIMED"), RecordedState(o) = "PREPARED",
         claimed' = Append(claimed, [by |-> c, op |-> o, identity |-> i])
  PROVE  /\ claimed' \in Seq([by : Caller, op : Operation, identity : Identity])
         /\ ClaimedInv'
<1> DEFINE new == [by |-> c, op |-> o, identity |-> i]
<1>1. /\ claimed \in Seq([by : Caller, op : Operation, identity : Identity])
      /\ new \in [by : Caller, op : Operation, identity : Identity]
      /\ new.op = o
  BY DEF IInv, TypeOK
<1>a. claimed' = Append(claimed, new)
  OBVIOUS
<1>b. DOMAIN claimed = 1..Len(claimed) /\ Len(claimed) \in Nat
  BY <1>1
<1>c. \A j \in DOMAIN claimed : claimed[j].op \in Operation
  BY ClaimTyped DEF IInv
<1> HIDE DEF new
<1>2. /\ claimed' \in Seq([by : Caller, op : Operation, identity : Identity])
      /\ DOMAIN claimed' = DOMAIN claimed \cup {Len(claimed) + 1}
      /\ Len(claimed) + 1 \notin DOMAIN claimed
      /\ \A j \in DOMAIN claimed : claimed'[j] = claimed[j]
      /\ claimed'[Len(claimed) + 1] = new
  BY <1>1, <1>a, <1>b
<1>3. \A j \in DOMAIN claimed : claimed[j].op # o
  BY DEF IInv, ClaimedInv
<1>4. Derive(log'[o]).state = "EXECUTING"
  <2>1. Derive(log'[o]) = DerivedAt("EXECUTION_CLAIMED")
    BY ExtendsKeeps DEF Kinds
  <2> QED
    BY <2>1 DEF DerivedAt
<1>5. /\ operations[o] # None /\ operations' = operations
      /\ \A u \in Operation \ {o} : log'[u] = log[u]
  BY ExtendsKeeps DEF Extends, Kinds
<1>6. ASSUME NEW j \in DOMAIN claimed'
      PROVE  operations'[claimed'[j].op] # None /\ Derive(log'[claimed'[j].op]).state # "PREPARED"
  <2>1. CASE j \in DOMAIN claimed
    <3>1. /\ claimed'[j] = claimed[j] /\ claimed[j].op \in Operation \ {o}
          /\ operations[claimed[j].op] # None /\ Derive(log[claimed[j].op]).state # "PREPARED"
      BY <2>1, <1>2, <1>3, <1>c DEF IInv, ClaimedInv, RecordedState
    <3> QED
      BY <3>1, <1>5
  <2>2. CASE j = Len(claimed) + 1
    <3>1. claimed'[j].op = o
      BY <2>2, <1>1, <1>2
    <3> QED
      BY <3>1, <1>4, <1>5
  <2> QED
    BY <2>1, <2>2, <1>2
<1>7. \A j, k \in DOMAIN claimed' : claimed'[j].op = claimed'[k].op => j = k
  BY <1>1, <1>2, <1>3 DEF IInv, ClaimedInv
<1> QED
  BY <1>2, <1>6, <1>7 DEF ClaimedInv, RecordedState

-----------------------------------------------------------------------------
(* Preparing *)

\* What prepare hands back is a row of the exact identity it was asked for.
LEMMA ReturnKeeps ==
  ASSUME IInv, NEW c \in Caller, NEW k \in Key, NEW i \in Identity,
         ReturnExisting(c, k, i), UNCHANGED operations
  PROVE  /\ prepared' \subseteq [by : Caller, key : Key, identity : Identity, op : Operation]
         /\ asked' \in [Caller -> Request \cup {None}]
         /\ PreparedInv'
<1>1. \A o \in ByKey(k) : o \in Operation /\ operations[o] \in Row /\ operations[o].key = k
  BY NoneAssumption DEF IInv, TypeOK, ByKey
<1>2. \A o \in ByKey(k) : operations[o].identity = i => operations[o] = [key |-> k, identity |-> i]
  BY <1>1 DEF Row
<1>3. \A a \in prepared' \ prepared :
        /\ a.op \in Operation /\ a.by = c /\ a.key = k /\ a.identity = i
        /\ a \in [by : Caller, key : Key, identity : Identity, op : Operation]
        /\ operations[a.op] = [key |-> a.key, identity |-> a.identity]
  BY <1>1, <1>2 DEF ReturnExisting
<1> QED
  BY <1>3 DEF IInv, TypeOK, PreparedInv, ReturnExisting

\* prepare, up to its inserts, disturbs no row.
LEMMA PreparingKeeps ==
  ASSUME IInv, NEW c \in Caller, Preparing(c)
  PROVE  /\ UNCHANGED <<operations, log, claimed>>
         /\ TypeOK' /\ PreparedInv'
<1>1. ASSUME NEW k \in Key, NEW i \in Identity, CallPrepare(c, k, i)
      PROVE  UNCHANGED <<operations, log, claimed>> /\ TypeOK' /\ PreparedInv'
  <2>1. [key |-> k, identity |-> i, phase |-> "lookup"] \in Request
    BY DEF Request
  <2>2. calls[c] + 1 \in 0..MaxCalls
    BY <1>1, JournalAssumption DEF CallPrepare, IInv, TypeOK
  <2> QED
    BY <1>1, <2>1, <2>2 DEF CallPrepare, IInv, TypeOK, PreparedInv
<1>2. CASE Lookup(c)
  <2>1. asked[c] \in Request /\ asked[c].key \in Key /\ asked[c].identity \in Identity
    BY <1>2 DEF Lookup, IInv, TypeOK, Request
  <2>2. CASE ReturnExisting(c, asked[c].key, asked[c].identity)
    BY <2>1, <2>2, <1>2, ReturnKeeps DEF Lookup, IInv, TypeOK
  <2>3. CASE asked' = [asked EXCEPT ![c].phase = "insert"] /\ UNCHANGED prepared
    <3>1. [asked[c] EXCEPT !.phase = "insert"] \in Request
      BY <2>1 DEF Request
    <3> QED
      BY <3>1, <2>3, <1>2 DEF Lookup, IInv, TypeOK, PreparedInv
  <2> QED
    BY <2>2, <2>3, <1>2 DEF Lookup
<1>3. CASE Crash(c)
  BY <1>3 DEF Crash, IInv, TypeOK, PreparedInv
<1> QED
  BY <1>1, <1>2, <1>3 DEF Preparing

\* The insert of a row with its first event, for a key that has none.
Inserts(c, o) ==
  /\ asked[c] \in Request /\ operations[o] = None
  /\ ByKey(asked[c].key) = {}
  /\ operations' = [operations EXCEPT ![o] = [key |-> asked[c].key, identity |-> asked[c].identity]]
  /\ log' = [log EXCEPT ![o] = Append(@, "PREPARED")]
  /\ prepared' = prepared \cup
       {[by |-> c, key |-> asked[c].key, identity |-> asked[c].identity, op |-> o]}
  /\ asked' = [asked EXCEPT ![c] = None]
  /\ UNCHANGED <<calls, claimed>>

\* An insert goes through, or it meets the row of another caller and looks again.
LEMMA InsertCases ==
  ASSUME IInv, NEW c \in Caller, NEW o \in Operation, Insert(c, o)
  PROVE  \/ Inserts(c, o)
         \/ /\ ReturnExisting(c, asked[c].key, asked[c].identity)
            /\ asked[c].key \in Key /\ asked[c].identity \in Identity
            /\ UNCHANGED <<operations, log, calls, claimed>>
<1>1. asked[c] \in Request /\ asked[c].key \in Key /\ asked[c].identity \in Identity
  BY DEF Insert, IInv, TypeOK, Request
<1> QED
  BY <1>1 DEF Insert, Inserts

\* A row comes with its first event, under a key that had none.
LEMMA InsertsKeeps ==
  ASSUME IInv, NEW c \in Caller, NEW o \in Operation, Inserts(c, o)
  PROVE  /\ IInv'
         /\ operations'[o] # None /\ operations'[o].key = asked[c].key
         /\ asked[c].key \in Key
         /\ log'[o] = Append(<<>>, "PREPARED")
         /\ \A u \in Operation \ {o} : operations'[u] = operations[u] /\ log'[u] = log[u]
<1> DEFINE row == [key |-> asked[c].key, identity |-> asked[c].identity]
<1>1. row \in Row /\ row # None /\ row.key = asked[c].key /\ row.identity = asked[c].identity
      /\ asked[c].key \in Key /\ asked[c].identity \in Identity
  BY NoneAssumption DEF Inserts, Request, Row
<1>2. /\ operations' \in [Operation -> Row \cup {None}] /\ operations'[o] = row
      /\ \A u \in Operation \ {o} : operations'[u] = operations[u]
  BY <1>1 DEF Inserts, IInv, TypeOK
<1>3. log[o] = <<>>
  BY DEF Inserts, IInv, RowInv
<1>4. /\ log' \in [Operation -> Seq(Kinds)] /\ log'[o] = Append(<<>>, "PREPARED")
      /\ \A u \in Operation \ {o} : log'[u] = log[u]
  BY <1>3, FirstEvent DEF Inserts, IInv, TypeOK
<1>5. Derive(log'[o]) = DerivedAt("PREPARED") /\ Derive(log'[o]) # Corrupt
  BY <1>4, FirstEvent, KindIsDerived DEF Kinds
<1> HIDE DEF row
<1>6. \A u \in Operation : operations[u] # None => operations[u].key # row.key /\ u # o
  BY <1>1 DEF Inserts, ByKey
<1>7. RowInv'
  BY <1>1, <1>2, <1>4, <1>5, <1>6 DEF IInv, RowInv
<1>8. PreparedInv'
  <2>1. \A a \in prepared : a.op \in Operation \ {o}
    <3>1. \A a \in prepared : a.op \in Operation /\ operations[a.op] # None
      <4>1. \A a \in prepared : [key |-> a.key, identity |-> a.identity] \in Row
        BY DEF IInv, TypeOK, Row
      <4> QED
        BY <4>1, NoneAssumption DEF IInv, TypeOK, PreparedInv
    <3> QED
      BY <3>1 DEF Inserts
  <2>2. \A a \in prepared : operations'[a.op] = [key |-> a.key, identity |-> a.identity]
    BY <2>1, <1>2 DEF IInv, PreparedInv
  <2>3. \A a \in prepared' \ prepared :
          a = [by |-> c, key |-> asked[c].key, identity |-> asked[c].identity, op |-> o]
    BY DEF Inserts
  <2>4. \A a \in prepared' \ prepared :
          operations'[a.op] = [key |-> a.key, identity |-> a.identity]
    BY <2>3, <1>2 DEF row
  <2> QED
    BY <2>2, <2>4 DEF PreparedInv
<1>9. ClaimedInv'
  <2>1. \A j \in DOMAIN claimed : claimed[j].op \in Operation \ {o}
    BY ClaimTyped DEF Inserts, IInv, ClaimedInv
  <2> QED
    BY <2>1, <1>2, <1>4 DEF IInv, ClaimedInv, Inserts, RecordedState
<1>10. TypeOK'
  BY <1>1, <1>2, <1>4 DEF IInv, TypeOK, Inserts
<1> QED
  BY <1>1, <1>2, <1>4, <1>7, <1>8, <1>9, <1>10 DEF IInv

-----------------------------------------------------------------------------
(* The invariant *)

\* Empty tables satisfy the invariant.
LEMMA InitHolds == Init => IInv
BY JournalAssumption DEF Init, IInv, TypeOK, RowInv, PreparedInv, ClaimedInv

\* The steps that append to the history of a row.
Appending ==
  \/ \E c \in Caller, o \in Operation, i \in Identity, t, e \in Decision \cup {None} :
       ClaimExecution(c, o, i, t, e)
  \/ \E o \in Operation :
       \/ \E event \in {"SUCCEEDED", "FAILED", "UNKNOWN"} : Terminal(o, event)
       \/ \E event \in {"RECONCILED_SUCCEEDED", "RECONCILED_FAILED"} : ReconcileUnknown(o, event)

\* A step prepares, inserts a row, or appends to a history.
LEMMA NextKinds ==
  ASSUME Next
  PROVE  \/ \E c \in Caller : Preparing(c) \/ \E o \in Operation : Insert(c, o)
         \/ Appending
BY DEF Next, Preparing, Appending

\* Every step keeps the invariant.
LEMMA NextKeeps == IInv /\ [Next]_vars => IInv'
<1> SUFFICES ASSUME IInv, [Next]_vars PROVE IInv'
  OBVIOUS
<1>1. ASSUME NEW c \in Caller, Preparing(c) PROVE IInv'
  <2>1. UNCHANGED <<operations, log, claimed>> /\ TypeOK' /\ PreparedInv'
    BY <1>1, PreparingKeeps
  <2> QED
    BY <2>1 DEF IInv, RowInv, ClaimedInv, RecordedState
<1>2. ASSUME NEW c \in Caller, NEW o \in Operation, Insert(c, o) PROVE IInv'
  <2>1. CASE Inserts(c, o)
    BY <2>1, InsertsKeeps
  <2>2. CASE /\ ReturnExisting(c, asked[c].key, asked[c].identity)
             /\ asked[c].key \in Key /\ asked[c].identity \in Identity
             /\ UNCHANGED <<operations, log, calls, claimed>>
    <3>1. /\ prepared' \subseteq [by : Caller, key : Key, identity : Identity, op : Operation]
          /\ asked' \in [Caller -> Request \cup {None}]
          /\ PreparedInv'
      BY <2>2, ReturnKeeps
    <3> QED
      BY <3>1, <2>2 DEF IInv, TypeOK, RowInv, ClaimedInv, RecordedState
  <2> QED
    BY <1>2, <2>1, <2>2, InsertCases
<1>3. ASSUME NEW c \in Caller, NEW o \in Operation, NEW i \in Identity,
             NEW t \in Decision \cup {None}, NEW e \in Decision \cup {None},
             ClaimExecution(c, o, i, t, e)
      PROVE  IInv'
  <2>1. /\ Extends(o, "EXECUTION_CLAIMED") /\ RecordedState(o) = "PREPARED"
        /\ claimed' = Append(claimed, [by |-> c, op |-> o, identity |-> i])
    BY <1>3, ClaimExtends
  <2>2. log' \in [Operation -> Seq(Kinds)] /\ RowInv' /\ PreparedInv'
    BY <2>1, ExtendsKeeps DEF Kinds
  <2>3. claimed' \in Seq([by : Caller, op : Operation, identity : Identity]) /\ ClaimedInv'
    BY <2>1, ClaimKeeps
  <2> QED
    BY <2>1, <2>2, <2>3 DEF IInv, TypeOK, Extends
<1>4. ASSUME NEW o \in Operation, NEW kind \in Kinds, Extends(o, kind), UNCHANGED claimed
      PROVE  IInv'
  <2>1. log' \in [Operation -> Seq(Kinds)] /\ RowInv' /\ PreparedInv'
    BY <1>4, ExtendsKeeps
  <2>2. ClaimedInv'
    BY <1>4, ExtendsClaims
  <2> QED
    BY <1>4, <2>1, <2>2 DEF IInv, TypeOK, Extends
<1>5. ASSUME NEW o \in Operation, NEW event \in {"SUCCEEDED", "FAILED", "UNKNOWN"},
             Terminal(o, event)
      PROVE  IInv'
  BY <1>5, <1>4, TerminalExtends DEF Kinds
<1>6. ASSUME NEW o \in Operation, NEW event \in {"RECONCILED_SUCCEEDED", "RECONCILED_FAILED"},
             ReconcileUnknown(o, event)
      PROVE  IInv'
  BY <1>6, <1>4, ReconcileExtends DEF Kinds
<1>7. CASE UNCHANGED vars
  BY <1>7 DEF vars, IInv, TypeOK, RowInv, PreparedInv, ClaimedInv, RecordedState
<1> QED
  BY <1>1, <1>2, <1>3, <1>5, <1>6, <1>7, NextKinds DEF Appending

\* The rows, their histories, and what callers hold of them always agree.
THEOREM JournalInvariant == Spec => []IInv
<1> QED
  BY InitHolds, NextKeeps, PTL DEF Spec

-----------------------------------------------------------------------------
(* What the invariant says of the journal's callers *)

\* Two claims never return for one idempotency key, whoever prepared it, however
\* often and with whom he raced: "execute-once identity" of operations.py.
THEOREM ExecutesOnce == Spec => []ExecutedOnce
<1>1. IInv => ExecutedOnce
  <2> SUFFICES ASSUME IInv PROVE ExecutedOnce
    OBVIOUS
  <2>1. \A a \in prepared :
          /\ a.op \in Operation /\ operations[a.op] # None
          /\ operations[a.op].key = a.key
    <3> TAKE a \in prepared
    <3>1. a.op \in Operation /\ a.key \in Key /\ a.identity \in Identity
      BY DEF IInv, TypeOK
    <3>2. operations[a.op] = [key |-> a.key, identity |-> a.identity]
      BY DEF IInv, PreparedInv
    <3>3. operations[a.op] \in Row /\ operations[a.op].key = a.key
      BY <3>1, <3>2 DEF Row
    <3> QED
      BY <3>1, <3>3, NoneAssumption
  <2>2. OneOperationPerKey
    BY <2>1 DEF OneOperationPerKey, IInv, RowInv, PreparedInv
  <2>3. \A i \in DOMAIN claimed : claimed[i].op \in Operation
    BY ClaimTyped DEF IInv
  <2> QED
    BY <2>2, <2>3 DEF ExecutedOnce, IInv, RowInv, ClaimedInv
<1> QED
  BY <1>1, JournalInvariant, PTL

\* Every operation's events pass _validate_existing, wherever the callers were cut
\* off: no legal sequence of calls makes a profile that does not open.
THEOREM HistoriesStayReadable == Spec => []HistoryReadable
<1>1. IInv => HistoryReadable
  BY ReadableLog DEF IInv, TypeOK, RowInv, HistoryReadable, RecordedState
<1> QED
  BY <1>1, JournalInvariant, PTL

-----------------------------------------------------------------------------
(* The journal implements ExecuteOnce *)

\* The status of a key with a row is what the row's events say.
RowStatus ==
  \A o \in Operation : operations[o] # None =>
    /\ operations[o].key \in Key
    /\ StatusOf(operations[o].key) = Reported(Derive(log[o]))

\* ... by the UNIQUE key, which makes the row of a key the only one.
LEMMA StatusIs == IInv => RowStatus
<1> SUFFICES ASSUME IInv, NEW o \in Operation, operations[o] # None
             PROVE  /\ operations[o].key \in Key
                    /\ StatusOf(operations[o].key) = Reported(Derive(log[o]))
  BY DEF RowStatus
<1>1. operations[o].key \in Key
  BY DEF IInv, TypeOK, Row
<1>2. ByKey(operations[o].key) = {o}
  BY DEF IInv, RowInv, ByKey
<1>3. (CHOOSE u \in ByKey(operations[o].key) : TRUE) = o
  BY <1>2
<1> QED
  BY <1>1, <1>2, <1>3 DEF StatusOf

NoRowStatus ==
  \A k \in Key : (\A o \in Operation : operations[o] # None => operations[o].key # k) =>
    StatusOf(k) = "NONE"

\* A key that nobody inserted has no status.
LEMMA StatusWithoutRow == NoRowStatus
BY DEF NoRowStatus, StatusOf, ByKey

\* A key whose rows and histories are left alone keeps its status.
LEMMA OtherKeys ==
  ASSUME IInv, IInv', NEW o \in Operation, NEW k \in Key, operations'[o] # None,
         operations'[o].key # k, operations[o] = None \/ operations[o] = operations'[o],
         \A u \in Operation \ {o} : operations'[u] = operations[u] /\ log'[u] = log[u]
  PROVE  StatusOf(k)' = StatusOf(k)
<1>1. CASE \A u \in Operation : operations[u] # None => operations[u].key # k
  <2>1. \A u \in Operation : operations'[u] # None => operations'[u].key # k
    BY <1>1
  <2>2. NoRowStatus'
    BY StatusWithoutRow, PTL
  <2> QED
    BY <1>1, <2>1, <2>2, StatusWithoutRow DEF NoRowStatus
<1>2. CASE \E u \in Operation : operations[u] # None /\ operations[u].key = k
  <2>1. PICK u \in Operation : operations[u] # None /\ operations[u].key = k
    BY <1>2
  <2>2. u # o /\ operations'[u] = operations[u] /\ log'[u] = log[u]
    BY <2>1
  <2>3. StatusOf(k) = Reported(Derive(log[u]))
    BY <2>1, StatusIs DEF RowStatus
  <2>4. RowStatus'
    BY StatusIs, PTL
  <2> QED
    BY <2>1, <2>2, <2>3, <2>4 DEF RowStatus
<1> QED
  BY <1>1, <1>2

\* When the status of one key changes alone, ExecuteOnce moves that key.
LEMMA OneKeyMoves ==
  ASSUME NEW k \in Key, NEW from, NEW to,
         StatusOf(k) = from, StatusOf(k)' = to,
         \A j \in Key \ {k} : StatusOf(j)' = StatusOf(j)
  PROVE  Abstract!Move(k, from, to)
BY DEF Abstract!Move, KeyStatus

\* A row that is inserted is the key's Prepare.
LEMMA InsertRefines ==
  ASSUME IInv, IInv', NEW c \in Caller, NEW o \in Operation, Inserts(c, o)
  PROVE  Abstract!Next
<1> DEFINE k == asked[c].key
<1>1. /\ operations'[o] # None /\ operations'[o].key = k /\ k \in Key
      /\ log'[o] = Append(<<>>, "PREPARED") /\ operations[o] = None
      /\ \A u \in Operation \ {o} : operations'[u] = operations[u] /\ log'[u] = log[u]
  BY InsertsKeeps DEF Inserts
<1>2. StatusOf(k) = "NONE"
  BY DEF Inserts, StatusOf
<1>3. Derive(log'[o]) = DerivedAt("PREPARED")
  BY <1>1, FirstEvent
<1>4. Reported(Derive(log'[o])) = "PREPARED"
  BY <1>3 DEF Reported, DerivedAt
<1> HIDE DEF k
<1>5. RowStatus'
  BY StatusIs, PTL
<1>6. \A j \in Key \ {k} : StatusOf(j)' = StatusOf(j)
  BY <1>1, OtherKeys
<1>7. Abstract!Move(k, "NONE", "PREPARED")
  <2> PICK j \in Key : j = k
    BY <1>1
  <2>1. StatusOf(j)' = "PREPARED"
    BY <1>1, <1>4, <1>5 DEF RowStatus
  <2> QED
    BY <1>2, <1>6, <2>1, OneKeyMoves
<1> QED
  BY <1>1, <1>7 DEF Abstract!Next, Abstract!Prepare

\* An event appended to a row moves the row's key, and no other.
LEMMA ExtendsRefines ==
  ASSUME IInv, IInv', NEW o \in Operation, NEW kind \in Kinds, Extends(o, kind)
  PROVE  \E k \in Key : Abstract!Move(k, Reported(DerivedAt(log[o][Len(log[o])])),
                                          Reported(DerivedAt(kind)))
<1>1. /\ operations' = operations /\ operations[o] # None
      /\ Derive(log[o]) = DerivedAt(log[o][Len(log[o])])
      /\ Derive(log'[o]) = DerivedAt(kind)
      /\ \A u \in Operation \ {o} : log'[u] = log[u]
  BY ExtendsKeeps DEF Extends
<1>2. PICK k \in Key : k = operations[o].key
  BY <1>1, StatusIs DEF RowStatus
<1>3. StatusOf(k) = Reported(DerivedAt(log[o][Len(log[o])]))
  BY <1>1, <1>2, StatusIs DEF RowStatus
<1>4. RowStatus'
  BY StatusIs, PTL
<1>5. StatusOf(k)' = Reported(DerivedAt(kind))
  BY <1>1, <1>2, <1>4 DEF RowStatus
<1>6. \A j \in Key \ {k} : StatusOf(j)' = StatusOf(j)
  BY <1>1, <1>2, OtherKeys
<1>7. Abstract!Move(k, Reported(DerivedAt(log[o][Len(log[o])])), Reported(DerivedAt(kind)))
  BY <1>3, <1>5, <1>6, OneKeyMoves
<1> QED
  BY <1>7

\* Claims, outcomes and observations are steps of ExecuteOnce.
LEMMA AppendingRefines ==
  ASSUME IInv, IInv', Appending
  PROVE  Abstract!Next
<1>1. ASSUME NEW c \in Caller, NEW o \in Operation, NEW i \in Identity,
             NEW t \in Decision \cup {None}, NEW e \in Decision \cup {None},
             ClaimExecution(c, o, i, t, e)
      PROVE  Abstract!Next
  <2>1. Extends(o, "EXECUTION_CLAIMED") /\ Derive(log[o]).state = "PREPARED"
    BY <1>1, ClaimExtends DEF RecordedState
  <2>2. log[o][Len(log[o])] = "PREPARED"
    BY <2>1, LastEvent DEF IInv, TypeOK, RowInv, Extends
  <2>3. PICK k \in Key : Abstract!Move(k, Reported(DerivedAt("PREPARED")),
                                           Reported(DerivedAt("EXECUTION_CLAIMED")))
    BY <2>1, <2>2, ExtendsRefines DEF Kinds
  <2>4. Abstract!Claim(k)
    BY <2>3 DEF Abstract!Claim, Reported, DerivedAt
  <2> QED
    BY <2>4 DEF Abstract!Next
<1>2. ASSUME NEW o \in Operation, NEW event \in {"SUCCEEDED", "FAILED", "UNKNOWN"},
             Terminal(o, event)
      PROVE  Abstract!Next
  <2>1. Extends(o, event) /\ log[o][Len(log[o])] = "EXECUTION_CLAIMED"
    BY <1>2, TerminalExtends
  <2>2. PICK k \in Key : Abstract!Move(k, Reported(DerivedAt("EXECUTION_CLAIMED")),
                                           Reported(DerivedAt(event)))
    BY <2>1, ExtendsRefines DEF Kinds
  <2>3. /\ Reported(DerivedAt("EXECUTION_CLAIMED")) = "EXECUTING"
        /\ Reported(DerivedAt(event)) = event
    BY DEF Reported, DerivedAt
  <2>4. event \in Abstract!Outcomes /\ Abstract!Record(k, event)
    BY <2>2, <2>3 DEF Abstract!Record, Abstract!Outcomes
  <2> QED
    BY <2>4 DEF Abstract!Next
<1>3. ASSUME NEW o \in Operation, NEW event \in {"RECONCILED_SUCCEEDED", "RECONCILED_FAILED"},
             ReconcileUnknown(o, event)
      PROVE  Abstract!Next
  <2>1. Extends(o, event) /\ log[o][Len(log[o])] = "UNKNOWN"
    BY <1>3, ReconcileExtends
  <2>2. PICK k \in Key : Abstract!Move(k, Reported(DerivedAt("UNKNOWN")),
                                           Reported(DerivedAt(event)))
    BY <2>1, ExtendsRefines DEF Kinds
  <2>3. /\ Reported(DerivedAt("UNKNOWN")) = "UNKNOWN"
        /\ Reported(DerivedAt(event)) = event
    BY DEF Reported, DerivedAt
  <2>4. PICK result \in {"SUCCEEDED", "FAILED"} : Abstract!Reconcile(k, result)
    BY <2>2, <2>3 DEF Abstract!Reconcile
  <2> QED
    BY <2>4 DEF Abstract!Next, Abstract!Outcomes
<1> QED
  BY <1>1, <1>2, <1>3 DEF Appending

\* Whoever prepares, claims, reports and observes, at whatever moment and however
\* often cut off: each key lives the life of an ExecuteOnce operation.
THEOREM JournalImplementsExecuteOnce == Spec => ImplementsExecuteOnce
<1>1. Init => Abstract!Init
  BY DEF Init, Abstract!Init, KeyStatus, StatusOf, ByKey
<1>2. IInv /\ IInv' /\ [Next]_vars => [Abstract!Next]_KeyStatus
  <2> SUFFICES ASSUME IInv, IInv', [Next]_vars
               PROVE  Abstract!Next \/ UNCHANGED KeyStatus
    OBVIOUS
  <2>1. ASSUME UNCHANGED <<operations, log>> PROVE UNCHANGED KeyStatus
    BY <2>1 DEF KeyStatus, StatusOf, ByKey
  <2>2. ASSUME NEW c \in Caller, Preparing(c) PROVE UNCHANGED KeyStatus
    BY <2>1, <2>2, PreparingKeeps
  <2>3. ASSUME NEW c \in Caller, NEW o \in Operation, Insert(c, o)
        PROVE  Abstract!Next \/ UNCHANGED KeyStatus
    BY <2>1, <2>3, InsertCases, InsertRefines
  <2>4. CASE UNCHANGED vars
    BY <2>1, <2>4 DEF vars
  <2> QED
    BY <2>2, <2>3, <2>4, NextKinds, AppendingRefines
<1> QED
  BY <1>1, <1>2, JournalInvariant, PTL DEF Spec, ImplementsExecuteOnce, Abstract!Spec
=============================================================================
