------------------------------ MODULE MCJournal ------------------------------
(* Instances of OperationJournal. *)
EXTENDS OperationJournal, TLC

CONSTANTS c1, c2, k1, k2, local, outbound, o1, o2, o3

Alike == Permutations({c1, c2}) \cup Permutations({k1, k2}) \cup Permutations({o1, o2, o3})

-----------------------------------------------------------------------------
(* _derive as the code runs it: one round of its loop for every event.  TLC *)
(* compares it with Derive on all logs of at most LongestLog events.        *)

LongestLog == 5

Derived(d, kind) ==
  CASE kind = "EXECUTION_CLAIMED" /\ d.state = "PREPARED" ->
         [d EXCEPT !.state = "EXECUTING"]
    [] kind \in {"SUCCEEDED", "FAILED", "UNKNOWN"} /\ d.state = "EXECUTING" ->
         [d EXCEPT !.state = kind, !.effective = kind]
    [] kind = "RECONCILED_SUCCEEDED" /\ d.state = "UNKNOWN" /\ ~d.reconciled ->
         [d EXCEPT !.effective = "SUCCEEDED", !.reconciled = TRUE]
    [] kind = "RECONCILED_FAILED" /\ d.state = "UNKNOWN" /\ ~d.reconciled ->
         [d EXCEPT !.effective = "FAILED", !.reconciled = TRUE]
    [] OTHER -> Corrupt

DeriveLoop(events) ==
  IF events = <<>> \/ Head(events) # "PREPARED" THEN Corrupt
  ELSE FoldLeft(Derived, DerivedAt("PREPARED"), Tail(events))

ASSUME LoopAssumption ==
  \A n \in 0..LongestLog : \A events \in [1..n -> Kinds] : DeriveLoop(events) = Derive(events)
=============================================================================
