----------------------------- MODULE ExecuteOnce -----------------------------
(***************************************************************************)
(* What OperationJournal (n0te2/operations.py) promises: an operation is    *)
(* executed at most once, reaches one outcome, and an UNKNOWN outcome is    *)
(* settled at most once by an observation, never by a retry.                *)
(***************************************************************************)
CONSTANT Operation

VARIABLE status

States == {"NONE", "PREPARED", "EXECUTING", "SUCCEEDED", "FAILED", "UNKNOWN",
           "RECONCILED_SUCCEEDED", "RECONCILED_FAILED"}

Outcomes == {"SUCCEEDED", "FAILED", "UNKNOWN"}

Init == status = [o \in Operation |-> "NONE"]

Move(o, from, to) == status[o] = from /\ status' = [status EXCEPT ![o] = to]

Prepare(o)           == Move(o, "NONE", "PREPARED")
Claim(o)             == Move(o, "PREPARED", "EXECUTING")
Record(o, outcome)   == outcome \in Outcomes /\ Move(o, "EXECUTING", outcome)
Reconcile(o, result) == \/ result = "SUCCEEDED" /\ Move(o, "UNKNOWN", "RECONCILED_SUCCEEDED")
                        \/ result = "FAILED" /\ Move(o, "UNKNOWN", "RECONCILED_FAILED")

Next == \E o \in Operation :
  \/ Prepare(o) \/ Claim(o)
  \/ \E outcome \in Outcomes : Record(o, outcome) \/ Reconcile(o, outcome)

Spec == Init /\ [][Next]_status
=============================================================================
