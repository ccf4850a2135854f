--------------------------- MODULE MCReconciliation ---------------------------
(* Small instances of Reconciliation. *)
EXTENDS Reconciliation, TLC

CONSTANTS r1, r2, s1, s2, v1

FamilyOfRuntime == (r1 :> "LIVE") @@ (r2 :> "REAPER")
SongOfVersion   == v1 :> s1

\* The same points of an automation, keyed by texts and by numbers.
TextKeyed   == {[keyed |-> "text", keys |-> {9, 10}]}
NumberKeyed == {[keyed |-> "number", keys |-> {9, 10}]}

Beyond == <<"artist">>

Few(n) ==
  /\ n.seen + n.batches + n.facts + n.claims + n.cases + n.decisions <= 5
  /\ n.seen + n.claims + n.facts <= 3 /\ n.claims <= 2
  /\ n.batches + n.facts <= 2
  /\ n.cases <= 1 /\ n.decisions <= 1

Alike == Permutations(Workspace) \cup Permutations(Session) \cup Permutations(Location)
=============================================================================
