----------------------- MODULE ApplicationRuntimeProofs -----------------------
(***************************************************************************)
(* Proofs about the lease of InstanceLease under any callers, for any set  *)
(* of launches, any bounds and any assignment of workflow identities; then *)
(* about its two callers, ApplicationRuntime and ConsumerLaunch.           *)
(***************************************************************************)
EXTENDS ApplicationLaunch, ConsumerLaunch, TLAPS

-----------------------------------------------------------------------------
(* What one step inside the manager leaves alone *)

\* A step of a call in progress keeps the call counts, moves only its own
\* program counter, and does not end the process.
LEMMA ManagerFrame ==
  ASSUME LeaseTypeOK, NEW p \in Launch, ManagerStep(p)
  PROVE  /\ call' = call
         /\ pc[p] \in Running \cup Releasing
         /\ pc' = [pc EXCEPT ![p] = pc'[p]]
         /\ pc'[p] # "ended"
BY DEF ManagerStep, LeaseTypeOK, Goto, Return, NextAttempt, Conclude, Locals,
       Running, Releasing, ReadMarker, ProbeTaker, LastInspect, RemoveMarkerRead,
       RemoveMarkerUnlink, Inspect, ProbeOwner, CreateLease, FillLease, FillLeaseFails,
       CreateMarker, FillMarker, FillMarkerFails, TakeInspect, ProbeAgain, Archive,
       FillArchive, FillArchiveFails, Recheck, UnlinkLease, ReleaseInspect,
       ReleaseReadMarker, ReleaseUnlink

\* It writes no local variable of another launch.
LEMMA LocalFrame ==
  ASSUME LeaseTypeOK, NEW p \in Launch, ManagerStep(p), NEW q \in Launch \ {p}
  PROVE  /\ mk'[q] = mk[q] /\ seen'[q] = seen[q]
         /\ attempt'[q] = attempt[q] /\ result'[q] = result[q]
BY DEF ManagerStep, LeaseTypeOK, Return, NextAttempt, Conclude, Locals,
       ReadMarker, ProbeTaker, LastInspect, RemoveMarkerRead,
       RemoveMarkerUnlink, Inspect, ProbeOwner, CreateLease, FillLease, FillLeaseFails,
       CreateMarker, FillMarker, FillMarkerFails, TakeInspect, ProbeAgain, Archive,
       FillArchive, FillArchiveFails, Recheck, UnlinkLease, ReleaseInspect,
       ReleaseReadMarker, ReleaseUnlink

\* It leaves lease.json alone, removes it, or puts its own lease there.
LEMMA LeaseEffect ==
  ASSUME NEW p \in Launch, ManagerStep(p), lease' # lease, lease' # NoFile
  PROVE  lease'.lease = Own(p)
BY DEF ManagerStep, Files, Whole, ReadMarker, ProbeTaker, LastInspect, RemoveMarkerRead,
       RemoveMarkerUnlink, Inspect, ProbeOwner, CreateLease, FillLease, FillLeaseFails,
       CreateMarker, FillMarker, FillMarkerFails, TakeInspect, ProbeAgain, Archive,
       FillArchive, FillArchiveFails, Recheck, UnlinkLease, ReleaseInspect,
       ReleaseReadMarker, ReleaseUnlink

\* What its callers may do to it: begin a call, end the process.
Calls(p) == (MayStart(p) /\ BeginAcquire(p)) \/ (Started(p) /\ BeginRelease(p)) \/ Exit(p)

\* Every step of a launch.
Acts(p) == ManagerStep(p) \/ Calls(p)

\* The callers touch no file, no marker or lease a launch has in hand, and no call
\* of another launch.
LEMMA CallerFrame ==
  ASSUME LeaseTypeOK, NEW p \in Launch, Calls(p)
  PROVE  /\ UNCHANGED <<lease, marker, archive, mk, seen, result>>
         /\ pc' = [pc EXCEPT ![p] = pc'[p]]
         /\ \/ pc'[p] \in {"relInspect", "ended"} /\ UNCHANGED <<call, attempt>>
            \/ /\ pc'[p] = "readMarker" /\ MayStart(p)
               /\ call' = [call EXCEPT ![p] = @ + 1] /\ attempt' = [attempt EXCEPT ![p] = 1]
         /\ Ended(p) => pc'[p] = "ended"
BY DEF LeaseTypeOK, Calls, BeginAcquire, BeginRelease, Exit, Die, Goto, Files, Locals, Ended

-----------------------------------------------------------------------------
(* Type correctness *)

\* A launch inside a call counts it, so its lease and its marker have names.
LEMMA OwnInLease ==
  ASSUME LeaseTypeOK, WorkflowInv, NEW p \in Launch, pc[p] \notin {"out", "ended"} \/ Acquired(p)
  PROVE  call[p] \in Call /\ Own(p) \in Lease
BY LaunchAssumption DEF LeaseTypeOK, WorkflowInv, CallersStarted, Started, Call, Own, Lease

\* LeaseTypeOK is inductive with the facts on local variables of LocalInv.
LEMMA TypeStep ==
  ASSUME LeaseTypeOK, WorkflowInv, LocalInv, NEW p \in Launch, Acts(p)
  PROVE  LeaseTypeOK'
<1> USE LaunchAssumption DEF LeaseTypeOK, Goto, Return, Files, Locals, leaseVars
<1>1. CASE ReadMarker(p)
  BY <1>1 DEF ReadMarker, Running, Results, MarkerFile
<1>2. CASE ProbeTaker(p)
  BY <1>2 DEF ProbeTaker, Running
<1>3. CASE LastInspect(p)
  BY <1>3 DEF LastInspect, Results
<1>4. ASSUME NEW own \in BOOLEAN, RemoveMarkerRead(p, own)
      PROVE  LeaseTypeOK'
  BY <1>4 DEF RemoveMarkerRead, NextAttempt, Running, Results, Attempt
<1>5. ASSUME NEW own \in BOOLEAN, RemoveMarkerUnlink(p, own)
      PROVE  LeaseTypeOK'
  BY <1>5 DEF RemoveMarkerUnlink, NextAttempt, Running, Results
<1>6. CASE Inspect(p)
  BY <1>6 DEF Inspect, Running, Results, LeaseFile
<1>7. CASE ProbeOwner(p)
  BY <1>7 DEF ProbeOwner, Running, Results
<1>8. ASSUME NEW fresh \in BOOLEAN, CreateLease(p, fresh)
      PROVE  LeaseTypeOK'
  <2>1. call[p] \in Call /\ Own(p) \in Lease
    BY <1>8, OwnInLease DEF CreateLease
  <2>2. [lease |-> Own(p), whole |-> FALSE] \in LeaseFile
    BY <2>1 DEF LeaseFile
  <2>3. lease' \in LeaseFile \cup {NoFile}
    BY <1>8, <2>2 DEF CreateLease
  <2>4. /\ pc' \in [Launch -> Running \cup Releasing \cup {"out", "ended"}]
        /\ attempt' \in [Launch -> 0..MaxAttempts]
    BY <1>8 DEF CreateLease, NextAttempt, Running
  <2> QED
    BY <1>8, <2>3, <2>4 DEF CreateLease
<1>9. CASE FillLease(p)
  <2>1. Own(p) \in Lease
    BY <1>9, OwnInLease DEF FillLease
  <2>2. Whole(Own(p)) \in LeaseFile
    BY <2>1 DEF LeaseFile, Whole
  <2> QED
    BY <1>9, <2>2 DEF FillLease, Running, Results
<1>10. CASE FillLeaseFails(p)
  BY <1>10 DEF FillLeaseFails, Results
<1>11. CASE CreateMarker(p)
  <2>1. call[p] \in Call /\ attempt[p] \in Attempt /\ seen[p] \in Lease
    BY <1>11, OwnInLease DEF CreateMarker, LocalInv, LocalOK, Running
  <2> DEFINE m == [taker |-> p, call |-> call[p], attempt |-> attempt[p], prev |-> seen[p]]
  <2>2. m \in Marker /\ [marker |-> m, whole |-> FALSE] \in MarkerFile
    BY <2>1 DEF Marker, MarkerFile
  <2>3. marker' \in MarkerFile \cup {NoFile} /\ mk' \in [Launch -> Marker \cup {NoFile}]
    BY <1>11, <2>2 DEF CreateMarker
  <2>4. /\ pc' \in [Launch -> Running \cup Releasing \cup {"out", "ended"}]
        /\ attempt' \in [Launch -> 0..MaxAttempts]
    BY <1>11 DEF CreateMarker, NextAttempt, Running
  <2> QED
    BY <1>11, <2>3, <2>4 DEF CreateMarker
<1>12. CASE FillMarker(p)
  BY <1>12 DEF FillMarker, Running, MarkerFile, WholeMarker
<1>13. CASE FillMarkerFails(p)
  BY <1>13 DEF FillMarkerFails, Results
<1>14. CASE TakeInspect(p)
  BY <1>14 DEF TakeInspect, Conclude, NextAttempt, Running, Results
<1>15. CASE ProbeAgain(p)
  BY <1>15 DEF ProbeAgain, Conclude, Running, Results
<1>16. CASE Archive(p)
  BY <1>16 DEF Archive, Running, Results, LocalInv, LocalOK, UnderMarker, Marker
<1>17. CASE FillArchive(p)
  BY <1>17 DEF FillArchive, Running
<1>18. CASE FillArchiveFails(p)
  BY <1>18 DEF FillArchiveFails, Results
<1>19. CASE Recheck(p)
  BY <1>19 DEF Recheck, NextAttempt, Running, Results
<1>20. CASE UnlinkLease(p)
  BY <1>20 DEF UnlinkLease, Running, Results
<1>21. CASE ReleaseInspect(p)
  BY <1>21 DEF ReleaseInspect, Releasing, Results
<1>22. CASE ReleaseReadMarker(p)
  BY <1>22 DEF ReleaseReadMarker, Releasing, Results
<1>23. CASE ReleaseUnlink(p)
  BY <1>23 DEF ReleaseUnlink, Results
<1>24. CASE MayStart(p) /\ BeginAcquire(p)
  BY <1>24 DEF BeginAcquire, Running
<1>25. CASE BeginRelease(p)
  BY <1>25 DEF BeginRelease, Releasing
<1>26. CASE Exit(p)
  BY <1>26 DEF Exit, Die
<1> QED
  BY <1>1, <1>2, <1>3, <1>4, <1>5, <1>6, <1>7, <1>8, <1>9, <1>10, <1>11, <1>12, <1>13,
     <1>14, <1>15, <1>16, <1>17, <1>18, <1>19, <1>20, <1>21, <1>22, <1>23, <1>24, <1>25,
     <1>26 DEF Acts, Calls, ManagerStep

-----------------------------------------------------------------------------
(* The other parts of BaseInv *)

\* What a step of a call leaves in its own local variables, and in the marker, was on
\* disk or in a local variable before.
LEMMA NamesStep ==
  ASSUME LeaseTypeOK, WorkflowInv, LocalInv, NEW p \in Launch, ManagerStep(p)
  PROVE  /\ mk'[p] # NoFile => mk'[p].taker \in Callers /\ mk'[p].prev.owner \in Callers
         /\ seen'[p] # NoFile => seen'[p].owner \in Callers
         /\ marker' # NoFile => /\ marker'.marker.taker \in Callers
                               /\ marker'.marker.prev.owner \in Callers
         /\ Acquired(p)' => Started(p)
<1>1. /\ Started(p) /\ p \in Callers
      /\ pc[p] = "createMarker" => seen[p] # NoFile
      /\ pc[p] = "fillMarker" => mk[p] # NoFile
  BY ManagerFrame, LaunchAssumption
  DEF WorkflowInv, CallersStarted, LocalInv, LocalOK, Running, Releasing, LeaseTypeOK, Started,
     MarkerFile, LeaseFile, Callers
<1>2. CASE \E own \in BOOLEAN : RemoveMarkerRead(p, own) \/ RemoveMarkerUnlink(p, own)
  BY <1>1, <1>2 DEF RemoveMarkerRead, RemoveMarkerUnlink, WorkflowInv, NamesStarted,
     CallersStarted, LeaseTypeOK, Files, Locals, Return,
     NextAttempt, Acquired, Started
<1>3. CASE CreateMarker(p)
  BY <1>1, <1>3 DEF CreateMarker, WorkflowInv, NamesStarted, CallersStarted, LeaseTypeOK, Acquired, Started
<1>4. CASE ReadMarker(p) \/ Inspect(p) \/ FillMarker(p) \/ FillMarkerFails(p)
  BY <1>1, <1>4 DEF ReadMarker, Inspect, FillMarker, FillMarkerFails, WholeMarker, WorkflowInv,
     NamesStarted, CallersStarted,
     LeaseTypeOK, Files, Locals, Return, Acquired, Started
<1>5. CASE UNCHANGED <<mk, seen, marker>>
  BY <1>1, <1>5 DEF WorkflowInv, NamesStarted, CallersStarted, LeaseTypeOK, Started
<1> QED
  BY <1>2, <1>3, <1>4, <1>5 DEF ManagerStep, Files, Locals, ProbeTaker, LastInspect, ProbeOwner,
     CreateLease, FillLease, FillLeaseFails, TakeInspect, ProbeAgain, Archive, FillArchive,
     FillArchiveFails, Recheck, UnlinkLease, ReleaseInspect, ReleaseReadMarker, ReleaseUnlink

\* A started launch is one whose call count is not zero; acquire alone starts
\* one, and only while no living launch has its workflow identity.
LEMMA WorkflowStep ==
  ASSUME LeaseTypeOK, WorkflowInv, LocalInv, NEW p \in Launch, Acts(p)
  PROVE  WorkflowInv'
<1>1. CASE ManagerStep(p)
  <2>1. call' = call /\ pc' = [pc EXCEPT ![p] = pc'[p]] /\ pc'[p] # "ended"
    BY <1>1, ManagerFrame
  <2>2. Started(p) /\ pc[p] # "ended"
    BY <1>1, ManagerFrame DEF Running, Releasing, WorkflowInv, CallersStarted
  <2>3. lease' # NoFile => lease'.lease.owner \in Callers
    <3>1. CASE lease' = lease
      BY <3>1 DEF WorkflowInv, NamesStarted
    <3>2. CASE lease' # lease /\ lease' # NoFile
      <4>1. lease'.lease = Own(p)
        BY <1>1, <3>2, LeaseEffect
      <4> QED
        BY <2>2, <4>1 DEF Own, Callers
    <3> QED
      BY <3>1, <3>2
  <2>4. \A q \in Launch \ {p} : mk'[q] = mk[q] /\ seen'[q] = seen[q] /\ result'[q] = result[q]
    BY <1>1, LocalFrame
  <2>5. \A q \in Launch : Acquired(q)' => Started(q)
    BY <1>1, <2>4, NamesStep DEF WorkflowInv, CallersStarted, Acquired
  <2>6. \A q \in Launch :
          /\ mk'[q] # NoFile => mk'[q].taker \in Callers /\ mk'[q].prev.owner \in Callers
          /\ seen'[q] # NoFile => seen'[q].owner \in Callers
    BY <1>1, <2>4, NamesStep DEF WorkflowInv, NamesStarted
  <2>7. marker' # NoFile => marker'.marker.taker \in Callers /\ marker'.marker.prev.owner \in Callers
    BY <1>1, NamesStep
  <2>8. \A q \in Launch : pc'[q] \notin {"out", "ended"} => Started(q)
    BY <2>1, <2>2 DEF WorkflowInv, CallersStarted, LeaseTypeOK
  <2> QED
    <3>1. \A q : Started(q)' <=> Started(q)
      BY <2>1 DEF Started
    <3>2. \A q \in Launch : Ended(q)' <=> Ended(q)
      BY <2>1, <2>2 DEF Ended, LeaseTypeOK
    <3>3. ASSUME NEW q \in Launch, NEW r \in Launch, q # r, SameWorkflow(q, r), Started(q)', Started(r)'
          PROVE  Ended(q)' \/ Ended(r)'
      BY <3>1, <3>2, <3>3 DEF WorkflowInv, LivesFollow
    <3>4. LivesFollow'
      BY <3>3 DEF LivesFollow, SameWorkflow
    <3>5. Callers' = Callers
      BY <3>1 DEF Callers
    <3>6. NamesStarted'
      BY <2>3, <2>6, <2>7, <3>5 DEF NamesStarted
    <3>7. CallersStarted'
      BY <2>5, <2>8, <3>1 DEF CallersStarted
    <3> QED
      BY <3>4, <3>6, <3>7 DEF WorkflowInv
<1>2. CASE Calls(p)
  <2>1. /\ UNCHANGED <<lease, marker, mk, seen, result>>
        /\ pc' = [pc EXCEPT ![p] = pc'[p]]
        /\ Ended(p) => pc'[p] = "ended"
        /\ \/ pc'[p] \in {"relInspect", "ended"} /\ UNCHANGED call
           \/ MayStart(p) /\ call' = [call EXCEPT ![p] = @ + 1]
    BY <1>2, CallerFrame
  <2>2. pc'[p] = "relInspect" => Started(p)
    BY <1>2 DEF Calls, BeginAcquire, BeginRelease, Exit, Die, Goto, LeaseTypeOK
  <2>3. \A q \in Launch : call[q] \in Nat /\ call'[q] \in Nat /\ call'[q] >= call[q]
    BY <2>1, LaunchAssumption DEF LeaseTypeOK
  <2>4. \A q \in Launch : Started(q) => Started(q)'
    BY <2>3 DEF Started
  <2>5. \A q \in Launch \ {p} : (Started(q)' <=> Started(q)) /\ (Ended(q)' <=> Ended(q))
    BY <2>1 DEF Started, Ended, LeaseTypeOK
  <2>6. ASSUME NEW q \in Launch, NEW r \in Launch, q # r, SameWorkflow(q, r), Started(q)', Started(r)'
        PROVE  Ended(q)' \/ Ended(r)'
    <3>1. CASE q = p \/ r = p
      <4>1. PICK t \in {q, r} : t # p
        BY <2>6
      <4>2. SameWorkflow(p, t) /\ Started(t)
        BY <2>5, <2>6, <3>1, <4>1 DEF SameWorkflow
      <4>3. CASE MayStart(p)
        BY <2>5, <4>1, <4>2, <4>3 DEF MayStart
      <4>4. CASE Started(p)
        BY <2>1, <2>5, <3>1, <4>1, <4>2, <4>4 DEF WorkflowInv, LivesFollow, Ended
      <4>5. CASE ~MayStart(p) /\ ~Started(p)
        BY <2>1, <2>6, <3>1, <4>5 DEF Started
      <4> QED
        BY <4>3, <4>4, <4>5
    <3>2. CASE q # p /\ r # p
      BY <2>5, <2>6, <3>2 DEF WorkflowInv, LivesFollow
    <3> QED
      BY <3>1, <3>2
  <2>7. \A q \in Launch : pc'[q] \notin {"out", "ended"} \/ Acquired(q)' => Started(q)'
    <3> SUFFICES ASSUME NEW q \in Launch, pc'[q] \notin {"out", "ended"} \/ Acquired(q)' PROVE Started(q)'
      OBVIOUS
    <3>1. CASE q # p \/ Acquired(q)'
      BY <2>1, <2>4, <3>1 DEF WorkflowInv, CallersStarted, Acquired, LeaseTypeOK
    <3>2. CASE q = p /\ pc'[p] = "relInspect"
      BY <2>2, <2>4, <3>2
    <3>3. CASE q = p /\ call' = [call EXCEPT ![p] = @ + 1]
      BY <2>3, <3>3 DEF Started, LeaseTypeOK
    <3> QED
      BY <2>1, <3>1, <3>2, <3>3 DEF LeaseTypeOK
  <2> QED
    <3>1. LivesFollow'
      BY <2>6 DEF LivesFollow, SameWorkflow
    <3>2. NamesStarted'
      <4>1. Callers \subseteq Callers'
        BY <2>4 DEF Callers
      <4> QED
        BY <2>1, <4>1 DEF NamesStarted, WorkflowInv
    <3>3. CallersStarted'
      BY <2>7 DEF CallersStarted
    <3> QED
      BY <3>1, <3>2, <3>3 DEF WorkflowInv
<1> QED
  BY <1>1, <1>2 DEF Acts

\* No process comes back from the dead.
LEMMA EndedStays ==
  ASSUME LeaseTypeOK, NEW p \in Launch, Acts(p), NEW q \in Launch, Ended(q)
  PROVE  Ended(q)'
<1>1. CASE ManagerStep(p)
  BY <1>1, ManagerFrame DEF Ended, LeaseTypeOK, Running, Releasing
<1>2. CASE ~ManagerStep(p)
  BY <1>2, CallerFrame DEF Acts, Ended, LeaseTypeOK
<1> QED
  BY <1>1, <1>2

\* A step of a call keeps the local variables of its launch fit for the next
\* step.  A launch is declared dead by a probe that found nobody with its
\* workflow identity alive, or by another launch that has that identity.
LEMMA ManagerLocalStep ==
  ASSUME LeaseTypeOK, WorkflowInv, NEW p \in Launch, LocalOK(p), ManagerStep(p)
  PROVE  LocalOK(p)'
<1> USE LaunchAssumption
    DEF LeaseTypeOK, LocalOK, Goto, Return, Files, Locals, Running, UnderMarker, Ended
<1>1. CASE ReadMarker(p)
  BY <1>1 DEF ReadMarker, MarkerFile
<1>2. CASE ProbeTaker(p)
  BY <1>2 DEF ProbeTaker, Probe, SameWorkflow, Marker, WorkflowInv, NamesStarted, Callers
<1>3. CASE LastInspect(p)
  BY <1>3 DEF LastInspect
<1>4. ASSUME NEW own \in BOOLEAN, RemoveMarkerRead(p, own) PROVE LocalOK(p)'
  BY <1>4 DEF RemoveMarkerRead, NextAttempt, Attempt
<1>5. ASSUME NEW own \in BOOLEAN, RemoveMarkerUnlink(p, own) PROVE LocalOK(p)'
  BY <1>5 DEF RemoveMarkerUnlink, NextAttempt, Attempt
<1>6. CASE Inspect(p)
  BY <1>6 DEF Inspect, LeaseFile
<1>7. CASE ProbeOwner(p)
  BY <1>7 DEF ProbeOwner
<1>8. ASSUME NEW fresh \in BOOLEAN, CreateLease(p, fresh) PROVE LocalOK(p)'
  BY <1>8 DEF CreateLease, NextAttempt, Attempt
<1>9. CASE FillLease(p)
  BY <1>9 DEF FillLease
<1>10. CASE FillLeaseFails(p)
  BY <1>10 DEF FillLeaseFails
<1>11. CASE CreateMarker(p)
  <2>1. call[p] \in Call /\ attempt[p] \in Attempt /\ seen[p] \in Lease
    BY <1>11, OwnInLease DEF CreateMarker
  <2> DEFINE m == [taker |-> p, call |-> call[p], attempt |-> attempt[p], prev |-> seen[p]]
  <2>2. m \in Marker /\ m.taker = p
    BY <2>1 DEF Marker
  <2> QED
    BY <1>11, <2>2 DEF CreateMarker, NextAttempt, Attempt
<1>12. CASE FillMarker(p)
  BY <1>12 DEF FillMarker
<1>13. CASE FillMarkerFails(p)
  BY <1>13 DEF FillMarkerFails
<1>14. CASE TakeInspect(p)
  <2>1. pc'[p] = "archive" => Ended(mk[p].prev.owner)
    <3> SUFFICES ASSUME pc'[p] = "archive" PROVE Ended(mk[p].prev.owner)
      OBVIOUS
    <3>1. /\ lease = Whole(mk[p].prev) /\ ReusedWorkflow(mk[p].prev.owner, p)
          /\ pc[p] = "takeInspect"
      BY <1>14 DEF TakeInspect, Conclude, NextAttempt
    <3>2. mk[p].prev \in Lease /\ mk[p].prev.owner \in Launch
      BY <3>1 DEF Marker, Lease
    <3>3. lease # NoFile /\ lease.lease = mk[p].prev
      <4>1. Whole(mk[p].prev) \in LeaseFile
        BY <3>2 DEF Whole, LeaseFile
      <4> QED
        BY <3>1, <4>1 DEF Whole
    <3> QED
      BY <3>1, <3>2, <3>3 DEF WorkflowInv, CallersStarted, LivesFollow, NamesStarted, Callers, ReusedWorkflow
  <2>2. attempt'[p] \in Attempt /\ mk' = mk /\ pc' = [pc EXCEPT ![p] = pc'[p]]
    BY <1>14 DEF TakeInspect, Conclude, NextAttempt, Attempt
  <2>3. pc'[p] \notin {"recheck", "fillArchive", "unlinkLease", "cleanRead", "probeTaker",
                   "cleanUnlink", "probeOwner", "createMarker", "fillMarker"}
    BY <1>14 DEF TakeInspect, Conclude, NextAttempt
  <2>4. Ended(mk[p].prev.owner) => pc'[mk[p].prev.owner] = "ended"
    BY <1>14, <2>2 DEF TakeInspect, Marker, Lease
  <2> QED
    BY <1>14, <2>1, <2>2, <2>3, <2>4 DEF TakeInspect
<1>15. CASE ProbeAgain(p)
  BY <1>15 DEF ProbeAgain, Conclude, Probe, SameWorkflow, Marker, Lease, WorkflowInv, NamesStarted, Callers
<1>16. CASE Archive(p)
  BY <1>16 DEF Archive, Marker, Lease
<1>17. CASE FillArchive(p)
  BY <1>17 DEF FillArchive, Marker, Lease
<1>18. CASE FillArchiveFails(p)
  BY <1>18 DEF FillArchiveFails
<1>19. CASE Recheck(p)
  BY <1>19 DEF Recheck, NextAttempt, Attempt, Marker, Lease
<1>20. CASE UnlinkLease(p)
  BY <1>20 DEF UnlinkLease
<1>21. CASE ReleaseInspect(p)
  BY <1>21 DEF ReleaseInspect
<1>22. CASE ReleaseReadMarker(p)
  BY <1>22 DEF ReleaseReadMarker
<1>23. CASE ReleaseUnlink(p)
  BY <1>23 DEF ReleaseUnlink
<1> QED
  BY <1>1, <1>2, <1>3, <1>4, <1>5, <1>6, <1>7, <1>8, <1>9, <1>10, <1>11, <1>12, <1>13,
     <1>14, <1>15, <1>16, <1>17, <1>18, <1>19, <1>20, <1>21, <1>22, <1>23 DEF
     ManagerStep

\* LocalInv is preserved: a step writes its own variables only, and the dead
\* stay dead for the launches that rely on it.
LEMMA LocalStep ==
  ASSUME LeaseTypeOK, WorkflowInv, LocalInv, NEW p \in Launch, Acts(p)
  PROVE  LocalInv'
<1> SUFFICES ASSUME NEW q \in Launch PROVE LocalOK(q)'
  BY DEF LocalInv
<1>1. LocalOK(q)
  BY DEF LocalInv
<1>2. CASE ManagerStep(p) /\ q = p
  BY <1>1, <1>2, ManagerLocalStep
<1>3. CASE ~(ManagerStep(p) /\ q = p)
  <2>1. /\ mk'[q] = mk[q] /\ seen'[q] = seen[q]
        /\ \/ attempt'[q] = attempt[q] /\ pc'[q] \in {pc[q], "relInspect", "ended"}
           \/ attempt'[q] = 1 /\ pc'[q] = "readMarker"
    <3>1. CASE ManagerStep(p)
      <4>1. ManagerStep(p) /\ q \in Launch \ {p}
        BY <1>3, <3>1
      <4>2. pc' = [pc EXCEPT ![p] = pc'[p]]
        BY <4>1, ManagerFrame
      <4> QED
        BY <4>1, <4>2, LocalFrame DEF LeaseTypeOK
    <3>2. CASE ~ManagerStep(p)
      BY <3>2, CallerFrame DEF Acts, LeaseTypeOK
    <3> QED
      BY <3>1, <3>2
  <2>2. pc'[q] \in Running => attempt'[q] \in Attempt
    BY <1>1, <2>1, LaunchAssumption DEF LocalOK, Attempt, Running
  <2>3. mk[q] \in Marker => mk[q].taker \in Launch /\ mk[q].prev.owner \in Launch
    BY DEF Marker, Lease
  <2>4. \A r \in Launch : Ended(r) => pc'[r] = "ended"
    BY EndedStays DEF Ended
  <2> QED
    BY <1>1, <2>1, <2>2, <2>3, <2>4 DEF LocalOK, Running, UnderMarker, Ended
<1> QED
  BY <1>2, <1>3

\* The archive grows by the lease a takeover found dead.
LEMMA StaleStep ==
  ASSUME LeaseTypeOK, LocalInv, OnlyTheEndedAreStale, NEW p \in Launch, Acts(p)
  PROVE  OnlyTheEndedAreStale'
<1> SUFFICES ASSUME NEW l \in Lease, archive'[l] # "absent" PROVE pc'[l.owner] = "ended"
  BY DEF OnlyTheEndedAreStale, Ended
<1>1. archive[l] # "absent" \/ (l = mk[p].prev /\ pc[p] \in {"archive", "fillArchive"})
  BY CallerFrame DEF Acts, LeaseTypeOK, ManagerStep, Files,
     Goto, Return, ReadMarker, ProbeTaker, LastInspect, RemoveMarkerRead,
     RemoveMarkerUnlink, Inspect, ProbeOwner, CreateLease, FillLease, FillLeaseFails,
     CreateMarker, FillMarker, FillMarkerFails, TakeInspect, ProbeAgain, Archive,
     FillArchive, FillArchiveFails, Recheck, UnlinkLease, ReleaseInspect,
     ReleaseReadMarker, ReleaseUnlink
<1>2. Ended(l.owner)
  BY <1>1 DEF OnlyTheEndedAreStale, LocalInv, LocalOK
<1>3. l.owner \in Launch
  BY DEF Lease
<1> QED
  BY <1>2, <1>3, EndedStays DEF Ended

\* The initial states: nobody has asked, or an ended launch left its lease behind.
LEMMA BaseInit == LeaseInit => BaseInv
<1> SUFFICES ASSUME LeaseInit PROVE BaseInv
  OBVIOUS
<1> USE LaunchAssumption DEF LeaseInit
<1>1. LeaseTypeOK
  <2>1. lease \in LeaseFile \cup {NoFile}
    <3>1. ASSUME NEW p \in Past PROVE [owner |-> p, call |-> 1] \in Lease
      BY DEF Lease, Call
    <3>2. ASSUME NEW p \in Past PROVE Whole([owner |-> p, call |-> 1]) \in LeaseFile
      BY <3>1 DEF Whole, LeaseFile
    <3> QED
      BY <3>2
  <2> QED
    BY <2>1 DEF LeaseTypeOK, Results
<1>2. WorkflowInv
  BY DEF WorkflowInv, CallersStarted, LivesFollow, NamesStarted, Callers, Started, Ended, Whole, Acquired
<1>3. LocalInv
  BY DEF LocalInv, LocalOK, Running, UnderMarker
<1>4. OnlyTheEndedAreStale
  BY DEF OnlyTheEndedAreStale
<1> QED
  BY <1>1, <1>2, <1>3, <1>4 DEF BaseInv

\* The steps of LeaseNext are those of Acts.
LEMMA LeaseActs == LeaseNext <=> \E p \in Launch : Acts(p)
BY DEF LeaseNext, Acts, Calls

\* BaseInv is inductive.
LEMMA BaseStep == BaseInv /\ [LeaseNext]_leaseVars => BaseInv'
<1> SUFFICES ASSUME BaseInv, [LeaseNext]_leaseVars PROVE BaseInv'
  OBVIOUS
<1>1. CASE LeaseNext
  <2>1. PICK p \in Launch : Acts(p)
    BY <1>1, LeaseActs
  <2> QED
    BY <2>1, TypeStep, WorkflowStep, LocalStep, StaleStep DEF BaseInv
<1>2. CASE UNCHANGED leaseVars
  BY <1>2 DEF leaseVars, BaseInv, LeaseTypeOK, WorkflowInv, CallersStarted, LivesFollow, NamesStarted,
     Callers, Started, Ended, SameWorkflow, LocalInv, LocalOK, OnlyTheEndedAreStale, Acquired
<1> QED
  BY <1>1, <1>2

\* BaseInv holds of every behaviour, orphaned markers included.
THEOREM BaseInvariant == LeaseSpec => []BaseInv
BY BaseInit, BaseStep, PTL DEF LeaseSpec

\* stale/ never names the lease of a living launch, whoever calls the manager: the
\* probes of _complete_owned_takeover, and the exact identity of a launch that
\* reuses a workflow, are enough for that under every interleaving.
THEOREM StaleMeansEnded == LeaseSpec => []OnlyTheEndedAreStale
<1>1. BaseInv => OnlyTheEndedAreStale
  BY DEF BaseInv
<1> QED
  BY <1>1, BaseInvariant, PTL

-----------------------------------------------------------------------------
(* Without orphaned markers *)

\* The marker in the hand of a launch that is in a takeover.
InTakeover(p) == pc[p] = "fillMarker" \/ pc[p] \in UnderMarker

\* A path that holds a marker is not free.
LEMMA MarkerIsAFile ==
  ASSUME NEW m \in Marker, NEW b \in BOOLEAN
  PROVE  [marker |-> m, whole |-> b] # NoFile
<1>1. [marker |-> m, whole |-> b] \in MarkerFile
  BY DEF MarkerFile
<1> QED
  BY <1>1, LaunchAssumption

\* A launch in a takeover finds its own marker on disk.
LEMMA TakeoverMarker ==
  ASSUME BaseInv, MarkerInv, NEW p \in Launch, InTakeover(p)
  PROVE  /\ mk[p] \in Marker
         /\ marker # NoFile /\ marker.marker = mk[p] /\ mk[p].taker = p
<1>1. mk[p] \in Marker /\ mk[p].taker = p
  BY DEF BaseInv, LocalInv, LocalOK, InTakeover
<1>2. \E b \in BOOLEAN : marker = [marker |-> mk[p], whole |-> b]
  BY DEF MarkerInv, MarkerOK, InTakeover, WholeMarker
<1> QED
  BY <1>1, <1>2, MarkerIsAFile

\* A living taker's marker is not cleaned: the launch that reads it would have
\* to find the taker dead.
LEMMA NobodyCleans ==
  ASSUME BaseInv, MarkerInv, NEW p \in Launch, pc[p] = "cleanRead"
  PROVE  marker # WholeMarker(mk[p])
<1>1. mk[p] \in Marker /\ Ended(mk[p].taker)
  BY DEF BaseInv, LocalInv, LocalOK
<1>2. WholeMarker(mk[p]) # NoFile
  BY <1>1, MarkerIsAFile DEF WholeMarker
<1> QED
  BY <1>1, <1>2 DEF MarkerInv, WholeMarker

\* takeover.json changes only by the hand of the launch whose marker it holds,
\* or of one that finds it free.
LEMMA MarkerEffect ==
  ASSUME BaseInv, MarkerInv, NEW p \in Launch, ManagerStep(p), marker' # marker
  PROVE  \/ /\ marker = NoFile /\ pc'[p] = "fillMarker" /\ mk'[p].taker = p
            /\ marker' = [marker |-> mk'[p], whole |-> FALSE]
         \/ /\ pc[p] = "fillMarker" /\ pc'[p] = "takeInspect" /\ mk'[p] = mk[p]
            /\ marker' = WholeMarker(mk[p])
         \/ /\ InTakeover(p) /\ pc'[p] = "out"
            /\ marker' = NoFile
<1> USE DEF BaseInv, LeaseTypeOK, MarkerInv, MarkerOK, UnderMarker, InTakeover
<1> QED
  BY DEF ManagerStep, Files, Locals, Goto, Return, NextAttempt, Conclude, ReadMarker,
     ProbeTaker, LastInspect, RemoveMarkerRead, RemoveMarkerUnlink, Inspect,
     ProbeOwner, CreateLease, FillLease, FillLeaseFails, CreateMarker, FillMarker,
     FillMarkerFails, TakeInspect, ProbeAgain, Archive, FillArchive, FillArchiveFails,
     Recheck, UnlinkLease, ReleaseInspect, ReleaseReadMarker, ReleaseUnlink

\* What a step of a call keeps of its own marker.
LEMMA OwnMarkerStep ==
  ASSUME BaseInv, MarkerInv, NEW p \in Launch, ManagerStep(p)
  PROVE  MarkerOK(p)'
<1> USE DEF BaseInv, LeaseTypeOK, MarkerInv, MarkerOK, UnderMarker, Goto, Return, Files, Locals
<1>1. CASE ReadMarker(p)
  BY <1>1 DEF ReadMarker, WholeMarker, MarkerFile
<1>2. CASE ProbeTaker(p)
  BY <1>2 DEF ProbeTaker
<1>3. CASE LastInspect(p)
  BY <1>3 DEF LastInspect
<1>4. ASSUME NEW own \in BOOLEAN, RemoveMarkerRead(p, own) PROVE MarkerOK(p)'
  BY <1>4, NobodyCleans DEF RemoveMarkerRead, NextAttempt
<1>5. ASSUME NEW own \in BOOLEAN, RemoveMarkerUnlink(p, own) PROVE MarkerOK(p)'
  BY <1>5 DEF RemoveMarkerUnlink, NextAttempt
<1>6. CASE Inspect(p)
  BY <1>6 DEF Inspect
<1>7. CASE ProbeOwner(p)
  BY <1>7 DEF ProbeOwner
<1>8. ASSUME NEW fresh \in BOOLEAN, CreateLease(p, fresh) PROVE MarkerOK(p)'
  BY <1>8 DEF CreateLease, NextAttempt
<1>9. CASE FillLease(p)
  BY <1>9 DEF FillLease
<1>10. CASE FillLeaseFails(p)
  BY <1>10 DEF FillLeaseFails
<1>11. CASE CreateMarker(p)
  BY <1>11 DEF CreateMarker, NextAttempt
<1>12. CASE FillMarker(p)
  BY <1>12, TakeoverMarker DEF FillMarker, InTakeover
<1>13. CASE FillMarkerFails(p)
  BY <1>13 DEF FillMarkerFails
<1>14. CASE TakeInspect(p)
  BY <1>14 DEF TakeInspect, NextAttempt, Conclude
<1>15. CASE ProbeAgain(p)
  BY <1>15 DEF ProbeAgain, Conclude
<1>16. CASE Archive(p)
  BY <1>16 DEF Archive
<1>17. CASE FillArchive(p)
  BY <1>17 DEF FillArchive
<1>18. CASE FillArchiveFails(p)
  BY <1>18 DEF FillArchiveFails
<1>19. CASE Recheck(p)
  BY <1>19 DEF Recheck, NextAttempt
<1>20. CASE UnlinkLease(p)
  BY <1>20 DEF UnlinkLease
<1>21. CASE ReleaseInspect(p)
  BY <1>21 DEF ReleaseInspect
<1>22. CASE ReleaseReadMarker(p)
  BY <1>22 DEF ReleaseReadMarker
<1>23. CASE ReleaseUnlink(p)
  BY <1>23 DEF ReleaseUnlink
<1> QED
  BY <1>1, <1>2, <1>3, <1>4, <1>5, <1>6, <1>7, <1>8, <1>9, <1>10, <1>11, <1>12, <1>13,
     <1>14, <1>15, <1>16, <1>17, <1>18, <1>19, <1>20, <1>21, <1>22, <1>23 DEF
     ManagerStep

\* MarkerInv is preserved while no launch ends in a takeover of its own.
LEMMA MarkerStep ==
  ASSUME OrphanedMarkers = FALSE, BaseInv, MarkerInv, NEW p \in Launch, Acts(p)
  PROVE  MarkerInv'
<1> USE DEF BaseInv, LeaseTypeOK
<1>1. CASE ManagerStep(p)
  <2>1. ManagerStep(p) /\ pc' = [pc EXCEPT ![p] = pc'[p]] /\ pc[p] # "ended" /\ pc'[p] # "ended"
    BY <1>1, ManagerFrame DEF Running, Releasing
  <2>2. marker' # NoFile => pc'[marker'.marker.taker] # "ended"
    <3>1. CASE marker' = marker
      BY <2>1, <3>1 DEF MarkerInv, Ended, MarkerFile, Marker
    <3>2. CASE marker' # marker /\ marker' # NoFile
      <4>1. marker'.marker.taker = p
        BY <2>1, <3>2, MarkerEffect, TakeoverMarker DEF InTakeover, WholeMarker
      <4> QED
        BY <2>1, <4>1
    <3> QED
      BY <3>1, <3>2
  <2>3. ASSUME NEW q \in Launch \ {p} PROVE MarkerOK(q)'
    <3>1. mk'[q] = mk[q] /\ pc'[q] = pc[q]
      BY <2>1, LocalFrame
    <3>2. marker' # marker => ~InTakeover(q)
      <4>1. InTakeover(q) => marker # NoFile /\ marker.marker.taker = q
        BY TakeoverMarker
      <4>2. InTakeover(p) => marker.marker.taker = p
        BY TakeoverMarker
      <4>3. marker' # marker => marker = NoFile \/ InTakeover(p)
        BY <2>1, MarkerEffect DEF InTakeover
      <4> QED
        BY <4>1, <4>2, <4>3
    <3> QED
      BY <3>1, <3>2 DEF MarkerInv, MarkerOK, InTakeover
  <2> QED
    <3>1. MarkerOK(p)'
      BY <2>1, OwnMarkerStep
    <3> QED
      BY <2>2, <2>3, <3>1 DEF MarkerInv, Ended
<1>2. CASE Calls(p)
  <2>1. /\ UNCHANGED <<marker, mk>>
        /\ pc' = [pc EXCEPT ![p] = pc'[p]]
        /\ pc'[p] \in {"readMarker", "relInspect", "ended"}
    BY <1>2, CallerFrame
  <2>2. marker # NoFile /\ pc'[p] = "ended" => pc[p] = "ended" \/ marker.marker.taker # p
    BY <1>2 DEF Calls, Exit, HasMarker, BeginAcquire, BeginRelease, Goto
  <2>3. marker' # NoFile => pc'[marker'.marker.taker] # "ended"
    BY <2>1, <2>2 DEF MarkerInv, Ended, MarkerFile, Marker
  <2>4. ASSUME NEW q \in Launch PROVE MarkerOK(q)'
    BY <2>1 DEF MarkerInv, MarkerOK, UnderMarker
  <2> QED
    BY <2>3, <2>4 DEF MarkerInv, Ended
<1> QED
  BY <1>1, <1>2 DEF Acts

\* A path that holds a lease is not free.
LEMMA LeaseIsAFile ==
  ASSUME NEW l \in Lease, NEW b \in BOOLEAN
  PROVE  [lease |-> l, whole |-> b] # NoFile
<1>1. [lease |-> l, whole |-> b] \in LeaseFile
  BY DEF LeaseFile
<1> QED
  BY <1>1, LaunchAssumption

\* The launch relies on its own lease, or is writing it.
Keeps(p) == Holds(p) \/ pc[p] \in {"fillLease", "fillReplacement"}

\* Such a launch lives, and lease.json names it.
LEMMA KeeperOfTheLease ==
  ASSUME BaseInv, HolderInv, NEW p \in Launch, Keeps(p)
  PROVE  ~Ended(p) /\ lease # NoFile /\ lease.lease.owner = p
<1>1. ~Ended(p) /\ (pc[p] \notin {"out", "ended"} \/ Acquired(p))
  BY DEF Keeps, Holds, Owns, Ended
<1>2. Own(p) \in Lease /\ Own(p).owner = p
  BY <1>1, LaunchAssumption
  DEF BaseInv, LeaseTypeOK, WorkflowInv, CallersStarted, Started, Own, Lease, Call
<1>3. \E b \in BOOLEAN : lease = [lease |-> Own(p), whole |-> b]
  BY DEF HolderInv, HolderOK, Keeps, Whole
<1> QED
  BY <1>1, <1>2, <1>3, LeaseIsAFile

\* The lease a takeover is about to unlink is the one it found dead.
LEMMA UnlinkedLease ==
  ASSUME BaseInv, HolderInv, NEW p \in Launch, pc[p] = "unlinkLease"
  PROVE  lease # NoFile /\ lease.lease.owner \in Launch /\ Ended(lease.lease.owner)
<1>1. mk[p].prev \in Lease /\ mk[p].prev.owner \in Launch /\ Ended(mk[p].prev.owner)
  BY DEF BaseInv, LocalInv, LocalOK, UnderMarker, Marker, Lease
<1>2. lease = Whole(mk[p].prev)
  BY DEF HolderInv, HolderOK
<1>3. Whole(mk[p].prev) # NoFile
  BY <1>1, LeaseIsAFile DEF Whole
<1> QED
  BY <1>1, <1>2, <1>3 DEF Whole

\* lease.json changes only by the hand of a launch that finds it free, keeps
\* it, or is at the unlink of a takeover.
LEMMA LeaseChange ==
  ASSUME BaseInv, HolderInv, NEW p \in Launch, ManagerStep(p), lease' # lease
  PROVE  lease = NoFile \/ Keeps(p) \/ pc[p] = "unlinkLease"
BY DEF ManagerStep, Files, Goto, Return, NextAttempt, Conclude, Keeps, Holds,
   ReadMarker, ProbeTaker, LastInspect, RemoveMarkerRead, RemoveMarkerUnlink, Inspect,
   ProbeOwner, CreateLease, FillLease, FillLeaseFails, CreateMarker, FillMarker,
   FillMarkerFails, TakeInspect, ProbeAgain, Archive, FillArchive, FillArchiveFails,
   Recheck, UnlinkLease, ReleaseInspect, ReleaseReadMarker, ReleaseUnlink

\* What a step of a call keeps of its own claims on the lease.
LEMMA OwnHolderStep ==
  ASSUME BaseInv, MarkerInv, HolderInv, NEW p \in Launch, ManagerStep(p)
  PROVE  HolderOK(p)'
<1> USE DEF BaseInv, LeaseTypeOK, HolderInv, HolderOK, Holds, Owns, Acquired, Own,
        Running, Releasing, Goto, Return, Files, Locals
<1>1. CASE ReadMarker(p)
  BY <1>1 DEF ReadMarker
<1>2. CASE ProbeTaker(p)
  BY <1>2 DEF ProbeTaker
<1>3. CASE LastInspect(p)
  BY <1>3 DEF LastInspect
<1>4. ASSUME NEW own \in BOOLEAN, RemoveMarkerRead(p, own) PROVE HolderOK(p)'
  BY <1>4 DEF RemoveMarkerRead, NextAttempt, MarkerInv, MarkerOK
<1>5. ASSUME NEW own \in BOOLEAN, RemoveMarkerUnlink(p, own) PROVE HolderOK(p)'
  BY <1>5 DEF RemoveMarkerUnlink, NextAttempt, MarkerInv, MarkerOK
<1>6. CASE Inspect(p)
  BY <1>6 DEF Inspect
<1>7. CASE ProbeOwner(p)
  BY <1>7 DEF ProbeOwner
<1>8. ASSUME NEW fresh \in BOOLEAN, CreateLease(p, fresh) PROVE HolderOK(p)'
  BY <1>8 DEF CreateLease, NextAttempt
<1>9. CASE FillLease(p)
  BY <1>9, KeeperOfTheLease DEF FillLease, Keeps
<1>10. CASE FillLeaseFails(p)
  BY <1>10 DEF FillLeaseFails
<1>11. CASE CreateMarker(p)
  BY <1>11 DEF CreateMarker, NextAttempt
<1>12. CASE FillMarker(p)
  BY <1>12 DEF FillMarker
<1>13. CASE FillMarkerFails(p)
  BY <1>13 DEF FillMarkerFails
<1>14. CASE TakeInspect(p)
  BY <1>14 DEF TakeInspect, NextAttempt, Conclude
<1>15. CASE ProbeAgain(p)
  BY <1>15 DEF ProbeAgain, Conclude
<1>16. CASE Archive(p)
  BY <1>16 DEF Archive
<1>17. CASE FillArchive(p)
  BY <1>17 DEF FillArchive
<1>18. CASE FillArchiveFails(p)
  BY <1>18 DEF FillArchiveFails
<1>19. CASE Recheck(p)
  BY <1>19 DEF Recheck, NextAttempt
<1>20. CASE UnlinkLease(p)
  BY <1>20 DEF UnlinkLease
<1>21. CASE ReleaseInspect(p)
  BY <1>21 DEF ReleaseInspect
<1>22. CASE ReleaseReadMarker(p)
  BY <1>22 DEF ReleaseReadMarker
<1>23. CASE ReleaseUnlink(p)
  BY <1>23 DEF ReleaseUnlink
<1> QED
  BY <1>1, <1>2, <1>3, <1>4, <1>5, <1>6, <1>7, <1>8, <1>9, <1>10, <1>11, <1>12, <1>13,
     <1>14, <1>15, <1>16, <1>17, <1>18, <1>19, <1>20, <1>21, <1>22, <1>23 DEF
     ManagerStep

\* A caller that begins a call claims the lease no longer.
LEMMA CallerHolderStep ==
  ASSUME BaseInv, HolderInv, NEW p \in Launch, Calls(p)
  PROVE  HolderOK(p)'
<1>1. /\ pc'[p] \in {"readMarker", "relInspect", "ended"}
      /\ UNCHANGED <<lease, mk>>
  BY CallerFrame DEF BaseInv, LeaseTypeOK
<1> QED
  BY <1>1 DEF HolderOK, Holds, Owns

\* HolderInv is preserved: no other launch is where it may change the lease.
LEMMA HolderStep ==
  ASSUME BaseInv, MarkerInv, HolderInv, NEW p \in Launch, Acts(p)
  PROVE  HolderInv'
<1> SUFFICES ASSUME NEW q \in Launch PROVE HolderOK(q)'
  BY DEF HolderInv
<1>1. CASE q = p
  BY <1>1, OwnHolderStep, CallerHolderStep DEF Acts
<1>2. CASE q # p /\ ManagerStep(p)
  <2>1. ManagerStep(p) /\ UNCHANGED call /\ pc' = [pc EXCEPT ![p] = pc'[p]]
    BY <1>2, ManagerFrame DEF BaseInv
  <2>2. /\ mk'[q] = mk[q] /\ result'[q] = result[q]
        /\ pc'[q] = pc[q]
    BY <1>2, <2>1, LocalFrame DEF BaseInv, LeaseTypeOK
  <2>3. Keeps(q) => lease' = lease
    BY <1>2, <2>1, LeaseChange, KeeperOfTheLease, UnlinkedLease
  <2>4. pc[q] = "unlinkLease" => lease' = lease
    <3>1. pc[q] = "unlinkLease" /\ pc[p] = "unlinkLease" => FALSE
      BY <1>2, TakeoverMarker DEF InTakeover, UnderMarker
    <3> QED
      BY <2>1, <3>1, LeaseChange, KeeperOfTheLease, UnlinkedLease
  <2>5. HolderOK(q)
    BY DEF HolderInv
  <2> QED
    BY <2>1, <2>2, <2>3, <2>4, <2>5 DEF HolderOK, Holds, Owns, Keeps, Acquired, Own
<1>3. CASE q # p /\ Calls(p)
  <2>1. /\ UNCHANGED <<lease, mk, result>> /\ pc'[q] = pc[q] /\ call'[q] = call[q]
    BY <1>3, CallerFrame DEF BaseInv, LeaseTypeOK
  <2>2. HolderOK(q)
    BY DEF HolderInv
  <2> QED
    BY <2>1, <2>2 DEF HolderOK, Holds, Owns, Acquired, Own
<1> QED
  BY <1>1, <1>2, <1>3 DEF Acts

-----------------------------------------------------------------------------
(* One owner *)

\* IInv is inductive without orphaned markers.
LEMMA Inductive == OrphanedMarkers = FALSE /\ IInv /\ [LeaseNext]_leaseVars => IInv'
<1> SUFFICES ASSUME OrphanedMarkers = FALSE, IInv, [LeaseNext]_leaseVars PROVE IInv'
  OBVIOUS
<1>1. CASE LeaseNext
  <2>1. PICK p \in Launch : Acts(p)
    BY <1>1, LeaseActs
  <2> QED
    BY <1>1, <2>1, BaseStep, MarkerStep, HolderStep DEF IInv
<1>2. CASE UNCHANGED leaseVars
  <2>1. MarkerInv' /\ HolderInv'
    BY <1>2 DEF leaseVars, IInv, MarkerInv, MarkerOK, HolderInv, HolderOK, Holds, Owns,
       Acquired, Own, Ended
  <2> QED
    BY <1>2, <2>1, BaseStep DEF IInv
<1> QED
  BY <1>1, <1>2

\* At the start there is no marker, and nobody relies on a lease.
LEMMA InitIInv == LeaseInit => IInv
<1>1. LeaseInit => MarkerInv
  BY DEF LeaseInit, MarkerInv, MarkerOK, UnderMarker
<1>2. LeaseInit => HolderInv
  BY DEF LeaseInit, HolderInv, HolderOK, Holds, Owns, Acquired
<1> QED
  BY <1>1, <1>2, BaseInit DEF IInv

\* Two launches that both take the lease for theirs are one, and it is on disk.
LEMMA OneHolder ==
  ASSUME IInv
  PROVE  OneOwner /\ \A p \in Launch : Owns(p) => lease = Whole(Own(p))
<1>1. \A p \in Launch : Owns(p) => lease = Whole(Own(p))
  BY DEF IInv, HolderInv, HolderOK, Holds
<1>2. \A p \in Launch : Owns(p) => lease.lease.owner = p
  BY KeeperOfTheLease DEF IInv, Keeps, Holds
<1> QED
  BY <1>1, <1>2 DEF OneOwner

\* Where no process ends while its takeover marker is on disk, acquire never tells two
\* launches that one lease is theirs, whoever calls it and when: their number, their
\* interleaving, their other crashes and the answers of the probes do not matter.
THEOREM MutualExclusion ==
  ASSUME OrphanedMarkers = FALSE
  PROVE  LeaseSpec => []OneOwner
<1>1. IInv /\ [LeaseNext]_leaseVars => IInv'
  BY Inductive
<1>2. IInv => OneOwner
  BY OneHolder
<1> QED
  BY <1>1, <1>2, InitIInv, PTL DEF LeaseSpec

\* A step that changes lease.json moves its launch on.
LEMMA ChangeIsOwnStep ==
  ASSUME LeaseTypeOK, NEW p \in Launch, ManagerStep(p), lease' # lease
  PROVE  pc'[p] # pc[p]
BY DEF ManagerStep, LeaseTypeOK, Files, Goto, Return, NextAttempt, Conclude,
       ReadMarker, ProbeTaker, LastInspect, RemoveMarkerRead, RemoveMarkerUnlink, Inspect,
       ProbeOwner, CreateLease, FillLease, FillLeaseFails, CreateMarker, FillMarker,
       FillMarkerFails, TakeInspect, ProbeAgain, Archive, FillArchive, FillArchiveFails,
       Recheck, UnlinkLease, ReleaseInspect, ReleaseReadMarker, ReleaseUnlink

\* Under the same condition, no step of one launch removes or replaces the
\* lease of another that is alive, although every unlink is by path.
THEOREM LiveLeasesStay ==
  ASSUME OrphanedMarkers = FALSE
  PROVE  LeaseSpec => NobodyLosesALiveLease
<1> DEFINE Keep == lease # NoFile /\ lease.whole /\ lease' # lease
                     => \/ Ended(lease.lease.owner)
                        \/ pc[lease.lease.owner] # pc'[lease.lease.owner]
<1>1. IInv /\ [LeaseNext]_leaseVars => [Keep]_leaseVars
  <2> SUFFICES ASSUME IInv, LeaseNext, lease # NoFile, lease' # lease
               PROVE  \/ Ended(lease.lease.owner)
                      \/ pc[lease.lease.owner] # pc'[lease.lease.owner]
    OBVIOUS
  <2>1. PICK p \in Launch : Acts(p)
    BY LeaseActs
  <2>2. ManagerStep(p)
    BY <2>1, CallerFrame DEF Acts, IInv, BaseInv
  <2>3. Keeps(p) \/ pc[p] = "unlinkLease"
    BY <2>2, LeaseChange DEF IInv
  <2> QED
    BY <2>2, <2>3, KeeperOfTheLease, UnlinkedLease, ChangeIsOwnStep DEF IInv, BaseInv
<1>2. IInv /\ [LeaseNext]_leaseVars => IInv'
  BY Inductive
<1> QED
  BY <1>1, <1>2, InitIInv, PTL DEF LeaseSpec, NobodyLosesALiveLease

\* IInv holds of every behaviour of the lease, whoever calls it.
LEMMA LeaseInvariant ==
  ASSUME OrphanedMarkers = FALSE
  PROVE  LeaseSpec => []IInv
<1>1. IInv /\ [LeaseNext]_leaseVars => IInv'
  BY Inductive
<1> QED
  BY <1>1, InitIInv, PTL DEF LeaseSpec

-----------------------------------------------------------------------------
(* The first caller: ApplicationRuntime on the lease of the profile *)

RuntimeInv == TypeOK /\ BaseInv /\ SessionInv

RuntimeAct(p) == Step(p) \/ CallLaunch(p) \/ CallQuit(p) \/ End(p)

\* What the runtime does to the lease a caller may do: it releases only what it has
\* asked for, since it left STOPPED by a call of acquire.
LEMMA RuntimeActs ==
  ASSUME RuntimeInv, NEW p \in Launch, RuntimeAct(p)
  PROVE  Acts(p) \/ UNCHANGED leaseVars
<1>1. rt[p] # "STOPPED" => Started(p)
  BY DEF RuntimeInv, SessionInv
<1>2. CASE InManager(p) \/ CallLaunch(p) \/ End(p)
  BY <1>2 DEF InManager, CallLaunch, End, Acts, Calls
<1>3. CASE OpenHeadquartersFails(p) \/ InstallConsumerFails(p) \/ CallQuit(p)
  BY <1>1, <1>3 DEF OpenHeadquartersFails, InstallConsumerFails, CallQuit, Become, Acts, Calls
<1>4. CASE AcquireReturns(p) \/ OpenHeadquarters(p) \/ InstallConsumer(p) \/ ReleaseReturns(p)
  BY <1>4 DEF AcquireReturns, OpenHeadquarters, InstallConsumer, ReleaseReturns
<1> QED
  BY <1>2, <1>3, <1>4 DEF RuntimeAct, Step

\* A call of acquire stays one until it returns, and so does a call of release.
LEMMA CallKind ==
  ASSUME LeaseTypeOK, NEW p \in Launch, ManagerStep(p)
  PROVE  \/ pc[p] \in Running /\ pc'[p] \in Running \cup {"out"}
         \/ pc[p] \in Releasing /\ pc'[p] \in Releasing \cup {"out"}
BY DEF ManagerStep, LeaseTypeOK, Goto, Return, NextAttempt, Conclude, Locals,
       Running, Releasing, ReadMarker, ProbeTaker, LastInspect, RemoveMarkerRead,
       RemoveMarkerUnlink, Inspect, ProbeOwner, CreateLease, FillLease, FillLeaseFails,
       CreateMarker, FillMarker, FillMarkerFails, TakeInspect, ProbeAgain, Archive,
       FillArchive, FillArchiveFails, Recheck, UnlinkLease, ReleaseInspect,
       ReleaseReadMarker, ReleaseUnlink

\* What SessionInv says of one launch.
SessionOK(p) ==
  /\ pc[p] \in Running => rt[p] = "acquiring"
  /\ pc[p] \in Releasing => rt[p] \in {"aborting", "quitting"}
  /\ Ended(p) => rt[p] = "STOPPED"
  /\ rt[p] # "STOPPED" => Started(p)
  /\ hq[p] => rt[p] \in {"installing", "RUNNING", "RECOVERY_REQUIRED"} /\ Owns(p)
  /\ rt[p] \in {"opening", "installing", "RUNNING"} => Owns(p)

\* A step of one launch touches nothing another's session rests on.
LEMMA SessionFrame ==
  ASSUME RuntimeInv, NEW p \in Launch, RuntimeAct(p), NEW q \in Launch \ {p}
  PROVE  /\ rt'[q] = rt[q] /\ hq'[q] = hq[q]
         /\ pc'[q] = pc[q] /\ call'[q] = call[q] /\ result'[q] = result[q]
<1>1. rt'[q] = rt[q] /\ hq'[q] = hq[q]
  BY DEF RuntimeInv, TypeOK, RuntimeAct, Step, InManager, AcquireReturns, OpenHeadquarters,
     OpenHeadquartersFails, InstallConsumer, InstallConsumerFails, ReleaseReturns, CallLaunch,
     CallQuit, End, Become, Open, Close
<1>2. CASE ManagerStep(p)
  BY <1>1, <1>2, ManagerFrame, LocalFrame DEF RuntimeInv, BaseInv, LeaseTypeOK
<1>3. CASE Calls(p)
  BY <1>1, <1>3, CallerFrame DEF RuntimeInv, BaseInv, LeaseTypeOK
<1>4. CASE UNCHANGED leaseVars
  BY <1>1, <1>4 DEF leaseVars
<1> QED
  BY <1>2, <1>3, <1>4, RuntimeActs DEF Acts

\* Its own session stays in step with its calls.
LEMMA OwnSessionStep ==
  ASSUME RuntimeInv, NEW p \in Launch, RuntimeAct(p)
  PROVE  SessionOK(p)'
<1>1. SessionOK(p)
  BY DEF RuntimeInv, SessionInv, SessionOK
<1>2. LeaseTypeOK /\ rt \in [Launch -> RuntimeStates] /\ hq \in [Launch -> BOOLEAN] /\ call[p] \in Nat
  BY LaunchAssumption DEF RuntimeInv, TypeOK, LeaseTypeOK
<1> USE DEF SessionOK, Started, Ended, Owns, Acquired, Become, Open, Close
<1>3. CASE InManager(p)
  <2>1. UNCHANGED <<rt, hq, call>> /\ ManagerStep(p)
    BY <1>2, <1>3, ManagerFrame DEF InManager
  <2>2. \/ pc[p] \in Running /\ pc'[p] \in Running \cup {"out"}
        \/ pc[p] \in Releasing /\ pc'[p] \in Releasing \cup {"out"}
    BY <1>2, <2>1, CallKind
  <2> QED
    BY <1>1, <2>1, <2>2 DEF Running, Releasing
<1>4. CASE AcquireReturns(p) \/ OpenHeadquarters(p) \/ InstallConsumer(p) \/ ReleaseReturns(p)
  BY <1>1, <1>2, <1>4 DEF AcquireReturns, OpenHeadquarters, InstallConsumer, ReleaseReturns,
     leaseVars, Running, Releasing
<1>5. CASE OpenHeadquartersFails(p) \/ InstallConsumerFails(p) \/ CallQuit(p)
  BY <1>1, <1>2, <1>5 DEF OpenHeadquartersFails, InstallConsumerFails, CallQuit, BeginRelease,
     Goto, Locals, leaseVars, LeaseTypeOK, Running, Releasing
<1>6. CASE CallLaunch(p)
  BY <1>1, <1>2, <1>6 DEF CallLaunch, BeginAcquire, Goto, LeaseTypeOK, Running, Releasing
<1>7. CASE End(p)
  BY <1>1, <1>2, <1>7 DEF End, Exit, Die, LeaseTypeOK, Running, Releasing
<1> QED
  BY <1>3, <1>4, <1>5, <1>6, <1>7 DEF RuntimeAct, Step

\* RuntimeInv is inductive, and the runtime uses its lease as any caller may.
LEMMA RuntimeStep == RuntimeInv /\ [Next]_vars => RuntimeInv' /\ [LeaseNext]_leaseVars
<1> SUFFICES ASSUME RuntimeInv, [Next]_vars PROVE RuntimeInv' /\ [LeaseNext]_leaseVars
  OBVIOUS
<1>1. CASE Next
  <2>1. PICK p \in Launch : RuntimeAct(p)
    BY <1>1 DEF Next, RuntimeAct
  <2>2. [LeaseNext]_leaseVars
    BY <2>1, RuntimeActs, LeaseActs
  <2>3. BaseInv'
    BY <2>2, BaseStep DEF RuntimeInv
  <2>4. rt' \in [Launch -> RuntimeStates] /\ hq' \in [Launch -> BOOLEAN]
    BY <2>1 DEF RuntimeInv, TypeOK, RuntimeStates, RuntimeAct, Step, InManager, AcquireReturns,
       OpenHeadquarters, OpenHeadquartersFails, InstallConsumer, InstallConsumerFails,
       ReleaseReturns, CallLaunch, CallQuit, End, Become, Open, Close
  <2>5. ASSUME NEW q \in Launch PROVE SessionOK(q)'
    <3>1. CASE q = p
      BY <2>1, <3>1, OwnSessionStep
    <3>2. CASE q # p
      BY <2>1, <3>2, SessionFrame
      DEF RuntimeInv, SessionInv, SessionOK, Ended, Started, Owns, Acquired
    <3> QED
      BY <3>1, <3>2
  <2>6. SessionInv'
    BY <2>5 DEF SessionInv, SessionOK
  <2> QED
    BY <2>2, <2>3, <2>4, <2>6 DEF RuntimeInv, TypeOK, BaseInv
<1>2. CASE UNCHANGED vars
  <2>1. [LeaseNext]_leaseVars
    BY <1>2 DEF vars
  <2>2. BaseInv'
    BY <2>1, BaseStep DEF RuntimeInv
  <2>3. SessionInv' /\ TypeOK'
    BY <1>2, <2>2 DEF vars, leaseVars, RuntimeInv, SessionInv, TypeOK, BaseInv, Ended, Started,
       Owns, Acquired
  <2> QED
    BY <2>1, <2>2, <2>3 DEF RuntimeInv
<1> QED
  BY <1>1, <1>2

LEMMA RuntimeInit == Init => RuntimeInv /\ LeaseInit
<1> SUFFICES ASSUME Init PROVE RuntimeInv /\ LeaseInit
  OBVIOUS
<1>1. BaseInv
  BY BaseInit DEF Init
<1>2. SessionInv
  BY DEF Init, LeaseInit, SessionInv, Ended, Running, Releasing
<1> QED
  BY <1>1, <1>2 DEF RuntimeInv, Init, TypeOK, BaseInv, RuntimeStates

\* Type correctness of the runtime and its lease.
THEOREM TypeCorrect == Spec => []TypeOK
<1>1. RuntimeInv => TypeOK
  BY DEF RuntimeInv
<1> QED
  BY <1>1, RuntimeInit, RuntimeStep, PTL DEF Spec

\* The runtime calls acquire and release as LeaseNext lets a caller: what is proved of
\* the lease holds of it.
THEOREM RuntimeUsesLease == Spec => LeaseSpec
BY RuntimeInit, RuntimeStep, PTL DEF Spec, LeaseSpec

\* A launch with an open Headquarters takes itself for the owner of the lease.
LEMMA OpenMeansOwned == Spec => []SessionInv
<1>1. RuntimeInv => SessionInv
  BY DEF RuntimeInv
<1> QED
  BY <1>1, RuntimeInit, RuntimeStep, PTL DEF Spec

\* Where no process ends while its takeover marker is on disk, no two launches ever
\* have one profile's Headquarters open.
THEOREM OneSession ==
  ASSUME OrphanedMarkers = FALSE
  PROVE  Spec => []OneHeadquarters
<1>1. OneOwner /\ SessionInv => OneHeadquarters
  BY DEF OneOwner, SessionInv, OneHeadquarters
<1> QED
  BY <1>1, MutualExclusion, RuntimeUsesLease, OpenMeansOwned, PTL

\* Under the same condition, an open Headquarters is covered by its own lease
\* on disk at all times: no takeover removes it from under the runtime.
THEOREM LeaseCoversHeadquarters ==
  ASSUME OrphanedMarkers = FALSE
  PROVE  Spec => []OpenUnderLease
<1>1. IInv /\ SessionInv => OpenUnderLease
  BY OneHolder DEF SessionInv, OpenUnderLease
<1> QED
  BY <1>1, LeaseInvariant, RuntimeUsesLease, OpenMeansOwned, PTL

-----------------------------------------------------------------------------
(* The second caller: ApplicationProfiles.resolve on __profile_bootstrap__ *)

\* What a launch in the shell does to the lease a caller may do: it asks while no other
\* launch of its workflow identity lives, and releases what it took.
LEMMA BootActs ==
  ASSUME BaseInv, BootInv, NEW p \in Launch, ShellStep(p) \/ EndShell(p)
  PROVE  Acts(p) \/ UNCHANGED leaseVars
<1>1. CASE PostCreateProfile(p)
  <2>1. Awake(p) /\ BeginAcquire(p)
    BY <1>1 DEF PostCreateProfile, Move, Awake
  <2>2. MayStart(p)
    BY <2>1 DEF MayStart, BootInv, WorkflowsApart, OwnerInv, Awake, SameWorkflow
  <2> QED
    BY <2>1, <2>2 DEF Acts, Calls
<1>2. CASE ReleaseBootstrap(p)
  <2>1. Owns(p) /\ BeginRelease(p)
    BY <1>2 DEF ReleaseBootstrap, Move, BootInv, OwnerInv, Bootstrapping
  <2> QED
    BY <2>1 DEF Owns, BaseInv, WorkflowInv, CallersStarted, Acts, Calls
<1>3. CASE InLeases(p) \/ EndShell(p)
  BY <1>3 DEF InLeases, EndShell, Acts, Calls
<1>4. CASE ShellStep(p) /\ UNCHANGED leaseVars
  BY <1>4
<1> QED
  BY <1>1, <1>2, <1>3, <1>4 DEF ShellStep, StartShell, EnsureRuntime, AcquireBootstrap, BootstrapBusy,
     DiscoverLocked, MakeFolder, InitializeLineage, CreateFails, ReleaseBootstrapReturns

\* It touches nothing another launch's place in resolve() rests on.
LEMMA BootFrame ==
  ASSUME BaseInv, BootInv, NEW p \in Launch, ShellStep(p) \/ EndShell(p), NEW q \in Launch \ {p}
  PROVE  /\ (Owns(q)' <=> Owns(q)) /\ (Ended(q)' <=> Ended(q)) /\ (Started(q)' <=> Started(q))
         /\ stage'[q] = stage[q] /\ folders'[q] = folders[q]
<1>1. stage'[q] = stage[q] /\ folders'[q] = folders[q]
  BY DEF BootInv, BootTypeOK, ShellStep, EndShell, StartShell, EnsureRuntime, PostCreateProfile,
     InLeases, bootVars, AcquireBootstrap, BootstrapBusy, DiscoverLocked, MakeFolder,
     InitializeLineage, CreateFails, ReleaseBootstrap, ReleaseBootstrapReturns, Move
<1>2. pc'[q] = pc[q] /\ call'[q] = call[q] /\ result'[q] = result[q]
  <2>1. CASE ManagerStep(p)
    BY <2>1, ManagerFrame, LocalFrame DEF BaseInv, LeaseTypeOK
  <2>2. CASE Calls(p)
    BY <2>2, CallerFrame DEF BaseInv, LeaseTypeOK
  <2>3. CASE UNCHANGED leaseVars
    BY <2>3 DEF leaseVars
  <2> QED
    BY <2>1, <2>2, <2>3, BootActs DEF Acts
<1> QED
  BY <1>1, <1>2 DEF Owns, Acquired, Ended, Started

\* What each step does to the launch that takes it.
LEMMA BootOwn ==
  ASSUME BaseInv, BootInv, NEW p \in Launch, ShellStep(p) \/ EndShell(p)
  PROVE  /\ stage'[p] \in Bootstrapping => Owns(p)'
         /\ Ended(p)' <=> stage'[p] = "ended"
         /\ Started(p)' => stage'[p] # "new"
         /\ stage'[p] \in Bootstrapping => stage[p] \in Bootstrapping \/ AcquireBootstrap(p)
         /\ stage'[p] \in Stages
<1> USE DEF BaseInv, LeaseTypeOK, BootInv, BootTypeOK, OwnerInv, Bootstrapping, Stages, Owns, Ended,
        Started, Move
<1>1. CASE InLeases(p)
  <2>1. /\ pc[p] \in Running \cup Releasing /\ pc'[p] # "ended"
        /\ call' = call /\ stage' = stage
    BY <1>1, ManagerFrame DEF InLeases, bootVars
  <2> QED
    BY <2>1 DEF Running, Releasing
<1>2. CASE PostCreateProfile(p)
  BY <1>2 DEF PostCreateProfile, BeginAcquire, Goto
<1>3. CASE ReleaseBootstrap(p)
  BY <1>3 DEF ReleaseBootstrap, BeginRelease, Goto, Locals
<1>4. CASE EndShell(p)
  BY <1>4 DEF EndShell, Exit, Die
<1>5. CASE StartShell(p)
  BY <1>5 DEF StartShell, leaseVars
<1>6. CASE EnsureRuntime(p) \/ BootstrapBusy(p) \/ ReleaseBootstrapReturns(p)
  BY <1>6 DEF EnsureRuntime, BootstrapBusy, ReleaseBootstrapReturns, leaseVars
<1>7. CASE AcquireBootstrap(p)
  BY <1>7 DEF AcquireBootstrap, leaseVars, Acquired
<1>8. CASE DiscoverLocked(p) \/ MakeFolder(p) \/ InitializeLineage(p) \/ CreateFails(p)
  BY <1>8 DEF DiscoverLocked, MakeFolder, InitializeLineage, CreateFails, leaseVars, Acquired
<1> QED
  BY <1>1, <1>2, <1>3, <1>4, <1>5, <1>6, <1>7, <1>8 DEF ShellStep

\* At the start nobody has asked, and at most one folder is there.
LEMMA BootStart == LaunchInit => BootInv
<1> SUFFICES ASSUME LaunchInit PROVE BootInv
  OBVIOUS
<1> USE LaunchAssumption DEF LaunchInit, BootInit, LeaseInit
<1>1. BootTypeOK
  BY DEF BootTypeOK, Stages
<1>2. OwnerInv
  <2>1. ASSUME NEW p \in Launch
        PROVE  /\ stage[p] \in {"new", "ended"} /\ (Ended(p) <=> stage[p] = "ended")
               /\ Started(p) => stage[p] # "new"
    BY DEF Ended, Started
  <2> QED
    BY <2>1 DEF OwnerInv, Bootstrapping
<1>3. WorkflowsApart
  BY DEF WorkflowsApart, Awake
<1>4. OneFirstProfile
  BY DEF OneFirstProfile, Made
<1> QED
  BY <1>1, <1>2, <1>3, <1>4 DEF BootInv

\* One launch of a workflow identity is awake at a time.
LEMMA ApartStep ==
  ASSUME BaseInv, BootInv, NEW p \in Launch, ShellStep(p) \/ EndShell(p)
  PROVE  WorkflowsApart'
<1>1. \A q \in Launch \ {p} : Awake(q)' <=> Awake(q)
  BY BootFrame DEF Awake
<1>2. CASE StartShell(p)
  BY <1>1, <1>2 DEF StartShell, BootInv, WorkflowsApart, SameWorkflow
<1>3. CASE EndShell(p)
  BY <1>1, <1>3 DEF EndShell, BootInv, BootTypeOK, WorkflowsApart, SameWorkflow, Awake
<1>4. CASE Awake(p)
  BY <1>1, <1>4 DEF BootInv, WorkflowsApart, SameWorkflow
<1>5. CASE InLeases(p)
  BY <1>5 DEF InLeases, bootVars, BootInv, WorkflowsApart, SameWorkflow, Awake
<1> QED
  BY <1>2, <1>3, <1>4, <1>5 DEF ShellStep, EnsureRuntime, PostCreateProfile, AcquireBootstrap,
     BootstrapBusy, DiscoverLocked, MakeFolder, InitializeLineage, CreateFails,
     ReleaseBootstrap, ReleaseBootstrapReturns, Move, Awake

\* What is in the folders, and what the launches rely on of it: the owner of the lease
\* is one, so nobody else is between its look at the folders and its folder.
FoldersInv ==
  /\ \A p \in Launch :
       /\ stage[p] = "creating" => Made = {}
       /\ stage[p] = "filling" => Made = {p}
       /\ stage[p] = "selected" => Made # {} /\ \A q \in Made : folders[q] = "whole"
  /\ OneFirstProfile

LEMMA FoldersStep ==
  ASSUME BaseInv, BootInv, OneOwner, NEW p \in Launch, ShellStep(p) \/ EndShell(p)
  PROVE  FoldersInv'
<1> USE DEF BootInv, BootTypeOK, OwnerInv, Stages
<1>1. \A q \in Launch \ {p} : stage'[q] = stage[q] /\ folders'[q] = folders[q]
  BY BootFrame
<1>2. stage[p] \in Bootstrapping => \A q \in Launch \ {p} : stage[q] \notin Bootstrapping
  BY DEF OneOwner
<1>3. ASSUME folders' = folders,
             \/ stage'[p] \notin {"creating", "filling", "selected"} \/ stage'[p] = stage[p]
             \/ stage'[p] = "creating" /\ Made = {}
             \/ stage'[p] = "selected" /\ Made # {} /\ \A q \in Made : folders[q] = "whole"
      PROVE  FoldersInv'
  <2>1. Made' = Made
    BY <1>3 DEF Made
  <2> QED
    BY <1>1, <1>3, <2>1 DEF FoldersInv, OneFirstProfile
<1>4. CASE EnsureRuntime(p)
  <2>1. Made # {} /\ \A q \in Made : folders[q] = "whole"
    BY <1>4 DEF EnsureRuntime, SelectedExisting, RecoveryRequired, Unreadable, Made
  <2> QED
    BY <1>3, <1>4, <2>1 DEF EnsureRuntime, Move
<1>5. CASE MakeFolder(p)
  <2>1. Made = {} /\ stage[p] \in Bootstrapping /\ stage'[p] = "filling" /\ folders'[p] = "begun"
    BY <1>5 DEF MakeFolder, Move, Bootstrapping
  <2>2. Made' = {p}
    BY <1>1, <2>1 DEF Made
  <2>3. \A q \in Launch \ {p} : stage'[q] \notin {"creating", "filling", "selected"}
    BY <1>1, <1>2, <2>1 DEF Bootstrapping
  <2> QED
    BY <2>1, <2>2, <2>3 DEF FoldersInv, OneFirstProfile
<1>6. CASE InitializeLineage(p)
  <2>1. /\ Made = {p} /\ stage[p] \in Bootstrapping
        /\ stage'[p] = "leaving" /\ folders'[p] = "whole"
    BY <1>6 DEF InitializeLineage, Move, Bootstrapping
  <2>2. Made' = {p}
    BY <1>1, <2>1 DEF Made
  <2>3. \A q \in Launch \ {p} : stage'[q] \notin {"creating", "filling"}
    BY <1>1, <1>2, <2>1 DEF Bootstrapping
  <2> QED
    BY <2>1, <2>2, <2>3 DEF FoldersInv, OneFirstProfile
<1>7. CASE ~EnsureRuntime(p) /\ ~MakeFolder(p) /\ ~InitializeLineage(p)
  BY <1>3, <1>7 DEF ShellStep, EndShell, StartShell, PostCreateProfile, InLeases, bootVars,
     AcquireBootstrap, BootstrapBusy, DiscoverLocked, NeedsCreation, CreateFails,
     ReleaseBootstrap, ReleaseBootstrapReturns, Move
<1> QED
  BY <1>4, <1>5, <1>6, <1>7

\* BootInv is inductive with the invariant of the lease, and resolve() uses the lease
\* as any caller may.
LEMMA BootStep ==
  IInv /\ BootInv /\ [LaunchNext]_launchVars => BootInv' /\ [LeaseNext]_leaseVars
<1> SUFFICES ASSUME IInv, BootInv, [LaunchNext]_launchVars PROVE BootInv' /\ [LeaseNext]_leaseVars
  OBVIOUS
<1>1. CASE LaunchNext
  <2>1. PICK p \in Launch : ShellStep(p) \/ EndShell(p)
    BY <1>1 DEF LaunchNext
  <2>2. BaseInv /\ OneOwner
    BY OneHolder DEF IInv
  <2>3. [LeaseNext]_leaseVars
    BY <2>1, <2>2, BootActs, LeaseActs
  <2>4. BootTypeOK'
    BY <2>1 DEF BootInv, BootTypeOK, Stages, ShellStep, EndShell, StartShell, EnsureRuntime,
       PostCreateProfile, InLeases, bootVars, AcquireBootstrap, BootstrapBusy, DiscoverLocked,
       MakeFolder, InitializeLineage, CreateFails, ReleaseBootstrap, ReleaseBootstrapReturns, Move
  <2>5. WorkflowsApart' /\ FoldersInv'
    BY <2>1, <2>2, ApartStep, FoldersStep
  <2>6. ASSUME NEW q \in Launch
        PROVE  /\ stage'[q] \in Bootstrapping => Owns(q)'
               /\ Ended(q)' <=> stage'[q] = "ended"
               /\ Started(q)' => stage'[q] # "new"
    <3>1. CASE q = p
      BY <2>1, <2>2, <3>1, BootOwn
    <3>2. CASE q # p
      BY <2>1, <2>2, <3>2, BootFrame DEF BootInv, OwnerInv
    <3> QED
      BY <3>1, <3>2
  <2>7. OwnerInv'
    BY <2>5, <2>6 DEF OwnerInv, FoldersInv, Bootstrapping
  <2> QED
    BY <2>3, <2>4, <2>5, <2>7 DEF BootInv, FoldersInv
<1>2. CASE UNCHANGED launchVars
  BY <1>2 DEF launchVars, leaseVars, bootVars, BootInv, BootTypeOK, OwnerInv, WorkflowsApart,
     OneFirstProfile, Made, Awake, SameWorkflow, Ended, Started, Owns, Acquired
<1> QED
  BY <1>1, <1>2

\* Any number of launches on a new machine make at most one first profile, wherever
\* they meet in ApplicationProfiles.resolve and in the steps of the lease it takes, and
\* none selects a profile beside one that was only begun; where no process ends while
\* its takeover marker is on disk.
THEOREM FirstProfileOnce ==
  ASSUME OrphanedMarkers = FALSE
  PROVE  LaunchSpec => []OneFirstProfile
<1>1. LaunchInit => IInv /\ BootInv
  BY InitIInv, BootStart DEF LaunchInit
<1>2. IInv /\ BootInv /\ [LaunchNext]_launchVars => (IInv /\ BootInv)'
  BY BootStep, Inductive
<1>3. BootInv => OneFirstProfile
  BY DEF BootInv
<1> QED
  BY <1>1, <1>2, <1>3, PTL DEF LaunchSpec

-----------------------------------------------------------------------------
(* Both together *)

\* A launch that resolves its profile and then calls the runtime on it is a launch of
\* ConsumerLaunch on the one lease and of ApplicationRuntime on the other: what is
\* proved of each holds of consumer_shell.py's sequence of the two.
THEOREM LaunchImplementsRuntime == ShellSpec => Spec /\ Boot!LaunchSpec
<1>1. ShellInit => Init /\ Boot!LaunchInit
  BY DEF ShellInit
<1>2. ASSUME [ShellNext]_allVars
      PROVE  [Next]_vars /\ [Boot!LaunchNext]_(Boot!launchVars)
  <2>1. ASSUME NEW p \in Launch, ResolveProfile(p)
        PROVE  UNCHANGED vars /\ Boot!LaunchNext
    BY <2>1 DEF ResolveProfile, Boot!LaunchNext
  <2>2. UNCHANGED shellVars => UNCHANGED Boot!launchVars
    BY DEF shellVars, Boot!launchVars, Boot!leaseVars, Boot!bootVars
  <2>3. ASSUME NEW p \in Launch, LaunchProfile(p)
        PROVE  Next /\ UNCHANGED shellVars
    BY <2>3 DEF LaunchProfile, Next
  <2>4. ASSUME NEW p \in Launch, EndProcess(p)
        PROVE  Next /\ Boot!LaunchNext
    BY <2>4 DEF EndProcess, Next, Boot!LaunchNext
  <2>5. UNCHANGED allVars => UNCHANGED vars /\ UNCHANGED shellVars
    BY DEF allVars
  <2> QED
    BY <1>2, <2>1, <2>2, <2>3, <2>4, <2>5 DEF ShellNext
<1> QED
  BY <1>1, <1>2, PTL DEF ShellSpec, Spec, Boot!LaunchSpec
=============================================================================
