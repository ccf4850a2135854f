---------------------------- MODULE InstanceLease ----------------------------
(***************************************************************************)
(* The file-lease protocol of n0te2/instance.py for one profile.           *)
(*                                                                         *)
(* A launch is one exact process launch (ProcessIdentity.same_launch).     *)
(* The shared state is the three kinds of file InstanceLeaseManager keeps  *)
(* in the profile's instance directory: lease.json, takeover.json and      *)
(* stale/<nonce>.json.  Every file system call another launch can observe  *)
(* is one action, so the interleavings of check and unlink are those of    *)
(* the code; a file created with O_EXCL is `whole' only once its payload   *)
(* is written.                                                             *)
(*                                                                         *)
(* LeaseNext lets any caller call acquire and release at any time.  The    *)
(* callers are modelled apart: ApplicationRuntime on the profile's lease,  *)
(* ConsumerLaunch on the lease __profile_bootstrap__.                      *)
(***************************************************************************)
EXTENDS Naturals

CONSTANTS
  Launch,       \* exact launches, those of the past included
  Past,         \* launches that ended before the behaviour starts
  WorkflowOf,   \* launch -> reusable workflow identity (pid, start token)
  MaxCalls,     \* bound: acquire calls one launch makes
  MaxAttempts,  \* MAX_ATTEMPTS (8 in the code, fewer in the runs)
  NoFile,       \* what a path without a file holds
  OrphanedMarkers  \* may a launch end while its takeover marker is on disk?

Call    == 1..MaxCalls
Attempt == 1..MaxAttempts

\* A lease is named by its nonce, fresh in every call that creates one; a
\* takeover marker by its taker, its nonce and the lease it expects.
Lease  == [owner : Launch, call : Call]
Marker == [taker : Launch, call : Call, attempt : Attempt, prev : Lease]

LeaseFile  == [lease : Lease, whole : BOOLEAN]
MarkerFile == [marker : Marker, whole : BOOLEAN]

ASSUME LaunchAssumption ==
  /\ Past \subseteq Launch
  /\ MaxCalls \in Nat \ {0}
  /\ MaxAttempts \in Nat \ {0}
  /\ NoFile \notin LeaseFile \cup Lease
  /\ NoFile \notin MarkerFile \cup Marker
  /\ OrphanedMarkers \in BOOLEAN

VARIABLES
  lease,    \* lease.json
  marker,   \* takeover.json
  archive,  \* stale/<nonce>.json, by the lease it names
  pc,       \* where each launch is inside the manager
  call,     \* acquire calls each launch has made
  attempt,  \* iteration of acquire's loop
  mk,       \* the marker a launch read or wrote last (local variable)
  seen,     \* the lease a launch inspected last (local variable)
  result    \* what the last call returned, "raised" for an exception

leaseVars == <<lease, marker, archive, pc, call, attempt, mk, seen, result>>

Running == {"readMarker", "probeTaker", "cleanRead", "cleanUnlink", "inspect",
            "probeOwner", "createLease", "fillLease", "createMarker",
            "fillMarker", "takeInspect", "probeAgain", "archive",
            "fillArchive", "recheck", "unlinkLease", "createReplacement",
            "fillReplacement", "ownRead", "ownUnlink", "lastInspect"}
Releasing == {"relInspect", "relMarker", "relUnlink"}

Results == {"none", "ACQUIRED", "ALREADY_OWNED", "HELD_BY_OTHER", "UNCERTAIN",
            "REPLACED_STALE", "RELEASED", "raised"}

LeaseTypeOK ==
  /\ lease   \in LeaseFile \cup {NoFile}
  /\ marker  \in MarkerFile \cup {NoFile}
  /\ archive \in [Lease -> {"absent", "partial", "whole"}]
  /\ pc      \in [Launch -> Running \cup Releasing \cup {"out", "ended"}]
  /\ call    \in [Launch -> 0..MaxCalls]
  /\ attempt \in [Launch -> 0..MaxAttempts]
  /\ mk      \in [Launch -> Marker \cup {NoFile}]
  /\ seen    \in [Launch -> Lease \cup {NoFile}]
  /\ result  \in [Launch -> Results]

Ended(p)   == pc[p] = "ended"
Started(p) == call[p] > 0   \* it called acquire
Own(p)     == [owner |-> p, call |-> call[p]]

Whole(l)        == [lease |-> l, whole |-> TRUE]
WholeMarker(m)  == [marker |-> m, whole |-> TRUE]

\* The profile is new, or an ended launch left its lease behind.
LeaseInit ==
  /\ lease \in {NoFile} \cup {Whole([owner |-> p, call |-> 1]) : p \in Past}
  /\ marker  = NoFile
  /\ archive = [l \in Lease |-> "absent"]
  /\ pc      = [p \in Launch |-> IF p \in Past THEN "ended" ELSE "out"]
  /\ call    = [p \in Launch |-> IF p \in Past THEN 1 ELSE 0]
  /\ attempt = [p \in Launch |-> 0]
  /\ mk      = [p \in Launch |-> NoFile]
  /\ seen    = [p \in Launch |-> NoFile]
  /\ result  = [p \in Launch |-> "none"]

-----------------------------------------------------------------------------
(* Control flow *)

Goto(p, from, to) == pc[p] = from /\ pc' = [pc EXCEPT ![p] = to]

Return(p, from, r) == Goto(p, from, "out") /\ result' = [result EXCEPT ![p] = r]

\* A bug: `while True'.
AttemptForever(p, from) == Goto(p, from, "readMarker") /\ UNCHANGED attempt

\* The end of one iteration of `for _ in range(MAX_ATTEMPTS)`.
NextAttempt(p, from) ==
  IF attempt[p] < MaxAttempts
  THEN Goto(p, from, "readMarker") /\ attempt' = [attempt EXCEPT ![p] = @ + 1]
  ELSE Goto(p, from, "lastInspect") /\ UNCHANGED attempt

SameWorkflow(p, q) == WorkflowOf[p] = WorkflowOf[q]

\* A bug: any other launch's lease is taken for that of a reused identity.
AnyOtherWorkflow(previous, p) == previous # p

\* _reused_workflow_is_stale: a launch that carries the workflow identity of
\* the previous owner proves that owner dead without a probe.
ReusedWorkflow(previous, p) == previous # p /\ SameWorkflow(previous, p)

\* What a truthful probe may say of launch q.  It knows the workflow identity
\* only, so it answers ALIVE for an ended launch whose identity a living one
\* reuses; it may always be unable to tell.  A launch that has not called yet may
\* be alive already or still to come.
Probe(q) ==
  {"UNKNOWN"}
  \cup {s \in {"ALIVE"} : \E r \in Launch : SameWorkflow(r, q) /\ ~Ended(r)}
  \cup {s \in {"DEAD"} : \A r \in Launch : SameWorkflow(r, q) => Ended(r) \/ ~Started(r)}

Files  == <<lease, marker, archive>>
Locals == <<call, mk, seen>>

-----------------------------------------------------------------------------
(* acquire: the loop over markers *)

\* The two starts of a call and the death of a launch; its callers guard them.
BeginAcquire(p) ==
  /\ call[p] < MaxCalls
  /\ Goto(p, "out", "readMarker")
  /\ call' = [call EXCEPT ![p] = @ + 1]
  /\ attempt' = [attempt EXCEPT ![p] = 1]
  /\ UNCHANGED <<Files, mk, seen, result>>

BeginRelease(p) == Goto(p, "out", "relInspect") /\ UNCHANGED <<Files, Locals, attempt, result>>

Die(p) ==
  /\ ~Ended(p)
  /\ pc' = [pc EXCEPT ![p] = "ended"]
  /\ UNCHANGED <<Files, Locals, attempt, result>>

\* A partial file stays undecodable through READ_ATTEMPTS reads, or becomes
\* readable before they run out: the reader raises, or reads again.
ReadMarker(p) ==
  \/ /\ marker = NoFile
     /\ Goto(p, "readMarker", "inspect")
     /\ UNCHANGED <<Files, Locals, attempt, result>>
  \/ /\ marker # NoFile /\ ~marker.whole
     /\ Return(p, "readMarker", "raised")
     /\ UNCHANGED <<Files, Locals, attempt>>
  \/ /\ marker # NoFile /\ marker.whole
     /\ Goto(p, "readMarker",
             IF marker.marker.taker = p THEN "takeInspect" ELSE "probeTaker")
     /\ mk' = [mk EXCEPT ![p] = marker.marker]
     /\ UNCHANGED <<Files, call, seen, attempt, result>>

ProbeTaker(p) ==
  /\ pc[p] = "probeTaker"
  /\ \E s \in Probe(mk[p].taker) :
       Goto(p, "probeTaker", IF s = "DEAD" THEN "cleanRead" ELSE "lastInspect")
  /\ UNCHANGED <<Files, Locals, attempt, result>>

\* `return LeaseAcquireResult("UNCERTAIN", self.inspect(profile))`
LastInspect(p) ==
  /\ Return(p, "lastInspect",
            IF lease # NoFile /\ ~lease.whole THEN "raised" ELSE "UNCERTAIN")
  /\ UNCHANGED <<Files, Locals, attempt>>

\* _remove_marker_exact: the read that compares ...
RemoveMarkerRead(p, own) ==
  LET from == IF own THEN "ownRead" ELSE "cleanRead" IN
  /\ pc[p] = from
  /\ \/ /\ marker = NoFile
        /\ \/ own /\ Return(p, from, result[p]) /\ UNCHANGED attempt
           \/ ~own /\ NextAttempt(p, from) /\ UNCHANGED result
     \/ /\ marker # NoFile /\ marker # WholeMarker(mk[p])
        /\ Return(p, from, "raised") /\ UNCHANGED attempt
     \/ /\ marker = WholeMarker(mk[p])
        /\ Goto(p, from, IF own THEN "ownUnlink" ELSE "cleanUnlink")
        /\ UNCHANGED <<attempt, result>>
  /\ UNCHANGED <<Files, Locals>>

\* ... and the unlink by path, whatever file is there by then.
RemoveMarkerUnlink(p, own) ==
  LET from == IF own THEN "ownUnlink" ELSE "cleanUnlink" IN
  /\ pc[p] = from
  /\ \/ /\ marker = NoFile
        /\ Return(p, from, "raised") /\ UNCHANGED <<marker, attempt>>
     \/ /\ marker # NoFile
        /\ marker' = NoFile
        /\ \/ own /\ Return(p, from, result[p]) /\ UNCHANGED attempt
           \/ ~own /\ NextAttempt(p, from) /\ UNCHANGED result
  /\ UNCHANGED <<lease, archive, Locals>>

-----------------------------------------------------------------------------
(* acquire: no marker in the way *)

Inspect(p) ==
  \/ /\ lease = NoFile
     /\ Goto(p, "inspect", "createLease")
     /\ UNCHANGED <<Files, Locals, attempt, result>>
  \/ /\ lease # NoFile /\ ~lease.whole
     /\ Return(p, "inspect", "raised")
     /\ UNCHANGED <<Files, Locals, attempt>>
  \/ /\ lease # NoFile /\ lease.whole /\ lease.lease.owner = p
     /\ Return(p, "inspect", "ALREADY_OWNED")
     /\ UNCHANGED <<Files, Locals, attempt>>
  \/ /\ lease # NoFile /\ lease.whole /\ lease.lease.owner # p
     /\ Goto(p, "inspect", IF ReusedWorkflow(lease.lease.owner, p)
                           THEN "createMarker" ELSE "probeOwner")
     /\ seen' = [seen EXCEPT ![p] = lease.lease]
     /\ UNCHANGED <<Files, call, mk, attempt, result>>

ProbeOwner(p) ==
  /\ pc[p] = "probeOwner"
  /\ \E s \in Probe(seen[p].owner) :
       \/ s = "ALIVE" /\ Return(p, "probeOwner", "HELD_BY_OTHER")
       \/ s = "UNKNOWN" /\ Return(p, "probeOwner", "UNCERTAIN")
       \/ s = "DEAD" /\ Goto(p, "probeOwner", "createMarker") /\ UNCHANGED result
  /\ UNCHANGED <<Files, Locals, attempt>>

\* A bug: the lease is created without O_EXCL.
OverwriteLease(p, fresh) ==
  LET from == IF fresh THEN "createLease" ELSE "createReplacement" IN
  /\ pc[p] = from
  /\ lease' = [lease |-> Own(p), whole |-> FALSE]
  /\ Goto(p, from, IF fresh THEN "fillLease" ELSE "fillReplacement")
  /\ UNCHANGED <<marker, archive, Locals, attempt, result>>

\* _write_exclusive: O_EXCL create, then the payload and its fsync.  A write
\* that fails unlinks the path and raises.
CreateLease(p, fresh) ==
  LET from == IF fresh THEN "createLease" ELSE "createReplacement" IN
  /\ pc[p] = from
  /\ \/ lease # NoFile /\ NextAttempt(p, from) /\ UNCHANGED lease
     \/ /\ lease = NoFile
        /\ lease' = [lease |-> Own(p), whole |-> FALSE]
        /\ Goto(p, from, IF fresh THEN "fillLease" ELSE "fillReplacement")
        /\ UNCHANGED attempt
  /\ UNCHANGED <<marker, archive, Locals, result>>

\* The payload goes to the inode the launch created, if the path still leads
\* to it.
FillLease(p) ==
  /\ lease' = IF lease # NoFile /\ lease.lease = Own(p) THEN Whole(Own(p)) ELSE lease
  /\ \/ /\ Return(p, "fillLease", "ACQUIRED")
     \/ /\ Goto(p, "fillReplacement", "ownRead")
        /\ result' = [result EXCEPT ![p] = "REPLACED_STALE"]
  /\ UNCHANGED <<marker, archive, Locals, attempt>>

FillLeaseFails(p) ==
  /\ \/ Return(p, "fillLease", "raised")
     \/ Return(p, "fillReplacement", "raised")
  /\ lease' = NoFile
  /\ UNCHANGED <<marker, archive, Locals, attempt>>

CreateMarker(p) ==
  /\ pc[p] = "createMarker"
  /\ \/ /\ marker # NoFile
        /\ NextAttempt(p, "createMarker") /\ UNCHANGED <<marker, mk>>
     \/ /\ marker = NoFile
        /\ mk' = [mk EXCEPT ![p] = [taker |-> p, call |-> call[p],
                                    attempt |-> attempt[p], prev |-> seen[p]]]
        /\ marker' = [marker |-> mk'[p], whole |-> FALSE]
        /\ Goto(p, "createMarker", "fillMarker") /\ UNCHANGED attempt
  /\ UNCHANGED <<lease, archive, call, seen, result>>

FillMarker(p) ==
  /\ marker' = IF marker # NoFile /\ marker.marker = mk[p] THEN WholeMarker(mk[p]) ELSE marker
  /\ Goto(p, "fillMarker", "takeInspect")
  /\ UNCHANGED <<lease, archive, Locals, attempt, result>>

FillMarkerFails(p) ==
  /\ Return(p, "fillMarker", "raised")
  /\ marker' = NoFile
  /\ UNCHANGED <<lease, archive, Locals, attempt>>

-----------------------------------------------------------------------------
(* _complete_owned_takeover, under the marker mk[p] *)

\* Leave the takeover with a result: acquire then removes the own marker.
Conclude(p, from, r) == Goto(p, from, "ownRead") /\ result' = [result EXCEPT ![p] = r]

TakeInspect(p) ==
  /\ pc[p] = "takeInspect"
  /\ \/ /\ lease # NoFile /\ ~lease.whole
        /\ Return(p, "takeInspect", "raised") /\ UNCHANGED attempt
     \/ /\ lease # NoFile /\ lease.whole /\ lease.lease.owner = p
        /\ Conclude(p, "takeInspect", "ALREADY_OWNED") /\ UNCHANGED attempt
     \/ /\ lease = NoFile /\ archive[mk[p].prev] # "whole"
        /\ Return(p, "takeInspect", "raised") /\ UNCHANGED attempt
     \/ /\ lease = NoFile /\ archive[mk[p].prev] = "whole"
        /\ Goto(p, "takeInspect", "createReplacement") /\ UNCHANGED <<attempt, result>>
     \/ /\ lease # NoFile /\ lease.whole /\ lease.lease.owner # p
        /\ lease.lease # mk[p].prev
        /\ NextAttempt(p, "takeInspect") /\ UNCHANGED result
     \/ /\ lease = Whole(mk[p].prev) /\ lease.lease.owner # p
        /\ Goto(p, "takeInspect", IF ReusedWorkflow(mk[p].prev.owner, p)
                                  THEN "archive" ELSE "probeAgain")
        /\ UNCHANGED <<attempt, result>>
  /\ UNCHANGED <<Files, Locals>>

ProbeAgain(p) ==
  /\ pc[p] = "probeAgain"
  /\ \E s \in Probe(mk[p].prev.owner) :
       \/ s = "ALIVE" /\ Conclude(p, "probeAgain", "HELD_BY_OTHER")
       \/ s = "UNKNOWN" /\ Conclude(p, "probeAgain", "UNCERTAIN")
       \/ s = "DEAD" /\ Goto(p, "probeAgain", "archive") /\ UNCHANGED result
  /\ UNCHANGED <<Files, Locals, attempt>>

Archive(p) ==
  LET l == mk[p].prev IN
  /\ pc[p] = "archive"
  /\ \/ /\ archive[l] = "absent"
        /\ archive' = [archive EXCEPT ![l] = "partial"]
        /\ Goto(p, "archive", "fillArchive") /\ UNCHANGED result
     \/ /\ archive[l] = "partial"
        /\ Return(p, "archive", "raised") /\ UNCHANGED archive
     \/ /\ archive[l] = "whole"
        /\ Goto(p, "archive", "recheck") /\ UNCHANGED <<archive, result>>
  /\ UNCHANGED <<lease, marker, Locals, attempt>>

FillArchive(p) ==
  /\ Goto(p, "fillArchive", "recheck")
  /\ archive' = [archive EXCEPT ![mk[p].prev] = "whole"]
  /\ UNCHANGED <<lease, marker, Locals, attempt, result>>

FillArchiveFails(p) ==
  /\ Return(p, "fillArchive", "raised")
  /\ archive' = [archive EXCEPT ![mk[p].prev] = "absent"]
  /\ UNCHANGED <<lease, marker, Locals, attempt>>

\* `current = self.inspect(profile_id); if current != latest: return None`
Recheck(p) ==
  /\ pc[p] = "recheck"
  /\ \/ /\ lease # NoFile /\ ~lease.whole
        /\ Return(p, "recheck", "raised") /\ UNCHANGED attempt
     \/ /\ lease # NoFile => lease.whole /\ lease.lease # mk[p].prev
        /\ NextAttempt(p, "recheck") /\ UNCHANGED result
     \/ /\ lease = Whole(mk[p].prev)
        /\ Goto(p, "recheck", "unlinkLease") /\ UNCHANGED <<attempt, result>>
  /\ UNCHANGED <<Files, Locals>>

\* The unlink is by path: whatever lease is there goes.
UnlinkLease(p) ==
  /\ pc[p] = "unlinkLease"
  /\ \/ /\ lease = NoFile
        /\ Return(p, "unlinkLease", "raised") /\ UNCHANGED lease
     \/ /\ lease # NoFile
        /\ lease' = NoFile
        /\ Goto(p, "unlinkLease", "takeInspect") /\ UNCHANGED result
  /\ UNCHANGED <<marker, archive, Locals, attempt>>

-----------------------------------------------------------------------------
(* release *)

ReleaseInspect(p) ==
  /\ IF lease = Whole(Own(p))
     THEN Goto(p, "relInspect", "relMarker") /\ UNCHANGED result
     ELSE Return(p, "relInspect", "raised")
  /\ UNCHANGED <<Files, Locals, attempt>>

ReleaseReadMarker(p) ==
  /\ IF marker = NoFile
     THEN Goto(p, "relMarker", "relUnlink") /\ UNCHANGED result
     ELSE Return(p, "relMarker", "raised")
  /\ UNCHANGED <<Files, Locals, attempt>>

ReleaseUnlink(p) ==
  /\ Return(p, "relUnlink", IF lease = NoFile THEN "raised" ELSE "RELEASED")
  /\ lease' = NoFile
  /\ UNCHANGED <<marker, archive, Locals, attempt>>

-----------------------------------------------------------------------------
\* One step of a call in progress.
ManagerStep(p) ==
  \/ ReadMarker(p) \/ ProbeTaker(p) \/ LastInspect(p)
  \/ \E own \in BOOLEAN : RemoveMarkerRead(p, own) \/ RemoveMarkerUnlink(p, own)
  \/ Inspect(p) \/ ProbeOwner(p)
  \/ \E fresh \in BOOLEAN : CreateLease(p, fresh)
  \/ FillLease(p) \/ FillLeaseFails(p)
  \/ CreateMarker(p) \/ FillMarker(p) \/ FillMarkerFails(p)
  \/ TakeInspect(p) \/ ProbeAgain(p)
  \/ Archive(p) \/ FillArchive(p) \/ FillArchiveFails(p)
  \/ Recheck(p) \/ UnlinkLease(p)
  \/ ReleaseInspect(p) \/ ReleaseReadMarker(p) \/ ReleaseUnlink(p)

-----------------------------------------------------------------------------
(* The lease under any callers *)

\* Two launches with one workflow identity (pid, start token) never live at
\* once: the operating system hands a pid out again only after its owner ended.
MayStart(p) == \A q \in Launch \ {p} :
                 SameWorkflow(p, q) => Ended(q) \/ ~Started(q)

HasMarker(p) == marker # NoFile /\ marker.marker.taker = p

\* The process ends, at any point: a crash, a kill, or a normal exit.
Exit(p) == (HasMarker(p) => OrphanedMarkers) /\ Die(p)

Acquired(p) == result[p] \in {"ACQUIRED", "REPLACED_STALE"}

\* From the answer of acquire until it calls again, a launch takes itself for the owner.
Owns(p) == pc[p] = "out" /\ Acquired(p)

\* A caller acquires whenever it likes; what it releases it has once asked for.
LeaseNext ==
  \E p \in Launch :
    \/ ManagerStep(p)
    \/ MayStart(p) /\ BeginAcquire(p)
    \/ Started(p) /\ BeginRelease(p)
    \/ Exit(p)

LeaseSpec == LeaseInit /\ [][LeaseNext]_leaseVars

-----------------------------------------------------------------------------
(* Properties *)

\* What acquire is for: two launches are never told that the lease is theirs.
OneOwner == \A p, q \in Launch : Owns(p) /\ Owns(q) => p = q

\* stale/ records only leases whose owner has ended: a live owner's lease is
\* never archived as stale, whatever the probes answered in between.
OnlyTheEndedAreStale ==
  \A l \in Lease : archive[l] # "absent" => Ended(l.owner)

\* A whole lease leaves the disk only by its owner's hand or after its owner
\* ended: release and takeover unlink by path and must not hit a lease that
\* was put there since they looked.
NobodyLosesALiveLease ==
  [][lease # NoFile /\ lease.whole /\ lease' # lease
       => \/ Ended(lease.lease.owner)
          \/ pc[lease.lease.owner] # pc'[lease.lease.owner]]_leaseVars

\* Every call into the manager comes back, whatever the others do: contention
\* and churn end in UNCERTAIN after MAX_ATTEMPTS iterations, never in a loop.
EveryCallReturns ==
  \A p \in Launch \ Past :
    pc[p] \in Running \cup Releasing ~> pc[p] \in {"out", "ended"}

-----------------------------------------------------------------------------
(* The inductive invariant behind OneOwner when OrphanedMarkers = FALSE *)

\* Where a launch owns the takeover marker on disk.
UnderMarker == {"takeInspect", "probeAgain", "archive", "fillArchive", "recheck",
                "unlinkLease", "createReplacement", "fillReplacement", "ownRead",
                "ownUnlink"}

\* A launch inside the manager, or with its lease, has called acquire.
CallersStarted == \A p \in Launch : pc[p] \notin {"out", "ended"} \/ Acquired(p) => Started(p)

\* Launches with one workflow identity follow each other.
LivesFollow ==
  \A p, q \in Launch : p # q /\ SameWorkflow(p, q) /\ Started(p) /\ Started(q)
                        => Ended(p) \/ Ended(q)

Callers == {p \in Launch : Started(p)}

\* Every name on disk or in a local variable is that of a launch which has called.
NamesStarted ==
  /\ lease # NoFile => lease.lease.owner \in Callers
  /\ marker # NoFile => marker.marker.taker \in Callers /\ marker.marker.prev.owner \in Callers
  /\ \A p \in Launch :
       /\ mk[p] # NoFile => mk[p].taker \in Callers /\ mk[p].prev.owner \in Callers
       /\ seen[p] # NoFile => seen[p].owner \in Callers

WorkflowInv == CallersStarted /\ LivesFollow /\ NamesStarted

\* The local variables the current step of a launch relies on.
LocalOK(p) ==
  /\ pc[p] = "fillMarker" \/ pc[p] \in UnderMarker => mk[p] \in Marker /\ mk[p].taker = p
  /\ pc[p] \in {"probeTaker", "cleanRead", "cleanUnlink"} => mk[p] \in Marker
  /\ pc[p] \in {"probeOwner", "createMarker"} => seen[p] \in Lease
  /\ pc[p] \in Running => attempt[p] \in Attempt
  /\ pc[p] = "cleanRead" => Ended(mk[p].taker)
  /\ pc[p] \in {"archive", "fillArchive", "recheck", "unlinkLease"}
       => Ended(mk[p].prev.owner)

LocalInv == \A p \in Launch : LocalOK(p)

\* A takeover marker on disk has a living taker, and only that taker is
\* inside a takeover: nobody ever gets to clean another's marker.
MarkerOK(p) ==
  /\ pc[p] # "cleanUnlink"
  /\ pc[p] = "fillMarker" => marker = [marker |-> mk[p], whole |-> FALSE]
  /\ pc[p] \in UnderMarker => marker = WholeMarker(mk[p])

MarkerInv ==
  /\ marker # NoFile => ~Ended(marker.marker.taker)
  /\ \A p \in Launch : MarkerOK(p)

\* Where a launch relies on its lease being on disk.
Holds(p) ==
  \/ Owns(p)
  \/ pc[p] \in {"ownRead", "ownUnlink"} /\ Acquired(p)
  \/ pc[p] \in {"relMarker", "relUnlink"}

HolderOK(p) ==
  /\ Holds(p) => lease = Whole(Own(p))
  /\ pc[p] \in {"fillLease", "fillReplacement"}
       => lease = [lease |-> Own(p), whole |-> FALSE]
  /\ pc[p] = "unlinkLease" => lease = Whole(mk[p].prev)

HolderInv == \A p \in Launch : HolderOK(p)

BaseInv == LeaseTypeOK /\ WorkflowInv /\ LocalInv /\ OnlyTheEndedAreStale

IInv == BaseInv /\ MarkerInv /\ HolderInv
=============================================================================
