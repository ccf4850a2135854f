---------------------------- MODULE ConsumerLaunch ----------------------------
(***************************************************************************)
(* n0te2/profiles.py before n0te2/app_runtime.py: every launch looks for the   *)
(* artist's profile, and makes the first one if there is none.               *)
(*                                                                         *)
(* The first profile is made under a lease of InstanceLeaseManager on the    *)
(* profile id __profile_bootstrap__: lease.json, takeover.json and stale/ of   *)
(* InstanceLease are here those of that id, and its calls take all their steps. *)
(***************************************************************************)
EXTENDS InstanceLease

VARIABLES
  stage,      \* where each launch is in the shell and in resolve()
  folders     \* the profile a launch made a folder for, "whole" once committed

bootVars   == <<stage, folders>>
launchVars == <<leaseVars, bootVars>>

Stages == {"new", "shell", "asked", "owner", "creating", "filling", "leaving",
           "releasing", "selected", "ended"}

\* Where a launch acts as the owner of the bootstrap lease.
Bootstrapping == {"owner", "creating", "filling", "leaving"}

BootTypeOK ==
  /\ stage \in [Launch -> Stages]
  /\ folders \in [Launch -> {"none", "begun", "whole"}]

\* A launch of the past may have ended anywhere in resolve(), its lease on disk.
BootInit ==
  /\ stage = [p \in Launch |-> IF p \in Past THEN "ended" ELSE "new"]
  /\ folders \in [Launch -> {"none", "begun", "whole"}]
  /\ \A p, q \in Launch : folders[p] # "none" => p \in Past /\ (folders[q] # "none" => q = p)

LaunchInit == LeaseInit /\ BootInit

Move(p, from, to) == stage[p] = from /\ stage' = [stage EXCEPT ![p] = to]

Made == {q \in Launch : folders[q] # "none"}

\* _inspect_profile_read_only: a folder without its committed database is an issue.
Unreadable(q) == folders[q] = "begun"

\* discover and _existing_resolution: one folder that cannot be read stops it all.
RecoveryRequired == \E q \in Made : Unreadable(q)
NeedsCreation    == Made = {}
SelectedExisting == ~RecoveryRequired /\ \E q \in Launch : Made = {q}

Awake(p) == stage[p] \notin {"new", "ended"}

\* The process starts: no other one of its workflow identity lives.
StartShell(p) ==
  /\ \A q \in Launch \ {p} : SameWorkflow(p, q) => ~Awake(q)
  /\ Move(p, "new", "shell")
  /\ UNCHANGED <<leaseVars, folders>>

\* _ensure_runtime finds the one profile; the other resolutions are a page.
EnsureRuntime(p) ==
  /\ SelectedExisting
  /\ Move(p, "shell", "selected")
  /\ UNCHANGED <<leaseVars, folders>>

\* _post_create_profile: resolve() with a name, up to the call of acquire.
PostCreateProfile(p) ==
  /\ NeedsCreation
  /\ Move(p, "shell", "asked")
  /\ BeginAcquire(p)
  /\ UNCHANGED folders

InLeases(p) == ManagerStep(p) /\ UNCHANGED bootVars

\* acquire came back with the lease, ...
AcquireBootstrap(p) ==
  /\ Owns(p)
  /\ Move(p, "asked", "owner")
  /\ UNCHANGED <<leaseVars, folders>>

\* ... or without it: BOOTSTRAP_BUSY, an uncertain owner or an exception, and the page again.
BootstrapBusy(p) ==
  /\ pc[p] = "out" /\ ~Acquired(p)
  /\ Move(p, "asked", "shell")
  /\ UNCHANGED <<leaseVars, folders>>

\* A bug: what was seen before the lease was taken is relied on.
TrustFirstLook(p) ==
  /\ Move(p, "owner", "creating")
  /\ UNCHANGED <<leaseVars, folders>>

\* resolve() looks again under the lease.
DiscoverLocked(p) ==
  /\ Move(p, "owner", IF NeedsCreation THEN "creating" ELSE "leaving")
  /\ UNCHANGED <<leaseVars, folders>>

\* LineageStore.create: the folder, a fresh name, comes before what makes it a profile.
MakeFolder(p) ==
  /\ Move(p, "creating", "filling")
  /\ folders' = [folders EXCEPT ![p] = "begun"]
  /\ UNCHANGED leaseVars

InitializeLineage(p) ==
  /\ Move(p, "filling", "leaving")
  /\ folders' = [folders EXCEPT ![p] = "whole"]
  /\ UNCHANGED leaseVars

\* An exception leaves what there is.
CreateFails(p) ==
  /\ \E from \in {"owner", "creating", "filling"} : Move(p, from, "leaving")
  /\ UNCHANGED <<leaseVars, folders>>

\* The finally of resolve() calls release, and the page that follows, whatever release
\* said, resolves again.
ReleaseBootstrap(p) ==
  /\ Move(p, "leaving", "releasing")
  /\ BeginRelease(p)
  /\ UNCHANGED folders

ReleaseBootstrapReturns(p) ==
  /\ pc[p] = "out"
  /\ Move(p, "releasing", "shell")
  /\ UNCHANGED <<leaseVars, folders>>

EndShell(p) ==
  /\ Awake(p) /\ Exit(p)
  /\ stage' = [stage EXCEPT ![p] = "ended"]
  /\ UNCHANGED folders

ShellStep(p) ==
  \/ StartShell(p) \/ EnsureRuntime(p) \/ PostCreateProfile(p) \/ InLeases(p)
  \/ AcquireBootstrap(p) \/ BootstrapBusy(p) \/ DiscoverLocked(p)
  \/ MakeFolder(p) \/ InitializeLineage(p) \/ CreateFails(p)
  \/ ReleaseBootstrap(p) \/ ReleaseBootstrapReturns(p)

LaunchNext == \E p \in Launch : ShellStep(p) \/ EndShell(p)

LaunchSpec == LaunchInit /\ [][LaunchNext]_launchVars

-----------------------------------------------------------------------------

\* However many launches meet on a new machine, and wherever one of them stops, they
\* never make a second first profile, and no launch goes on to open a profile while
\* there is one that was only begun.
OneFirstProfile ==
  /\ \A p, q \in Made : p = q
  /\ \A p \in Launch : stage[p] = "selected" => \A q \in Made : folders[q] = "whole"

-----------------------------------------------------------------------------
(* The inductive invariant behind it, over that of the lease *)

OwnerInv ==
  \A p \in Launch :
    /\ stage[p] \in Bootstrapping => Owns(p)
    /\ stage[p] = "creating" => Made = {}
    /\ stage[p] = "filling" => Made = {p}
    /\ Ended(p) <=> stage[p] = "ended"
    /\ Started(p) => stage[p] # "new"
    /\ stage[p] = "selected" => Made # {} /\ \A q \in Made : folders[q] = "whole"

WorkflowsApart ==
  \A p, q \in Launch : p # q /\ SameWorkflow(p, q) => ~Awake(p) \/ ~Awake(q)

BootInv == BootTypeOK /\ OwnerInv /\ WorkflowsApart /\ OneFirstProfile
=============================================================================
