--------------------------- MODULE ApplicationLaunch ---------------------------
(***************************************************************************)
(* consumer_shell.py from its start to quit(): a launch resolves its profile  *)
(* (ConsumerLaunch, over the lease __profile_bootstrap__) and then calls the  *)
(* runtime on it (ApplicationRuntime, over the lease of the profile).  The    *)
(* two leases are files of different folders; a process ends for both.       *)
(***************************************************************************)
EXTENDS ApplicationRuntime

VARIABLES bootLease, bootMarker, bootArchive, bootPc, bootCall, bootAttempt, bootMk,
          bootSeen, bootResult, bootStage, profileFolders

Boot == INSTANCE ConsumerLaunch WITH
          lease <- bootLease, marker <- bootMarker, archive <- bootArchive, pc <- bootPc,
          call <- bootCall, attempt <- bootAttempt, mk <- bootMk, seen <- bootSeen,
          result <- bootResult, stage <- bootStage, folders <- profileFolders

shellVars == <<bootLease, bootMarker, bootArchive, bootPc, bootCall, bootAttempt, bootMk,
               bootSeen, bootResult, bootStage, profileFolders>>
allVars   == <<vars, shellVars>>

\* Only a profile that was once whole has been leased.
ShellInit ==
  /\ Init /\ Boot!LaunchInit
  /\ lease # NoFile => \E p \in Past : profileFolders[p] = "whole"

ResolveProfile(p) == Boot!ShellStep(p) /\ UNCHANGED vars

\* _launch_profile calls the runtime on what was selected.  Bound: a launch makes
\* MaxCalls calls of acquire, whichever the lease.
LaunchProfile(p) ==
  /\ bootStage[p] = "selected"
  /\ \/ Step(p)
     \/ CallLaunch(p) /\ call[p] + bootCall[p] < MaxCalls
     \/ CallQuit(p)
  /\ UNCHANGED shellVars

EndProcess(p) == Boot!EndShell(p) /\ End(p)

ShellNext == \E p \in Launch : ResolveProfile(p) \/ LaunchProfile(p) \/ EndProcess(p)

ShellSpec == ShellInit /\ [][ShellNext]_allVars

\* A launch that is inside a call of the manager keeps running its Python code.
FairShellSpec ==
  ShellSpec /\ \A p \in Launch \ Past : WF_leaseVars(ManagerStep(p))

=============================================================================
