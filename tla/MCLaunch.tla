------------------------------- MODULE MCLaunch -------------------------------
(* Instances of ApplicationLaunch: two launches after one that has ended, and three *)
(* launches over one that has ended.                                          *)
EXTENDS ApplicationLaunch, TLC

CONSTANTS past, a, b, c

\* a has the workflow identity of the ended launch.
Reused == [p \in Launch |-> IF p = past THEN a ELSE p]

\* Every launch has a workflow identity of its own.
Fresh == [p \in Launch |-> p]

Alike == Permutations({a, b, c})

\* Launches that have all selected the one profile there is.
Selected ==
  /\ Init /\ Boot!LeaseInit /\ bootLease = NoFile
  /\ bootStage = [p \in Launch |-> IF p \in Past THEN "ended" ELSE "selected"]
  /\ profileFolders = [p \in Launch |-> IF p \in Past THEN "whole" ELSE "none"]

SelectedSpec == Selected /\ [][ShellNext]_allVars

\* Launches on a computer without a profile, where one died as the owner of the
\* bootstrap lease: they resolve, and open nothing.
NewMachine == ShellInit /\ lease = NoFile /\ bootLease # NoFile /\ Boot!Made = {}

NewMachineSpec ==
  NewMachine /\ [][\E p \in Launch : ResolveProfile(p) \/ EndProcess(p)]_allVars

-----------------------------------------------------------------------------

\* What profiles.py promises before a launch opens anything: ConsumerLaunch's property
\* of the folders of profiles, wherever the launches are in the two leases.
OneFirstProfile == Boot!OneFirstProfile
=============================================================================
