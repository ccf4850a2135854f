-------------------------- MODULE ApplicationRuntime --------------------------
(***************************************************************************)
(* n0te2/app_runtime.py over the lease protocol of n0te2/instance.py: every *)
(* launch has one ApplicationRuntime, which opens the profile's            *)
(* Headquarters (its SQLite database) only under the profile's lease.      *)
(***************************************************************************)
EXTENDS InstanceLease

VARIABLES
  rt,   \* runtime state; the lower-case ones are inside launch() or quit()
  hq    \* does the launch have the profile's Headquarters open?

vars == <<leaseVars, rt, hq>>

RuntimeStates == {"STOPPED", "RUNNING", "RECOVERY_REQUIRED",
                  "acquiring", "opening", "installing", "aborting", "quitting"}

TypeOK ==
  /\ LeaseTypeOK
  /\ rt \in [Launch -> RuntimeStates]
  /\ hq \in [Launch -> BOOLEAN]

Init ==
  /\ LeaseInit
  /\ rt = [p \in Launch |-> "STOPPED"]
  /\ hq = [p \in Launch |-> FALSE]

Become(p, from, to) == rt[p] = from /\ rt' = [rt EXCEPT ![p] = to]
Open(p)  == hq' = [hq EXCEPT ![p] = TRUE]
Close(p) == hq' = [hq EXCEPT ![p] = FALSE]

\* launch(), up to InstanceLeaseManager.acquire
CallLaunch(p) ==
  /\ MayStart(p)
  /\ Become(p, "STOPPED", "acquiring")
  /\ BeginAcquire(p)
  /\ UNCHANGED hq

\* launch() after acquire: REOPEN_EXISTING, HELD_BY_OTHER, UNCERTAIN and an
\* exception leave the runtime as it was.
AcquireReturns(p) ==
  /\ pc[p] = "out"
  /\ Become(p, "acquiring", IF Acquired(p) THEN "opening" ELSE "STOPPED")
  /\ UNCHANGED <<leaseVars, hq>>

OpenHeadquarters(p) ==
  /\ ~Ended(p)
  /\ Become(p, "opening", "installing")
  /\ Open(p)
  /\ UNCHANGED leaseVars

\* The opener raised, or returned another profile's Headquarters, now closed.
OpenHeadquartersFails(p) ==
  /\ Become(p, "opening", "aborting")
  /\ BeginRelease(p)
  /\ UNCHANGED hq

InstallConsumer(p) ==
  /\ ~Ended(p)
  /\ Become(p, "installing", "RUNNING")
  /\ UNCHANGED <<leaseVars, hq>>

\* The installation raised: close the Headquarters and give the lease back.
InstallConsumerFails(p) ==
  \/ Become(p, "installing", "aborting") /\ Close(p) /\ BeginRelease(p)
  \/ ~Ended(p) /\ Become(p, "installing", "RECOVERY_REQUIRED") /\ UNCHANGED <<leaseVars, hq>>

\* A bug: the lease is released first, and the Headquarters closed by the next quit().
QuitWithoutClosing(p) ==
  \E from \in {"RUNNING", "RECOVERY_REQUIRED"} :
    Become(p, from, "quitting") /\ BeginRelease(p) /\ UNCHANGED hq

\* quit(), also the way out of RECOVERY_REQUIRED: the Headquarters is closed
\* before the lease is released.
CallQuit(p) ==
  \E from \in {"RUNNING", "RECOVERY_REQUIRED"} :
    \/ Become(p, from, "quitting") /\ Close(p) /\ BeginRelease(p)
    \/ /\ ~Ended(p) /\ hq[p]
       /\ Become(p, from, "RECOVERY_REQUIRED")
       /\ UNCHANGED <<leaseVars, hq>>

\* release() came back to the failed launch() or to quit().
ReleaseReturns(p) ==
  \E from \in {"aborting", "quitting"} :
    /\ pc[p] = "out"
    /\ Become(p, from, IF result[p] = "RELEASED" THEN "STOPPED" ELSE "RECOVERY_REQUIRED")
    /\ UNCHANGED <<leaseVars, hq>>

InManager(p) == ManagerStep(p) /\ UNCHANGED <<rt, hq>>

\* The process ends, at any point, and its Headquarters with it.
End(p) ==
  /\ Exit(p)
  /\ rt' = [rt EXCEPT ![p] = "STOPPED"]
  /\ Close(p)

Step(p) ==
  \/ InManager(p) \/ AcquireReturns(p) \/ OpenHeadquarters(p) \/ OpenHeadquartersFails(p)
  \/ InstallConsumer(p) \/ InstallConsumerFails(p) \/ ReleaseReturns(p)

Next == \E p \in Launch : Step(p) \/ CallLaunch(p) \/ CallQuit(p) \/ End(p)

Spec == Init /\ [][Next]_vars

-----------------------------------------------------------------------------
(* Properties *)

\* One runtime session per profile: two launches never have the profile's
\* Headquarters open at once (ApplicationRuntime's "Own one consumer runtime
\* session", launch()'s "do not open a second Headquarters").
OneHeadquarters == \A p, q \in Launch : hq[p] /\ hq[q] => p = q

\* The lease on disk names the launch whose Headquarters is open: nobody may
\* take the lease of a launch that still uses the database.
OpenUnderLease == \A p \in Launch : hq[p] => lease = Whole(Own(p))

-----------------------------------------------------------------------------
(* What ties the runtime to its lease *)

\* The runtime is inside the manager exactly when it waits for it, and has its
\* Headquarters open only while it takes itself for the owner of the lease.
SessionInv ==
  \A p \in Launch :
    /\ pc[p] \in Running => rt[p] = "acquiring"
    /\ pc[p] \in Releasing => rt[p] \in {"aborting", "quitting"}
    /\ Ended(p) => rt[p] = "STOPPED"
    /\ rt[p] # "STOPPED" => Started(p)
    /\ hq[p] => rt[p] \in {"installing", "RUNNING", "RECOVERY_REQUIRED"} /\ Owns(p)
    /\ rt[p] \in {"opening", "installing", "RUNNING"} => Owns(p)

=============================================================================
