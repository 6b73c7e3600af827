------------------------ MODULE OperatingSystemManager ------------------------
(***************************************************************************)
(* The two controllers of one manager, composed: OSPs, as OSPController    *)
(* and its webhook let them change, and the OSCs that the operating-system *)
(* config controller makes of what the cache, which both controllers read, *)
(* shows of them.  One MachineDeployment uses each OSP.                    *)
(*                                                                         *)
(* Of Reconcile (osc_controller.go) only what depends on the OSP is here:  *)
(* its read, the comparison of versions, the rotation and the Create.      *)
(* Secrets, finalizer and caches of OSCs are in module OSCReconciler.      *)
(***************************************************************************)
EXTENDS OSPController

VARIABLES
  osc,         \* the profile from which the OSC for each name was generated
  at, read,    \* the worker for it, and the profile it has read
  retired      \* history: what was in an OSP before it was deleted or its version changed

consumers   == <<osc, at, read>>
managerVars == <<vars, consumers, retired>>

ManagerInit ==
  /\ Init
  /\ osc = [n \in Names |-> None] /\ read = osc
  /\ at = [n \in Names |-> "idle"] /\ retired = [n \in Names |-> {}]

\* A step of OSPController; another release is another process.
ProfileStep ==
  /\ Next
  /\ osc' = osc
  /\ IF release' = release THEN UNCHANGED <<at, read>>
     ELSE at' = [n \in Names |-> "idle"] /\ read' = [n \in Names |-> None]
  /\ retired' = [n \in Names |->
       IF osp[n] # None /\ (osp'[n] = None \/ osp'[n].version # osp[n].version)
         THEN retired[n] \cup {osp[n]} ELSE retired[n]]

Goto(n, l) == at' = [at EXCEPT ![n] = l]
Done(n)    == Goto(n, "idle") /\ read' = [read EXCEPT ![n] = None]

\* Without the OSP Reconcile fails here, and with an OSC of its version it has nothing to do.
fetchOSP(n) ==
  /\ at[n] = "idle" /\ view[n] # None
  /\ read' = [read EXCEPT ![n] = view[n]]
  /\ \/ osc[n] = None /\ Goto(n, "create")
     \/ osc[n] # None /\ osc[n].version # view[n].version /\ Goto(n, "rotate")
  /\ UNCHANGED <<vars, osc, retired>>

handleOSCAndSecretsRotation(n) ==
  /\ at[n] = "rotate"
  /\ osc' = [osc EXCEPT ![n] = None]
  /\ Goto(n, "create")
  /\ UNCHANGED <<vars, read, retired>>

reconcileOperatingSystemConfigs(n) ==
  /\ at[n] = "create"
  /\ osc' = [osc EXCEPT ![n] = read[n]]
  /\ Done(n)
  /\ UNCHANGED <<vars, retired>>

Reconcile(n) ==
  fetchOSP(n) \/ handleOSCAndSecretsRotation(n) \/ reconcileOperatingSystemConfigs(n)

ReconcileFails(n) ==
  /\ at[n] # "idle" /\ faults < MaxFaults /\ faults' = faults + 1
  /\ Done(n)
  /\ UNCHANGED <<disabled, release, osp, rv, view, viewRV, queued, pc, curRV, edits, osc, retired>>

ManagerNext == ProfileStep \/ \E n \in Names : Reconcile(n) \/ ReconcileFails(n)

\* Failed Reconciles are repeated, and the resync of MachineDeployments calls Reconcile
\* again and again without any event.
ManagerSpec ==
  /\ ManagerInit /\ [][ManagerNext]_managerVars
  /\ \A n \in Names : /\ WF_vars(Step(n)) /\ WF_vars(SyncOSP(n))
                      /\ WF_managerVars(Reconcile(n))

-----------------------------------------------------------------------------
(* Properties.                                                             *)

\* The two ways past the webhook: a version that the OSP had before, with other content,
\* comes back after a deletion or after another version.
Reissued(n) == \E p \in retired[n] : p.version = osp[n].version /\ p # osp[n]

\* Reconcile leaves an OSC alone when its version is that of the OSP it has read.  That is
\* safe: an OSC never has the version of its OSP and other content, though the cache, the
\* worker and the OSP controller may all have been at work on older states of the OSP,
\* unless a version was reissued.
VersionsSuffice ==
  \A n \in Names : /\ osc[n] # None /\ osp[n] # None /\ osc[n].version = osp[n].version
                   /\ ~Reissued(n)
                   => osc[n] = osp[n]

\* "any modifications to an existing OSP requires a version bump" (README.md), and
\* so comparing versions is enough: users, the OSP controller, upgrades and stale reads
\* aside, an OSC comes to have the content of its OSP, unless a version was reissued.
FollowsProfile ==
  <>[](\A n \in Names : osp[n] # None /\ ~Reissued(n) => osc[n] = osp[n])
===============================================================================
