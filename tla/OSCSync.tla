------------------------------- MODULE OSCSync -------------------------------
(***************************************************************************)
(* Is what a node is started with rendered from the OSC there is?  Two     *)
(* things get in the way in osc_controller.go: the Deletes of a rotation   *)
(* are separate calls, and OSCs (in one cluster also secrets) are read     *)
(* from a cache.  This module adds a history variable to OSCReconciler     *)
(* that records when one of them went wrong for a MachineDeployment, and   *)
(* states what holds as long as neither did.  It restricts no behaviour of *)
(* OSCReconciler.                                                          *)
(***************************************************************************)
EXTENDS OSCReconciler

VARIABLE doubt    \* what has gone wrong since nothing of the configuration was left

hvars == <<vars, doubt>>

Doubts == {"stale", "missed", "torn"}

\* A Get is answered with another OSC than the present one, and Reconcile goes on with
\* it: it does not see that it has to rotate, or renders secrets from an OSC of the past.
Stale(m) ==
  /\ ReadOSC(m) # osc[m]
  /\ \/ /\ pc[m] = "checkRotation" /\ pc'[m] = "createBootstrapKubeconfig"
        /\ osc[m] # None /\ osc[m].stamp # Wanted(m)
     \/ pc[m] = "readOSC" /\ pc'[m] = "checkProvisioning"

\* A Get shows a cloud-config secret that is deleted, so it is not created again.
Missed(m) ==
  \E k \in SecretKinds : pc[m] = CheckPC[k] /\ ReadSecret(m, k) # None /\ secret[m][k] = None

\* A rotation or cleanup ends between the Deletes of the OSC and of the second secret.
Torn(m) ==
  pc[m] \in {"deleteProvisioning", "deleteBootstrap"} /\ pc'[m] \in {"idle", "backoff"}

Marks(m) == {d \in Doubts : CASE d = "stale"  -> Stale(m)
                              [] d = "missed" -> Missed(m)
                              [] d = "torn"   -> Torn(m)}

\* The OSC and both secrets are gone and no worker has gone on to make new ones: a
\* rotation has got that far, or the first one is still to come.
Blank(m) == osc[m] = None /\ secret[m] = NoSecrets /\ pc[m] \notin Building

HInit == Init /\ doubt = [m \in MD |-> {}]

HNext ==
  /\ Next
  /\ doubt' = [m \in MD |-> Marks(m) \cup IF Blank(m) THEN {} ELSE doubt[m]]

HSpec     == HInit /\ [][HNext]_hvars
HFairSpec == HSpec /\ Fairness

-----------------------------------------------------------------------------
(* Properties.                                                             *)

\* The rotation annotations of a secret are those of the OSC it was rendered from, unless
\* a stale Get misled the Reconcile that rendered it: ensureCloudConfigSecret stamps from
\* the MachineDeployment, read at the start, what it renders from the OSC, read later,
\* and users, failures and crashes come in between.
StampTruthful ==
  \A m \in MD, k \in SecretKinds :
     secret[m][k] # None /\ "stale" \notin doubt[m]
       => secret[m][k].stamp = secret[m][k].osc.stamp

\* When Reconcile returns without error the OSC and both secrets belong together and
\* carry the annotations of the MachineDeployment and OSP that Reconcile read, unless a
\* stale Get or an interrupted rotation got in the way since the last time nothing was
\* left.  Failed calls at any other place, conflicts and crashes are allowed.
\* (A step from there to "idle" that is no success is a crash, which counts as a fault.)
SuccessMeansInSync ==
  [][\A m \in MD :
       /\ pc[m] \in {"checkBootstrap", "createBootstrap"} /\ pc'[m] = "idle" /\ faults' = faults
       /\ doubt'[m] = {}
       => /\ osc'[m] # None /\ osc'[m].stamp = Wanted(m)
          /\ \A k \in SecretKinds : secret'[m][k] = [stamp |-> Wanted(m), osc |-> osc'[m]]]_hvars

\* Once users stop, the secrets too end up rendered from the OSC that is made from the
\* present template and OSP, for every MachineDeployment that no stale Get and no
\* interrupted rotation has touched since it was last without a configuration.  (Edge
\* MachineDeployments apart: generateEdgeScript stops their rotation, see Regenerated.)
Converges ==
  <>[](\A m \in MD : Alive(m) /\ ~md[m].edge /\ doubt[m] = {} => Complete(m) /\ Rendered(m))
=============================================================================
