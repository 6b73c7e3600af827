---------------------------- MODULE OSCReconciler ----------------------------
(***************************************************************************)
(* The operating-system-config controller                                  *)
(* (pkg/controllers/osc/osc_controller.go).  For every MachineDeployment   *)
(* it keeps one OperatingSystemConfig (OSC), the two cloud-config secrets  *)
(* rendered from it and the kubelet bootstrap kubeconfig secret, replaces  *)
(* ("rotates") them when the MachineDeployment or its                      *)
(* OperatingSystemProfile (OSP) changes, and removes them, guarded by a    *)
(* finalizer, when the MachineDeployment is deleted.                       *)
(*                                                                         *)
(* Reconcile is a sequence of calls to the API server; each call is one    *)
(* step, so users, the machine-controller, the informers and crashes get   *)
(* in between.  The work queue never gives one MachineDeployment to two    *)
(* workers, so there is one program counter per MachineDeployment.         *)
(***************************************************************************)
EXTENDS Naturals

CONSTANTS
  MD,                 \* names of MachineDeployments
  OSP,                \* names of OperatingSystemProfiles
  None,               \* no object
  CachedReads,        \* the kinds whose reads are served by an informer cache
  EdgeProvider,       \* subset of BOOLEAN: may a template name the "edge" provider
  RejectedOSPs,       \* OSPs that checkOSP refuses for these MachineDeployments
  UngeneratableOSPs,  \* OSPs from which no OSC can be generated
  MaxEdits,           \* bound: what users do, over the whole behaviour
  MaxFaults           \* bound: failed calls and crashes, over the whole behaviour

Kinds == {"md", "osp", "osc", "secret"}

ASSUME ConstantsAssumption ==
  /\ CachedReads \subseteq Kinds
  /\ EdgeProvider \subseteq BOOLEAN
  /\ RejectedOSPs \subseteq OSP /\ UngeneratableOSPs \subseteq OSP
  /\ MaxEdits \in Nat /\ MaxFaults \in Nat

VARIABLES
  md, osp, osc, secret, kubelet, script,     \* objects in the API server(s)
  mdView, ospView, oscView, secretView,      \* what the informer caches show
  kubeletView,
  queued, pc, cur, curOSP, src,              \* work queue and workers
  edits, faults                              \* what the environment has used up

api    == <<md, osp, osc, secret, kubelet, script>>
views  == <<mdView, ospView, oscView, secretView, kubeletView>>
worker == <<queued, pc, cur, curOSP, src>>
vars   == <<api, views, worker, edits, faults>>

-----------------------------------------------------------------------------
(* Objects.  A template is identified by the resourceVersion that wrote it; *)
(* "synced" is whether the machine-controller has counted this template in  *)
(* the revision annotation yet.                                             *)

SecretKinds == {"provisioning", "bootstrap"}

MDObj == [exists : BOOLEAN, deleting : BOOLEAN, fin : BOOLEAN, synced : BOOLEAN,
          edge : BOOLEAN, tmpl : Nat, rev : Nat, osp : OSP \cup {None}, rv : Nat]

NoMD(v) == [exists |-> FALSE, deleting |-> FALSE, fin |-> FALSE, synced |-> TRUE,
            edge |-> FALSE, tmpl |-> 0, rev |-> 0, osp |-> None, rv |-> v]

Stamps    == [rev : Nat, hash : Nat \X (OSP \cup {None}), ospVersion : Nat]
OSCObj    == [stamp : Stamps, tmpl : Nat]
SecretObj == [stamp : Stamps, osc : OSCObj]

ASSUME NoneAssumption == None \notin OSCObj /\ None \notin SecretObj

\* SHA-256 over the annotations: the revision and the OSP name among them.
calculateAnnotationsHash(o) == <<o.rev, o.osp>>

oscRotationAnnotations(o, v) ==
  [rev |-> o.rev, hash |-> calculateAnnotationsHash(o), ospVersion |-> v]

\* Reads through the client each kind is read with.
ReadMD(m)        == IF "md" \in CachedReads THEN mdView[m] ELSE md[m]
ReadOSP(p)       == IF "osp" \in CachedReads THEN ospView[p] ELSE osp[p]
ReadOSC(m)       == IF "osc" \in CachedReads THEN oscView[m] ELSE osc[m]
ReadSecret(m, k) == IF "secret" \in CachedReads THEN secretView[m][k] ELSE secret[m][k]
ReadKubelet(m)   == IF "secret" \in CachedReads THEN kubeletView[m] ELSE kubelet[m]

NoSecrets == [k \in SecretKinds |-> None]

Init ==
  /\ md = [m \in MD |-> NoMD(0)] /\ mdView = md
  /\ osp \in [OSP -> {0, 1}]     /\ ospView = osp
  /\ osc = [m \in MD |-> None]   /\ oscView = osc
  /\ secret = [m \in MD |-> NoSecrets] /\ secretView = secret
  /\ kubelet = [m \in MD |-> FALSE]    /\ kubeletView = kubelet
  /\ script = [m \in MD |-> FALSE]
  /\ queued = [m \in MD |-> FALSE] /\ pc = [m \in MD |-> "idle"]
  /\ cur = [m \in MD |-> NoMD(0)] /\ curOSP = [m \in MD |-> 0]
  /\ src = [m \in MD |-> None]
  /\ edits = 0 /\ faults = 0

-----------------------------------------------------------------------------
(* Control.                                                                *)

Cleaning == {"cleanupOSC", "deleteProvisioning", "deleteBootstrap", "deleteKubelet",
             "removeFinalizer"}
Building == {"createBootstrapKubeconfig", "checkOSC", "edgeScript", "createOSC", "readOSC",
             "checkProvisioning", "createProvisioning", "checkBootstrap", "createBootstrap"}
Busy     == Cleaning \cup Building \cup
            {"addFinalizer", "fetchOSP", "checkRotation", "rotateOSC"}

Goto(m, l) == pc' = [pc EXCEPT ![m] = l]

\* Reconcile returns and its local variables die.  After an error ("backoff") the
\* work queue runs the key again after a delay, after a success ("idle") only when
\* an event queues it.
Return(m, l) ==
  /\ Goto(m, l)
  /\ cur' = [cur EXCEPT ![m] = NoMD(0)]
  /\ curOSP' = [curOSP EXCEPT ![m] = 0]
  /\ src' = [src EXCEPT ![m] = None]

Locals == <<cur, curOSP, src>>
Error(m) == Return(m, "backoff") /\ UNCHANGED api

\* Mutant: Reconcile goes on without adding the finalizer.
StartWithoutFinalizer(m) ==
  /\ pc[m] = "backoff" \/ (pc[m] = "idle" /\ queued[m])
  /\ queued' = [queued EXCEPT ![m] = FALSE]
  /\ LET o == ReadMD(m) IN
     \/ /\ ~o.exists \/ (o.deleting /\ ~o.fin)
        /\ Return(m, "idle")
     \/ /\ o.exists /\ (o.fin \/ ~o.deleting)
        /\ cur' = [cur EXCEPT ![m] = o]
        /\ Goto(m, IF o.deleting THEN "cleanupOSC" ELSE "fetchOSP")
        /\ UNCHANGED <<curOSP, src>>
  /\ UNCHANGED <<api, views, edits, faults>>

\* Reconcile up to its first write: read the MachineDeployment and decide.
StartReconcile(m) ==
  /\ pc[m] = "backoff" \/ (pc[m] = "idle" /\ queued[m])
  /\ queued' = [queued EXCEPT ![m] = FALSE]
  /\ LET o == ReadMD(m) IN
     \/ /\ ~o.exists \/ (o.deleting /\ ~o.fin)
        /\ Return(m, "idle")
     \/ /\ o.exists /\ (o.fin \/ ~o.deleting)
        /\ cur' = [cur EXCEPT ![m] = o]
        /\ Goto(m, CASE o.deleting          -> "cleanupOSC"
                     [] ~o.deleting /\ ~o.fin -> "addFinalizer"
                     [] OTHER               -> "fetchOSP")
        /\ UNCHANGED <<curOSP, src>>
  /\ UNCHANGED <<api, views, edits, faults>>

\* An Update is applied only to the version that was read.
Current(m) == md[m].exists /\ md[m].rv = cur[m].rv

\* A MachineDeployment event reaches the queue: with the object in the cache
\* (SyncMD), or at once when MachineDeployments are read from the API server.
Notify(m) == IF "md" \in CachedReads THEN UNCHANGED queued
                                     ELSE queued' = [queued EXCEPT ![m] = TRUE]

AddFinalizer(m) ==
  /\ pc[m] = "addFinalizer"
  /\ \/ /\ Current(m)
        /\ md' = [md EXCEPT ![m].fin = TRUE, ![m].rv = @ + 1]
        /\ cur' = [cur EXCEPT ![m] = md'[m]]
        /\ Goto(m, "fetchOSP") /\ Notify(m)
        /\ UNCHANGED <<osp, osc, secret, kubelet, script, curOSP, src>>
     \/ ~Current(m) /\ Error(m) /\ UNCHANGED queued
  /\ UNCHANGED <<views, edits, faults>>

fetchOSP(m) ==
  /\ pc[m] = "fetchOSP"
  /\ LET v == ReadOSP(cur[m].osp) IN
     \/ /\ v = 0 \/ cur[m].osp \in RejectedOSPs
        /\ Error(m)
     \/ /\ v > 0 /\ cur[m].osp \notin RejectedOSPs
        /\ curOSP' = [curOSP EXCEPT ![m] = v]
        /\ Goto(m, "checkRotation")
        /\ UNCHANGED <<api, cur, src>>
  /\ UNCHANGED <<queued, views, edits, faults>>

-----------------------------------------------------------------------------
(* Rotation and cleanup.                                                   *)

Wanted(m) == oscRotationAnnotations(cur[m], curOSP[m])

\* Mutant: the version of the OSP is not compared.
CheckRotationIgnoresOSP(m) ==
  /\ pc[m] = "checkRotation"
  /\ LET o == ReadOSC(m) IN
     Goto(m, IF o = None
               \/ (o # None /\ [o.stamp EXCEPT !.ospVersion = curOSP[m]] = Wanted(m))
               THEN "createBootstrapKubeconfig" ELSE "rotateOSC")
  /\ UNCHANGED <<api, Locals, queued, views, edits, faults>>

\* Mutant: an OSC is never rotated.
CheckRotationNever(m) ==
  /\ pc[m] = "checkRotation"
  /\ Goto(m, "createBootstrapKubeconfig")
  /\ UNCHANGED <<api, Locals, queued, views, edits, faults>>

CheckRotation(m) ==
  /\ pc[m] = "checkRotation"
  /\ LET o == ReadOSC(m) IN
     Goto(m, IF o = None \/ (o # None /\ o.stamp = Wanted(m))
               THEN "createBootstrapKubeconfig" ELSE "rotateOSC")
  /\ UNCHANGED <<api, Locals, queued, views, edits, faults>>

\* Mutant: the rotation deletes only the kubelet kubeconfig secret.
RotateForgetsSecrets(m) ==
  /\ pc[m] = "rotateOSC"
  /\ \/ /\ osc[m] # None
        /\ osc' = [osc EXCEPT ![m] = None]
        /\ Goto(m, "deleteKubelet")
        /\ UNCHANGED <<md, osp, secret, kubelet, script, Locals>>
     \/ osc[m] = None /\ Error(m)
  /\ UNCHANGED <<queued, views, edits, faults>>

\* Mutant: the rotation leaves the secrets for ensureCloudConfigSecret to update.
RotateKeepsSecrets(m) ==
  /\ pc[m] = "rotateOSC"
  /\ \/ /\ osc[m] # None
        /\ osc' = [osc EXCEPT ![m] = None]
        /\ Goto(m, "createBootstrapKubeconfig")
        /\ UNCHANGED <<md, osp, secret, kubelet, script, Locals>>
     \/ osc[m] = None /\ Error(m)
  /\ UNCHANGED <<queued, views, edits, faults>>

\* The rotation's Delete, unlike the cleanup's, returns NotFound to its caller.
RotateOSC(m) ==
  /\ pc[m] = "rotateOSC"
  /\ \/ /\ osc[m] # None
        /\ osc' = [osc EXCEPT ![m] = None]
        /\ Goto(m, "deleteProvisioning")
        /\ UNCHANGED <<md, osp, secret, kubelet, script, Locals>>
     \/ osc[m] = None /\ Error(m)
  /\ UNCHANGED <<queued, views, edits, faults>>

\* Mutant: the cleanup goes on to the finalizer without deleteGeneratedSecrets.
CleanupForgetsSecrets(m) ==
  /\ pc[m] = "cleanupOSC"
  /\ osc' = [osc EXCEPT ![m] = None]
  /\ Goto(m, "removeFinalizer")
  /\ UNCHANGED <<md, osp, secret, kubelet, script, Locals, queued, views, edits, faults>>

\* Mutant: the cleanup's Delete does not ignore NotFound.
CleanupNeedsOSC(m) ==
  /\ pc[m] = "cleanupOSC"
  /\ \/ /\ osc[m] # None
        /\ osc' = [osc EXCEPT ![m] = None]
        /\ Goto(m, "deleteProvisioning")
        /\ UNCHANGED <<md, osp, secret, kubelet, script, Locals>>
     \/ osc[m] = None /\ Error(m)
  /\ UNCHANGED <<queued, views, edits, faults>>

deleteOperatingSystemConfig(m) ==
  /\ pc[m] = "cleanupOSC"
  /\ osc' = [osc EXCEPT ![m] = None]
  /\ Goto(m, "deleteProvisioning")
  /\ UNCHANGED <<md, osp, secret, kubelet, script, Locals, queued, views, edits, faults>>

DeleteProvisioning(m) ==
  /\ pc[m] = "deleteProvisioning"
  /\ secret' = [secret EXCEPT ![m]["provisioning"] = None]
  /\ Goto(m, "deleteBootstrap")
  /\ UNCHANGED <<md, osp, osc, kubelet, script, Locals, queued, views, edits, faults>>

DeleteBootstrap(m) ==
  /\ pc[m] = "deleteBootstrap"
  /\ secret' = [secret EXCEPT ![m]["bootstrap"] = None]
  /\ Goto(m, "deleteKubelet")
  /\ UNCHANGED <<md, osp, osc, kubelet, script, Locals, queued, views, edits, faults>>

\* The last secret; then the caller goes on: cleanup with the finalizer, rotation
\* with the re-creation.
DeleteKubelet(m) ==
  /\ pc[m] = "deleteKubelet"
  /\ kubelet' = [kubelet EXCEPT ![m] = FALSE]
  /\ Goto(m, IF cur[m].deleting THEN "removeFinalizer" ELSE "createBootstrapKubeconfig")
  /\ UNCHANGED <<md, osp, osc, secret, script, Locals, queued, views, edits, faults>>

\* Without the finalizer the object is gone, unless other finalizers hold it.
RemoveFinalizer(m) ==
  /\ pc[m] = "removeFinalizer"
  /\ \/ /\ Current(m)
        /\ \/ md' = [md EXCEPT ![m] = NoMD(md[m].rv + 1)]
           \/ md' = [md EXCEPT ![m].fin = FALSE, ![m].rv = @ + 1]
        /\ Return(m, "idle") /\ Notify(m)
        /\ UNCHANGED <<osp, osc, secret, kubelet, script>>
     \/ ~Current(m) /\ Error(m) /\ UNCHANGED queued
  /\ UNCHANGED <<views, edits, faults>>

-----------------------------------------------------------------------------
(* Creation.                                                               *)

\* The bootstrap manager, as far as the kubelet kubeconfig secret exists (module
\* Bootstrap has the tokens).  A cached read may show a secret that is deleted: it
\* is then left alone (token extended) or its Update fails (token new); or miss one
\* that is there, and the Create fails.  What else can go wrong with tokens, such as
\* two of them in a lagging cache, passes (Bootstrap!DuplicateHeals) and counts as Fail.
CreateBootstrapKubeconfig(m) ==
  /\ pc[m] = "createBootstrapKubeconfig"
  /\ \/ /\ ~ReadKubelet(m) /\ ~kubelet[m]
        /\ kubelet' = [kubelet EXCEPT ![m] = TRUE]
        /\ Goto(m, "checkOSC")
        /\ UNCHANGED <<md, osp, osc, secret, script, Locals>>
     \/ /\ ReadKubelet(m)
        /\ Goto(m, "checkOSC")
        /\ UNCHANGED <<api, Locals>>
     \/ ReadKubelet(m) # kubelet[m] /\ Error(m)
  /\ UNCHANGED <<queued, views, edits, faults>>

\* Only a Get without error means "exists": one that fails is taken for NotFound.
CheckOSC(m) ==
  /\ pc[m] = "checkOSC"
  /\ \/ /\ ReadOSC(m) # None
        /\ Goto(m, "readOSC")
        /\ UNCHANGED <<api, Locals, faults>>
     \/ /\ \/ ReadOSC(m) = None /\ UNCHANGED faults
           \/ ReadOSC(m) # None /\ faults < MaxFaults /\ faults' = faults + 1
        /\ \/ cur[m].osp \in UngeneratableOSPs /\ Error(m)
           \/ /\ cur[m].osp \notin UngeneratableOSPs
              /\ Goto(m, IF cur[m].edge THEN "edgeScript" ELSE "createOSC")
              /\ UNCHANGED <<api, Locals>>
  /\ UNCHANGED <<queued, views, edits>>

\* generateEdgeScript always Creates, so it fails on a script that is there.
generateEdgeScript(m) ==
  /\ pc[m] = "edgeScript"
  /\ \/ /\ ~script[m]
        /\ script' = [script EXCEPT ![m] = TRUE]
        /\ Goto(m, "createOSC")
        /\ UNCHANGED <<md, osp, osc, secret, kubelet, Locals>>
     \/ script[m] /\ Error(m)
  /\ UNCHANGED <<queued, views, edits, faults>>

\* Mutant: the OSC is created without the OSP version annotation.
CreateOSCUnversioned(m) ==
  /\ pc[m] = "createOSC"
  /\ \/ /\ osc[m] = None
        /\ osc' = [osc EXCEPT ![m] = [stamp |-> oscRotationAnnotations(cur[m], 0),
                                      tmpl |-> cur[m].tmpl]]
        /\ Goto(m, "readOSC")
        /\ UNCHANGED <<md, osp, secret, kubelet, script, Locals>>
     \/ osc[m] # None /\ Error(m)
  /\ UNCHANGED <<queued, views, edits, faults>>

CreateOSC(m) ==
  /\ pc[m] = "createOSC"
  /\ \/ /\ osc[m] = None
        /\ osc' = [osc EXCEPT ![m] = [stamp |-> Wanted(m), tmpl |-> cur[m].tmpl]]
        /\ Goto(m, "readOSC")
        /\ UNCHANGED <<md, osp, secret, kubelet, script, Locals>>
     \/ osc[m] # None /\ Error(m)
  /\ UNCHANGED <<queued, views, edits, faults>>

\* Mutant: reconcileSecrets goes on when its Get fails.
ReadBackUnchecked(m) ==
  /\ pc[m] = "readOSC"
  /\ src' = [src EXCEPT ![m] = ReadOSC(m)]
  /\ Goto(m, "checkProvisioning")
  /\ UNCHANGED <<api, cur, curOSP, queued, views, edits, faults>>

\* Mutant: reconcileSecrets starts with the bootstrap secret and misses the other.
ReadBackBootstrapFirst(m) ==
  /\ pc[m] = "readOSC"
  /\ \/ /\ ReadOSC(m) # None
        /\ src' = [src EXCEPT ![m] = ReadOSC(m)]
        /\ Goto(m, "checkBootstrap")
        /\ UNCHANGED <<api, cur, curOSP>>
     \/ ReadOSC(m) = None /\ Error(m)
  /\ UNCHANGED <<queued, views, edits, faults>>

\* reconcileSecrets renders the secrets from the OSC it reads back.
ReadBackOSC(m) ==
  /\ pc[m] = "readOSC"
  /\ \/ /\ ReadOSC(m) # None
        /\ src' = [src EXCEPT ![m] = ReadOSC(m)]
        /\ Goto(m, "checkProvisioning")
        /\ UNCHANGED <<api, cur, curOSP>>
     \/ ReadOSC(m) = None /\ Error(m)
  /\ UNCHANGED <<queued, views, edits, faults>>

CheckPC  == [provisioning |-> "checkProvisioning", bootstrap |-> "checkBootstrap"]
CreatePC == [provisioning |-> "createProvisioning", bootstrap |-> "createBootstrap"]

\* The secret of kind k is in place: on to the next one, or done.
SecretEnsured(m, k) ==
  \/ k = "provisioning" /\ Goto(m, "checkBootstrap") /\ UNCHANGED Locals
  \/ k = "bootstrap" /\ Return(m, "idle")

\* ensureCloudConfigSecret: the Get ...
CheckSecret(m, k) ==
  /\ pc[m] = CheckPC[k]
  /\ \/ ReadSecret(m, k) # None /\ SecretEnsured(m, k) /\ UNCHANGED faults
     \/ /\ \/ ReadSecret(m, k) = None /\ UNCHANGED faults
           \/ ReadSecret(m, k) # None /\ faults < MaxFaults /\ faults' = faults + 1
        /\ Goto(m, CreatePC[k]) /\ UNCHANGED Locals
  /\ UNCHANGED <<api, queued, views, edits>>

\* ... and the Create.
CreateSecret(m, k) ==
  /\ pc[m] = CreatePC[k]
  /\ \/ /\ secret[m][k] = None
        /\ secret' = [secret EXCEPT ![m][k] = [stamp |-> Wanted(m), osc |-> src[m]]]
        /\ SecretEnsured(m, k)
        /\ UNCHANGED <<md, osp, osc, kubelet, script>>
     \/ secret[m][k] # None /\ Error(m)
  /\ UNCHANGED <<queued, views, edits, faults>>

Step(m) ==
  \/ StartReconcile(m) \/ AddFinalizer(m) \/ fetchOSP(m)
  \/ CheckRotation(m) \/ RotateOSC(m) \/ deleteOperatingSystemConfig(m)
  \/ DeleteProvisioning(m) \/ DeleteBootstrap(m) \/ DeleteKubelet(m) \/ RemoveFinalizer(m)
  \/ CreateBootstrapKubeconfig(m) \/ CheckOSC(m) \/ generateEdgeScript(m) \/ CreateOSC(m)
  \/ ReadBackOSC(m)
  \/ \E k \in SecretKinds : CheckSecret(m, k) \/ CreateSecret(m, k)

-----------------------------------------------------------------------------
(* Failures.  A call whose effect happened but whose answer was lost is the *)
(* call's step followed by Fail.                                           *)

\* Mutant: Reconcile logs the error and returns nil.
FailSwallowed(m) ==
  /\ pc[m] \in Busy
  /\ faults < MaxFaults /\ faults' = faults + 1
  /\ Return(m, "idle")
  /\ UNCHANGED <<api, queued, views, edits>>

Fail(m) ==
  /\ pc[m] \in Busy
  /\ faults < MaxFaults /\ faults' = faults + 1
  /\ Error(m)
  /\ UNCHANGED <<queued, views, edits>>

\* The process dies and another takes over: its caches are filled and every
\* MachineDeployment it lists is queued before a worker runs.
Restart ==
  /\ faults < MaxFaults /\ faults' = faults + 1
  /\ \E m \in MD : pc[m] \in Busy
  /\ pc' = [m \in MD |-> "idle"]
  /\ cur' = [m \in MD |-> NoMD(0)] /\ curOSP' = [m \in MD |-> 0]
  /\ src' = [m \in MD |-> None]
  /\ queued' = [m \in MD |-> md[m].exists]
  /\ mdView'  = IF "md" \in CachedReads THEN md ELSE mdView
  /\ ospView' = IF "osp" \in CachedReads THEN osp ELSE ospView
  /\ oscView' = IF "osc" \in CachedReads THEN osc ELSE oscView
  /\ secretView'  = IF "secret" \in CachedReads THEN secret ELSE secretView
  /\ kubeletView' = IF "secret" \in CachedReads THEN kubelet ELSE kubeletView
  /\ UNCHANGED <<api, edits>>

-----------------------------------------------------------------------------
(* Informers.                                                              *)

SyncMD(m) ==
  /\ "md" \in CachedReads /\ mdView[m] # md[m]
  /\ mdView' = [mdView EXCEPT ![m] = md[m]]
  /\ queued' = [queued EXCEPT ![m] = TRUE]
  /\ UNCHANGED <<api, ospView, oscView, secretView, kubeletView, pc, Locals, edits, faults>>

SyncOSP(p) ==
  /\ "osp" \in CachedReads /\ ospView[p] # osp[p]
  /\ ospView' = [ospView EXCEPT ![p] = osp[p]]
  /\ UNCHANGED <<api, mdView, oscView, secretView, kubeletView, worker, edits, faults>>

SyncOSC(m) ==
  /\ "osc" \in CachedReads /\ oscView[m] # osc[m]
  /\ oscView' = [oscView EXCEPT ![m] = osc[m]]
  /\ UNCHANGED <<api, mdView, ospView, secretView, kubeletView, worker, edits, faults>>

SyncSecrets(m) ==
  /\ "secret" \in CachedReads
  /\ secretView[m] # secret[m] \/ kubeletView[m] # kubelet[m]
  /\ secretView' = [secretView EXCEPT ![m] = secret[m]]
  /\ kubeletView' = [kubeletView EXCEPT ![m] = kubelet[m]]
  /\ UNCHANGED <<api, mdView, ospView, oscView, worker, edits, faults>>

\* The manager's periodic resync queues every known MachineDeployment.
Resync(m) ==
  /\ ReadMD(m).exists /\ ~queued[m]
  /\ queued' = [queued EXCEPT ![m] = TRUE]
  /\ UNCHANGED <<api, views, pc, Locals, edits, faults>>

-----------------------------------------------------------------------------
(* Users, the machine-controller and other controllers.                    *)

WriteMD(m, o) ==
  /\ md' = [md EXCEPT ![m] = o]
  /\ Notify(m)
  /\ UNCHANGED <<osp, osc, secret, kubelet, script, views, pc, Locals, faults>>

Edit == edits < MaxEdits /\ edits' = edits + 1

UserCreate(m, p, e) ==
  /\ Edit /\ ~md[m].exists
  /\ WriteMD(m, [exists |-> TRUE, deleting |-> FALSE, fin |-> FALSE, synced |-> FALSE,
                 edge |-> e, tmpl |-> md[m].rv + 1, rev |-> 0, osp |-> p, rv |-> md[m].rv + 1])

EditTemplate(m) ==
  /\ Edit /\ md[m].exists
  /\ WriteMD(m, [md[m] EXCEPT !.tmpl = md[m].rv + 1, !.synced = FALSE, !.rv = @ + 1])

SwitchOSP(m, p) ==
  /\ Edit /\ md[m].exists /\ md[m].osp # p
  /\ WriteMD(m, [md[m] EXCEPT !.osp = p, !.rv = @ + 1])

\* Without our finalizer the object goes at once, unless others hold it.
UserDelete(m) ==
  /\ Edit /\ md[m].exists /\ ~md[m].deleting
  /\ \/ ~md[m].fin /\ WriteMD(m, NoMD(md[m].rv + 1))
     \/ WriteMD(m, [md[m] EXCEPT !.deleting = TRUE, !.rv = @ + 1])

\* A new version of an OSP (the webhook admits no change without one).
PublishOSP(p) ==
  /\ Edit
  /\ osp' = [osp EXCEPT ![p] = @ + 1]
  /\ UNCHANGED <<md, osc, secret, kubelet, script, views, worker, faults>>

\* machine-controller counts the new template in the revision annotation.
BumpRevision(m) ==
  /\ md[m].exists /\ ~md[m].deleting /\ ~md[m].synced
  /\ WriteMD(m, [md[m] EXCEPT !.rev = @ + 1, !.synced = TRUE, !.rv = @ + 1])
  /\ UNCHANGED edits

OtherFinalizersDone(m) ==
  /\ md[m].exists /\ md[m].deleting /\ ~md[m].fin
  /\ WriteMD(m, NoMD(md[m].rv + 1))
  /\ UNCHANGED edits

User ==
  \/ \E m \in MD : EditTemplate(m) \/ UserDelete(m)
  \/ \E m \in MD, p \in OSP : SwitchOSP(m, p) \/ \E e \in EdgeProvider : UserCreate(m, p, e)
  \/ \E p \in OSP : PublishOSP(p)

Informer == \/ \E m \in MD : SyncMD(m) \/ SyncOSC(m) \/ SyncSecrets(m) \/ Resync(m)
            \/ \E p \in OSP : SyncOSP(p)

OtherControllers == \E m \in MD : BumpRevision(m) \/ OtherFinalizersDone(m)

Next ==
  \/ \E m \in MD : Step(m) \/ Fail(m)
  \/ Restart \/ Informer \/ OtherControllers \/ User

\* Workers, informers and the machine-controller keep going; users owe nothing, and
\* no call has to fail.
Fairness ==
  /\ \A m \in MD : /\ WF_vars(Step(m)) /\ WF_vars(BumpRevision(m)) /\ WF_vars(SyncMD(m))
                   /\ WF_vars(SyncOSC(m)) /\ WF_vars(SyncSecrets(m)) /\ WF_vars(Resync(m))
  /\ \A p \in OSP : WF_vars(SyncOSP(p))

Spec     == Init /\ [][Next]_vars
FairSpec == Spec /\ Fairness

-----------------------------------------------------------------------------
(* Properties.                                                             *)

OSCOrNone    == OSCObj \cup {None}
SecretOrNone == SecretObj \cup {None}
SecretMap    == [SecretKinds -> SecretOrNone]

\* Every variable keeps its type; in particular a secret is always rendered from an
\* OSC that was really read (reconcileSecrets returns when its Get fails).
TypeOK ==
  /\ md \in [MD -> MDObj] /\ mdView \in [MD -> MDObj] /\ cur \in [MD -> MDObj]
  /\ osp \in [OSP -> Nat] /\ ospView \in [OSP -> Nat] /\ curOSP \in [MD -> Nat]
  /\ osc \in [MD -> OSCOrNone] /\ oscView \in [MD -> OSCOrNone] /\ src \in [MD -> OSCOrNone]
  /\ secret \in [MD -> SecretMap] /\ secretView \in [MD -> SecretMap]
  /\ kubelet \in [MD -> BOOLEAN] /\ kubeletView \in [MD -> BOOLEAN]
  /\ script \in [MD -> BOOLEAN] /\ queued \in [MD -> BOOLEAN]
  /\ pc \in [MD -> Busy \cup {"idle", "backoff"}]
  /\ edits \in Nat /\ faults \in Nat

\* What rotation and cleanup delete again.  The edge script secret is not among it: see
\* NothingLeftBehind.
Resources == {"osc", "provisioning", "bootstrap", "kubelet"}

Present(m) == {r \in Resources : CASE r = "osc"          -> osc[m] # None
                                   [] r = "kubelet"      -> kubelet[m]
                                   [] r \in SecretKinds -> secret[m][r] # None}

\* MachineDeploymentCleanupFinalizer: the OSC, the two cloud-config secrets and the
\* kubelet kubeconfig secret of a MachineDeployment exist only while that
\* MachineDeployment exists and carries the finalizer.  With stale reads, conflicting
\* updates, crashes and re-created MachineDeployments, none of these four is ever left
\* without something that will delete it.
Protected ==
  \A m \in MD : Present(m) # {} => md[m].exists /\ md[m].fin

\* The controller implements the contract of module ConfigLifecycle, step by step.
Lifecycle == INSTANCE ConfigLifecycle WITH
               Owner   <- MD,
               guarded <- {m \in MD : md[m].exists /\ md[m].fin},
               held    <- [m \in MD |-> Present(m)]

\* Every step of the controller and of its environment is a step of ConfigLifecycle
\* or leaves the contract's state alone: the finalizer is there before the first
\* Create and until after the last Delete, and objects come and go in the order of
\* reconcileOperatingSystemConfigs, reconcileSecrets and deleteGeneratedSecrets.
ImplementsLifecycle == Lifecycle!Spec

\* reconcileOperatingSystemConfigs creates the kubelet kubeconfig secret first and
\* deleteGeneratedSecrets deletes it last: a configuration that nodes can be started
\* with always has the kubeconfig its nodes fetch.
ConfigBacked ==
  \A m \in MD : Present(m) \subseteq {"kubelet"} \/ "kubelet" \in Present(m)

\* A bootstrap secret, on which the machine-controller starts machines, without the
\* provisioning secret those machines fetch, is never left to itself: a worker is on
\* it, or the queue will run it again (Reconcile returns every error).
NodeCanProvision ==
  \A m \in MD : "bootstrap" \in Present(m) /\ "provisioning" \notin Present(m)
                  => pc[m] # "idle" \/ queued[m]

\* ensureCloudConfigSecret stamps from the MachineDeployment what it renders from the
\* OSC: "we do not check the hash here as OSC also regenerates Secrets".  The annotations
\* of a secret are always those of the OSC it was rendered from.  (StampTruthful of module
\* OSCSync is the part of it that holds.)
StampAlwaysTruthful ==
  \A m \in MD, k \in SecretKinds :
     secret[m][k] # None => secret[m][k].stamp = secret[m][k].osc.stamp

Usable(p) == osp[p] > 0 /\ p \notin RejectedOSPs \cup UngeneratableOSPs
Alive(m)  == md[m].exists /\ ~md[m].deleting /\ Usable(md[m].osp)

\* The OSC is made from the present template and OSP, and everything a node needs
\* is there.
Complete(m) ==
  /\ osc[m] = [stamp |-> oscRotationAnnotations(md[m], osp[md[m].osp]), tmpl |-> md[m].tmpl]
  /\ Present(m) = Resources

Rendered(m) == \A k \in SecretKinds : secret[m][k] # None => secret[m][k].osc = osc[m]

\* Once users stop, every MachineDeployment with a usable OSP gets, and keeps, an OSC
\* made from its present template and OSP, and next to it both secrets and the
\* kubeconfig: no interleaving of stale reads, conflicts, failed calls and crashes leaves
\* one of the four missing, the OSC out of date or the rotation going on for ever.  (What
\* the secrets were rendered from is OSCSync!Converges.  Edge MachineDeployments apart:
\* generateEdgeScript stops their rotation, see Regenerated.)
EventuallyComplete == <>[](\A m \in MD : Alive(m) /\ ~md[m].edge => Complete(m))

\* Deleting a MachineDeployment ends: the finalizer goes, even when calls fail halfway
\* through the cleanup, when others keep editing the object, or when its OSP is
\* unusable.
CleanupCompletes == \A m \in MD : md[m].deleting /\ md[m].fin ~> ~md[m].fin

\* handleOSCAndSecretsRotation: "Delete the existing OSC and let the controller
\* re-create them. ... Delete the existing secrets and let the controller re-create
\* them."  Whatever goes wrong on the way, the OSC and both secrets end up made for the
\* present MachineDeployment and OSP.
Regenerated == <>[](\A m \in MD : Alive(m) => Complete(m) /\ Rendered(m))

\* MachineDeploymentCleanupFinalizer: "sub-resources created by OSC controller against a
\* MachineDeployment should be deleted".  Nothing that was created for it outlives the
\* MachineDeployment, the secret with the edge provider's script included.
NothingLeftBehind ==
  \A m \in MD : script[m] \/ Present(m) # {} => md[m].exists
=============================================================================
