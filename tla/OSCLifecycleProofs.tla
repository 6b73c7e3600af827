------------------------- MODULE OSCLifecycleProofs -------------------------
(* The order in which objects come and go, where secrets are read from the  *)
(* API server (a manager with a separate worker cluster): ConfigBacked,     *)
(* NodeCanProvision and the refinement of ConfigLifecycle, for every value  *)
(* of the other constants.                                                  *)
EXTENDS OSCReconcilerProofs

-----------------------------------------------------------------------------
(* ConfigBacked is not inductive: the worker that creates the OSC and the   *)
(* secrets relies on a kubeconfig secret that it found, or made, earlier,   *)
(* and the one that creates the bootstrap secret on the provisioning        *)
(* secret.  What it relies on is still there because nobody else deletes    *)
(* it, and, by Progress, the kubeconfig goes when nothing else is left.     *)

AfterKubelet == {"checkOSC", "edgeScript", "createOSC", "readOSC"} \cup Rendering

Backed(n) ==
  /\ pc[n] \in AfterKubelet => kubelet[n]
  /\ osc[n] # None \/ secret[n]["provisioning"] # None \/ secret[n]["bootstrap"] # None
       => kubelet[n]
  /\ pc[n] \in {"checkBootstrap", "createBootstrap"} => secret[n]["provisioning"] # None

BackedInv == \A n \in MD : Backed(n)

\* A step that leaves the objects of n alone, and its worker where it is or back at the
\* beginning, keeps Backed(n).
LEMMA BackedFrame ==
  ASSUME NEW n \in MD, Backed(n), pc'[n] \in {pc[n], "idle", "backoff"},
         osc'[n] = osc[n], secret'[n] = secret[n], kubelet'[n] = kubelet[n]
  PROVE  Backed(n)'
  BY DEF Backed, AfterKubelet, Rendering

\* A step from before the kubeconfig is there, to another such place, keeps Backed(n)
\* too, and so does one to any place that does not rely on the provisioning secret.
LEMMA BackedGoto ==
  ASSUME NEW n \in MD, TypeInv, Backed(n), NEW l, Goto(n, l),
         l \in AfterKubelet => kubelet[n],
         l \in {"checkBootstrap", "createBootstrap"} => secret[n]["provisioning"] # None,
         osc'[n] = osc[n], secret'[n] = secret[n], kubelet'[n] = kubelet[n]
  PROVE  Backed(n)'
  <1>1. pc'[n] = l
    BY DEF Goto, TypeInv, WorkersOK
  <1> QED BY <1>1 DEF Backed

\* Returning keeps Backed(n).
LEMMA BackedReturn ==
  ASSUME NEW n \in MD, TypeInv, Backed(n), NEW l \in {"idle", "backoff"}, Return(n, l),
         osc'[n] = osc[n], secret'[n] = secret[n], kubelet'[n] = kubelet[n]
  PROVE  Backed(n)'
  <1>1. pc'[n] = l
    BY DEF Return, Goto, TypeInv, WorkersOK
  <1> QED BY <1>1, BackedFrame

\* Failures, informers, users and other controllers leave the objects alone, and a
\* worker where it is or back at the beginning.
LEMMA EnvironmentFrame ==
  ASSUME TypeInv, NEW n \in MD,
         (\E m \in MD : Fail(m)) \/ Restart \/ Informer \/ OtherControllers \/ User
  PROVE  /\ UNCHANGED <<osc, secret, kubelet, script>>
         /\ pc'[n] \in {pc[n], "idle", "backoff"}
  <1>1. ASSUME NEW m \in MD, Fail(m)
        PROVE  UNCHANGED <<osc, secret, kubelet, script>> /\ pc'[n] \in {pc[n], "backoff"}
    BY <1>1 DEF Fail, Error, Return, Goto, api, TypeInv, WorkersOK
  <1>2. CASE Restart
    BY <1>2 DEF Restart, api
  <1>3. CASE Informer
    BY <1>3 DEF Informer, SyncMD, SyncOSC, SyncSecrets, Resync, SyncOSP, api, worker
  <1>4. ASSUME NEW m, NEW o, WriteMD(m, o) PROVE UNCHANGED <<osc, secret, kubelet, script, pc>>
    BY <1>4 DEF WriteMD
  <1>5. CASE OtherControllers
    BY <1>4, <1>5 DEF OtherControllers, BumpRevision, OtherFinalizersDone
  <1>6. CASE User
    <2>1. ASSUME NEW p \in OSP, PublishOSP(p) PROVE UNCHANGED <<osc, secret, kubelet, script, pc>>
      BY <2>1 DEF PublishOSP, worker
    <2> QED BY <1>4, <1>6, <2>1 DEF User, EditTemplate, UserDelete, SwitchOSP, UserCreate
  <1> QED BY <1>1, <1>2, <1>3, <1>5, <1>6

\* A worker's step keeps Backed of its own MachineDeployment.
LEMMA BackedOwnStep ==
  ASSUME "secret" \notin CachedReads, TypeInv, NEW m \in MD, GuardAt(m), Backed(m), Step(m)
  PROVE  Backed(m)'
  <1> USE DEF AfterKubelet, Rendering
  <1>a. ASSUME Error(m) PROVE Backed(m)'
    BY <1>a, BackedReturn DEF Error, api
  <1>1. CASE StartReconcile(m)
    <2>1. CASE Return(m, "idle")
      BY <1>1, <2>1, BackedReturn DEF StartReconcile, api
    <2>2. CASE ~Return(m, "idle")
      <3>1. PICK l \in {"cleanupOSC", "addFinalizer", "fetchOSP"} : Goto(m, l)
        BY <1>1, <2>2 DEF StartReconcile
      <3> QED BY <1>1, <3>1, BackedGoto DEF StartReconcile, api
    <2> QED BY <2>1, <2>2
  <1>2. CASE AddFinalizer(m)
    <2>1. CASE Current(m)
      BY <1>2, <2>1, BackedGoto DEF AddFinalizer
    <2> QED BY <1>2, <1>a, <2>1 DEF AddFinalizer
  <1>3. CASE fetchOSP(m)
    <2>1. CASE ~Error(m)
      BY <1>3, <2>1, BackedGoto DEF fetchOSP, api
    <2> QED BY <1>a, <2>1
  <1>4. CASE CheckRotation(m)
    <2>1. PICK l \in {"createBootstrapKubeconfig", "rotateOSC"} : Goto(m, l)
      BY <1>4 DEF CheckRotation
    <2> QED BY <1>4, <2>1, BackedGoto DEF CheckRotation, api
  <1>5. CASE RotateOSC(m) \/ deleteOperatingSystemConfig(m)
    <2>1. CASE ~Error(m)
      <3>1. pc'[m] = "deleteProvisioning" /\ osc'[m] = None /\ UNCHANGED <<secret, kubelet>>
        BY <1>5, <2>1 DEF RotateOSC, deleteOperatingSystemConfig, Goto, TypeInv, WorkersOK, ObjectsOK
      <3> QED BY <3>1 DEF Backed
    <2> QED BY <1>a, <2>1
  <1>6. CASE DeleteProvisioning(m)
    <2>1. /\ pc'[m] = "deleteBootstrap" /\ UNCHANGED <<osc, kubelet>>
          /\ secret'[m]["provisioning"] = None /\ secret'[m]["bootstrap"] = secret[m]["bootstrap"]
      BY <1>6 DEF DeleteProvisioning, Goto, TypeInv, WorkersOK, ObjectsOK, SecretMap, SecretKinds
    <2> QED BY <2>1 DEF Backed
  <1>7. CASE DeleteBootstrap(m)
    <2>1. /\ pc'[m] = "deleteKubelet" /\ UNCHANGED <<osc, kubelet>>
          /\ secret'[m]["bootstrap"] = None /\ secret'[m]["provisioning"] = secret[m]["provisioning"]
      BY <1>7 DEF DeleteBootstrap, Goto, TypeInv, WorkersOK, ObjectsOK, SecretMap, SecretKinds
    <2> QED BY <2>1 DEF Backed
  <1>8. CASE DeleteKubelet(m)
    <2>1. /\ pc'[m] \in {"removeFinalizer", "createBootstrapKubeconfig"}
          /\ UNCHANGED <<osc, secret>>
      BY <1>8 DEF DeleteKubelet, Goto, TypeInv, WorkersOK
    <2>2. osc[m] = None /\ secret[m]["provisioning"] = None /\ secret[m]["bootstrap"] = None
      BY <1>8 DEF DeleteKubelet, GuardAt, Progress
    <2> QED BY <2>1, <2>2 DEF Backed
  <1>9. CASE RemoveFinalizer(m)
    <2>1. CASE Current(m)
      BY <1>9, <2>1, BackedReturn DEF RemoveFinalizer
    <2> QED BY <1>9, <1>a, <2>1 DEF RemoveFinalizer
  <1>10. CASE CreateBootstrapKubeconfig(m)
    <2>1. CASE ~Error(m)
      <3>1. pc'[m] = "checkOSC" /\ kubelet'[m] /\ UNCHANGED <<osc, secret>>
        BY <1>10, <2>1 DEF CreateBootstrapKubeconfig, ReadKubelet, Goto, api, TypeInv, WorkersOK,
           ObjectsOK
      <3> QED BY <3>1 DEF Backed
    <2> QED BY <1>a, <2>1
  <1>11. CASE CheckOSC(m)
    <2>1. CASE ~Error(m)
      <3>1. PICK l \in {"readOSC", "edgeScript", "createOSC"} : Goto(m, l)
        BY <1>11, <2>1 DEF CheckOSC
      <3>2. kubelet[m] /\ UNCHANGED api
        BY <1>11, <2>1 DEF CheckOSC, Backed
      <3> QED BY <3>1, <3>2, BackedGoto DEF api
    <2> QED BY <1>a, <2>1
  <1>12. CASE generateEdgeScript(m)
    <2>1. CASE ~Error(m)
      <3>1. kubelet[m] /\ Goto(m, "createOSC") /\ UNCHANGED <<osc, secret, kubelet>>
        BY <1>12, <2>1 DEF generateEdgeScript, Backed
      <3> QED BY <3>1, BackedGoto
    <2> QED BY <1>a, <2>1
  <1>13. CASE CreateOSC(m)
    <2>1. CASE ~Error(m)
      <3>1. pc'[m] = "readOSC" /\ kubelet[m] /\ UNCHANGED <<secret, kubelet>>
        BY <1>13, <2>1 DEF CreateOSC, Backed, Goto, TypeInv, WorkersOK
      <3> QED BY <3>1 DEF Backed
    <2> QED BY <1>a, <2>1
  <1>14. CASE ReadBackOSC(m)
    <2>1. CASE ~Error(m)
      <3>1. kubelet[m] /\ Goto(m, "checkProvisioning") /\ UNCHANGED api
        BY <1>14, <2>1 DEF ReadBackOSC, Backed
      <3> QED BY <3>1, BackedGoto DEF api
    <2> QED BY <1>a, <2>1
  <1>15. ASSUME NEW k \in SecretKinds, CheckSecret(m, k) PROVE Backed(m)'
    <2>1. kubelet[m] /\ UNCHANGED <<osc, secret, kubelet>>
      BY <1>15 DEF CheckSecret, CheckPC, SecretKinds, Backed, api
    <2>2. k = "bootstrap" => secret[m]["provisioning"] # None
      BY <1>15 DEF CheckSecret, CheckPC, Backed
    <2>3. CASE SecretEnsured(m, k) /\ ReadSecret(m, k) # None
      BY <1>15, <2>1, <2>3, BackedGoto, BackedReturn DEF SecretEnsured, ReadSecret
    <2>4. CASE Goto(m, CreatePC[k])
      BY <2>1, <2>2, <2>4, BackedGoto DEF CreatePC, SecretKinds
    <2> QED BY <1>15, <2>3, <2>4 DEF CheckSecret
  <1>16. ASSUME NEW k \in SecretKinds, CreateSecret(m, k) PROVE Backed(m)'
    <2>1. CASE ~Error(m)
      <3>1. /\ kubelet[m] /\ UNCHANGED <<osc, kubelet>> /\ SecretEnsured(m, k)
            /\ secret' = [secret EXCEPT ![m][k] = [stamp |-> Wanted(m), osc |-> src[m]]]
        BY <1>16, <2>1 DEF CreateSecret, CreatePC, SecretKinds, Backed
      <3>2. secret'[m][k] # None
        <4>1. pc[m] \in Rendering
          BY <1>16 DEF CreateSecret, CreatePC, SecretKinds
        <4>2. secret'[m][k] = [stamp |-> Wanted(m), osc |-> src[m]]
          BY <3>1 DEF TypeInv, ObjectsOK, SecretMap
        <4>3. [stamp |-> Wanted(m), osc |-> src[m]] \in SecretObj
          BY <4>1, StampType DEF TypeInv, WorkersOK, OSCOrNone, SecretObj
        <4> QED BY <4>2, <4>3, NoneAssumption
      <3>3. pc'[m] = IF k = "provisioning" THEN "checkBootstrap" ELSE "idle"
        BY <3>1 DEF SecretEnsured, Return, Goto, TypeInv, WorkersOK, SecretKinds
      <3> QED BY <3>1, <3>2, <3>3 DEF Backed, SecretKinds
    <2> QED BY <1>a, <2>1
  <1> QED
    BY <1>1, <1>2, <1>3, <1>4, <1>5, <1>6, <1>7, <1>8, <1>9, <1>10, <1>11, <1>12, <1>13,
       <1>14, <1>15, <1>16 DEF Step

\* Nothing is there initially.
LEMMA BackedInit == Init => BackedInv
  BY DEF Init, BackedInv, Backed, AfterKubelet, Rendering, NoSecrets, SecretKinds

\* Every step keeps what the workers rely on.
LEMMA BackedNext ==
  ASSUME "secret" \notin CachedReads, TypeInv, GuardInv, BackedInv, [Next]_vars
  PROVE  BackedInv'
  <1> SUFFICES ASSUME NEW n \in MD PROVE Backed(n)'
    BY DEF BackedInv
  <1>1. Backed(n) /\ GuardAt(n)
    BY DEF BackedInv, GuardInv
  <1>2. ASSUME NEW m \in MD, Step(m) PROVE Backed(n)'
    <2>1. CASE n = m
      BY <1>1, <1>2, <2>1, BackedOwnStep
    <2>2. CASE n # m
      BY <1>1, <1>2, <2>2, StepFrame, BackedFrame DEF Same
    <2> QED BY <2>1, <2>2
  <1>3. CASE UNCHANGED vars
    BY <1>1, <1>3, BackedFrame DEF vars, api, worker
  <1> QED BY <1>1, <1>2, <1>3, EnvironmentFrame, BackedFrame DEF Next

\* What is known of every reachable state when secrets are not cached.
LifecycleInv == TypeInv /\ GuardInv /\ BackedInv

\* Types, the finalizer's guard and what the workers rely on hold in every reachable state.
LEMMA LifecycleInvariant ==
  ASSUME "secret" \notin CachedReads
  PROVE  Spec => []LifecycleInv
  <1>1. Init => LifecycleInv
    BY TypeInit, GuardInit, BackedInit DEF LifecycleInv
  <1>2. LifecycleInv /\ [Next]_vars => LifecycleInv'
    BY TypeNext, GuardNext, BackedNext DEF LifecycleInv
  <1> QED BY <1>1, <1>2, PTL DEF Spec

\* Present, spelled out.
LEMMA PresentIs ==
  ASSUME NEW n \in MD
  PROVE  /\ "osc" \in Present(n) <=> osc[n] # None
         /\ "kubelet" \in Present(n) <=> kubelet[n]
         /\ "provisioning" \in Present(n) <=> secret[n]["provisioning"] # None
         /\ "bootstrap" \in Present(n) <=> secret[n]["bootstrap"] # None
         /\ Present(n) \subseteq Resources
  BY DEF Present, Resources, SecretKinds

\* Where secrets are read from the API server, whatever else is cached or fails, a
\* MachineDeployment has an OSC or a cloud-config secret only together with the
\* kubeconfig secret: reconcileOperatingSystemConfigs makes it first and
\* deleteGeneratedSecrets deletes it last.
THEOREM ConfigBackedAlways ==
  ASSUME "secret" \notin CachedReads
  PROVE  Spec => []ConfigBacked
  <1>1. LifecycleInv => ConfigBacked
    <2> SUFFICES ASSUME LifecycleInv, NEW m \in MD, "kubelet" \notin Present(m)
                 PROVE  Present(m) \subseteq {"kubelet"}
      BY DEF ConfigBacked
    <2>1. Backed(m)
      BY DEF LifecycleInv, BackedInv
    <2> QED BY <2>1, PresentIs DEF Backed, Resources
  <1> QED BY <1>1, LifecycleInvariant, PTL

-----------------------------------------------------------------------------
(* NodeCanProvision.  A bootstrap secret is alone only between two Deletes  *)
(* of a rotation or a cleanup.  What happens next depends on the queue: an  *)
(* error keeps the key in it, a restart lists the MachineDeployment, which  *)
(* exists by Protected, and a Reconcile that starts over does not end early *)
(* for the same reason.                                                     *)

Unfinished(n) == secret[n]["bootstrap"] # None /\ secret[n]["provisioning"] = None
Attended(n)   == Unfinished(n) => pc[n] # "idle" \/ queued[n]

\* A worker's step leaves nothing unfinished unattended.
LEMMA AttendedOwnStep ==
  ASSUME "secret" \notin CachedReads, "md" \notin CachedReads,
         TypeInv, NEW m \in MD, GuardAt(m), Backed(m), Attended(m), Step(m)
  PROVE  Attended(m)'
  <1>a. ASSUME pc'[m] # "idle" PROVE Attended(m)'
    BY <1>a DEF Attended
  <1>b. ASSUME NEW l, Goto(m, l) PROVE pc'[m] = l
    BY <1>b DEF Goto, TypeInv, WorkersOK
  <1>c. ASSUME Error(m) PROVE Attended(m)'
    BY <1>a, <1>b, <1>c DEF Error, Return
  <1>1. CASE StartReconcile(m)
    <2>1. CASE Return(m, "idle") /\ (~md[m].exists \/ ~md[m].fin)
      <3>1. Empty(m)
        BY <2>1 DEF GuardAt, Owned, Guarded
      <3> QED BY <1>1, <3>1 DEF StartReconcile, api, Attended, Unfinished, Empty
    <2>2. CASE ~(Return(m, "idle") /\ (~md[m].exists \/ ~md[m].fin))
      <3>1. PICK l \in {"cleanupOSC", "addFinalizer", "fetchOSP"} : Goto(m, l)
        BY <1>1, <2>2 DEF StartReconcile, ReadMD
      <3> QED BY <1>a, <1>b, <3>1
    <2> QED BY <2>1, <2>2
  <1>2. CASE RemoveFinalizer(m)
    <2>1. CASE Current(m)
      BY <1>2, <2>1 DEF RemoveFinalizer, GuardAt, Progress, Attended, Unfinished
    <2> QED BY <1>2, <1>c, <2>1 DEF RemoveFinalizer
  <1>3. CASE AddFinalizer(m)
    BY <1>3, <1>a, <1>b, <1>c DEF AddFinalizer
  <1>4. CASE fetchOSP(m)
    BY <1>4, <1>a, <1>b, <1>c DEF fetchOSP
  <1>5. CASE CheckRotation(m)
    <2>1. \E l \in {"createBootstrapKubeconfig", "rotateOSC"} : Goto(m, l)
      BY <1>5 DEF CheckRotation
    <2> QED BY <1>a, <1>b, <2>1
  <1>6. CASE RotateOSC(m) \/ deleteOperatingSystemConfig(m)
    BY <1>6, <1>a, <1>b, <1>c DEF RotateOSC, deleteOperatingSystemConfig
  <1>7. CASE DeleteProvisioning(m) \/ DeleteBootstrap(m)
    BY <1>7, <1>a, <1>b DEF DeleteProvisioning, DeleteBootstrap
  <1>8. CASE DeleteKubelet(m)
    <2>1. \E l \in {"removeFinalizer", "createBootstrapKubeconfig"} : Goto(m, l)
      BY <1>8 DEF DeleteKubelet
    <2> QED BY <1>a, <1>b, <2>1
  <1>9. CASE CreateBootstrapKubeconfig(m)
    BY <1>9, <1>a, <1>b, <1>c DEF CreateBootstrapKubeconfig
  <1>10. CASE CheckOSC(m)
    <2>1. Error(m) \/ \E l \in {"readOSC", "edgeScript", "createOSC"} : Goto(m, l)
      BY <1>10 DEF CheckOSC
    <2> QED BY <1>a, <1>b, <1>c, <2>1
  <1>11. CASE generateEdgeScript(m) \/ CreateOSC(m) \/ ReadBackOSC(m)
    BY <1>11, <1>a, <1>b, <1>c DEF generateEdgeScript, CreateOSC, ReadBackOSC
  <1>12. ASSUME NEW k \in SecretKinds, CheckSecret(m, k) PROVE Attended(m)'
    <2>1. CASE k = "bootstrap"
      <3>1. secret[m]["provisioning"] # None /\ UNCHANGED secret
        BY <1>12, <2>1 DEF CheckSecret, CheckPC, Backed, api
      <3> QED BY <3>1 DEF Attended, Unfinished
    <2>2. CASE k = "provisioning"
      BY <1>12, <1>a, <1>b, <2>2 DEF CheckSecret, SecretEnsured, CreatePC
    <2> QED BY <2>1, <2>2 DEF SecretKinds
  <1>13. ASSUME NEW k \in SecretKinds, CreateSecret(m, k) PROVE Attended(m)'
    <2>1. CASE k = "bootstrap" /\ ~Error(m)
      <3>1. secret[m]["provisioning"] # None
        BY <1>13, <2>1 DEF CreateSecret, CreatePC, Backed
      <3>2. secret'[m]["provisioning"] = secret[m]["provisioning"]
        BY <1>13, <2>1 DEF CreateSecret, TypeInv, ObjectsOK, SecretMap, SecretKinds
      <3> QED BY <3>1, <3>2 DEF Attended, Unfinished
    <2>2. CASE k = "provisioning" /\ ~Error(m)
      BY <1>13, <1>a, <1>b, <2>2 DEF CreateSecret, SecretEnsured
    <2> QED BY <1>c, <2>1, <2>2 DEF SecretKinds
  <1> QED
    BY <1>1, <1>2, <1>3, <1>4, <1>5, <1>6, <1>7, <1>8, <1>9, <1>10, <1>11, <1>12, <1>13 DEF Step

\* A worker's step takes nobody else's key out of the queue.
LEMMA QueueFrame ==
  ASSUME TypeInv, NEW m \in MD, NEW n \in MD, n # m, Step(m)
  PROVE  queued'[n] = queued[n]
  <1>1. queued' \in {queued, [queued EXCEPT ![m] = TRUE], [queued EXCEPT ![m] = FALSE]}
    BY DEF Step, StartReconcile, AddFinalizer, fetchOSP, CheckRotation, RotateOSC,
       deleteOperatingSystemConfig, DeleteProvisioning, DeleteBootstrap, DeleteKubelet,
       RemoveFinalizer, CreateBootstrapKubeconfig, CheckOSC, generateEdgeScript, CreateOSC,
       ReadBackOSC, CheckSecret, CreateSecret, Notify
  <1> QED BY <1>1 DEF TypeInv, CountersOK

\* Failures keep the key in the queue, a restart fills the queue, and nobody else takes
\* anything out of it.
LEMMA AttendedEnvironment ==
  ASSUME TypeInv, NEW n \in MD, GuardAt(n), Attended(n),
         (\E m \in MD : Fail(m)) \/ Restart \/ Informer \/ OtherControllers \/ User
  PROVE  Attended(n)'
  <1>1. UNCHANGED secret
    BY EnvironmentFrame
  <1>2. CASE Restart
    <2>1. ASSUME Unfinished(n) PROVE queued'[n]
      BY <1>2, <2>1 DEF Restart, GuardAt, Owned, Guarded, Empty, Unfinished
    <2> QED BY <1>1, <2>1 DEF Attended, Unfinished
  <1>3. ASSUME NEW m \in MD, Fail(m) PROVE Attended(n)'
    <2>1. pc'[n] = IF n = m THEN "backoff" ELSE pc[n]
      BY <1>3 DEF Fail, Error, Return, Goto, TypeInv, WorkersOK
    <2> QED BY <1>1, <1>3, <2>1 DEF Fail, Attended, Unfinished
  <1>4. ASSUME UNCHANGED pc, queued[n] => queued'[n] PROVE Attended(n)'
    BY <1>1, <1>4 DEF Attended, Unfinished
  <1>5. ASSUME NEW m \in MD, SyncMD(m) \/ Resync(m) PROVE Attended(n)'
    BY <1>4, <1>5 DEF SyncMD, Resync, TypeInv, CountersOK
  <1>6. CASE Informer
    BY <1>4, <1>5, <1>6 DEF Informer, SyncOSC, SyncSecrets, SyncOSP, worker
  <1>7. ASSUME NEW m \in MD, NEW o, WriteMD(m, o) PROVE Attended(n)'
    BY <1>4, <1>7 DEF WriteMD, Notify, TypeInv, CountersOK
  <1>8. CASE OtherControllers
    BY <1>7, <1>8 DEF OtherControllers, BumpRevision, OtherFinalizersDone
  <1>9. CASE User
    <2>1. ASSUME NEW p \in OSP, PublishOSP(p) PROVE Attended(n)'
      BY <1>4, <2>1 DEF PublishOSP, worker
    <2> QED BY <1>7, <1>9, <2>1 DEF User, EditTemplate, UserDelete, SwitchOSP, UserCreate
  <1> QED BY <1>2, <1>3, <1>6, <1>8, <1>9

\* With a separate worker cluster, whose MachineDeployments and secrets are not cached,
\* a bootstrap secret without its provisioning secret is always in the hands of a worker
\* or of the work queue, wherever Reconcile fails and whenever the process dies.
THEOREM NodeCanProvisionAlways ==
  ASSUME "secret" \notin CachedReads, "md" \notin CachedReads
  PROVE  Spec => []NodeCanProvision
  <1> DEFINE AllAttended == \A n \in MD : Attended(n)
  <1>1. Init => AllAttended
    BY DEF Init, Attended, Unfinished, NoSecrets, SecretKinds
  <1>2. LifecycleInv /\ AllAttended /\ [Next]_vars => AllAttended'
    <2> SUFFICES ASSUME LifecycleInv, AllAttended, [Next]_vars, NEW n \in MD
                 PROVE  Attended(n)'
      OBVIOUS
    <2>1. TypeInv /\ GuardAt(n) /\ Backed(n) /\ Attended(n)
      BY DEF LifecycleInv, GuardInv, BackedInv
    <2>2. ASSUME NEW m \in MD, Step(m) PROVE Attended(n)'
      <3>1. CASE n = m
        BY <2>1, <2>2, <3>1, AttendedOwnStep
      <3>2. CASE n # m
        BY <2>1, <2>2, <3>2, StepFrame, QueueFrame DEF Same, Attended, Unfinished
      <3> QED BY <3>1, <3>2
    <2>3. CASE UNCHANGED vars
      BY <2>1, <2>3 DEF vars, api, worker, Attended, Unfinished
    <2> QED BY <2>1, <2>2, <2>3, AttendedEnvironment DEF Next
  <1>3. AllAttended => NodeCanProvision
    BY PresentIs DEF NodeCanProvision, Attended, Unfinished
  <1> QED BY <1>1, <1>2, <1>3, LifecycleInvariant, PTL DEF Spec

-----------------------------------------------------------------------------
(* The refinement of ConfigLifecycle.  One lemma for each abstract step,    *)
(* in terms of Guarded and Present, then one step of the proof for each     *)
(* action that changes either.                                              *)

KeepsOthers(m) ==
  \A n \in MD \ {m} : (Guarded(n)' <=> Guarded(n)) /\ Present(n)' = Present(n)

\* A step that changes no MachineDeployment's finalizer and objects is none of the contract's.
LEMMA StutterStep ==
  ASSUME \A n \in MD : (Guarded(n)' <=> Guarded(n)) /\ Present(n)' = Present(n)
  PROVE  UNCHANGED Lifecycle!vars
  BY DEF Lifecycle!vars, Guarded

\* Putting the finalizer on one MachineDeployment is the contract's Guard.
LEMMA GuardStep ==
  ASSUME NEW m \in MD, KeepsOthers(m), ~Guarded(m), Guarded(m)', Present(m)' = Present(m)
  PROVE  Lifecycle!Next
  <1>1. Lifecycle!Guard(m)
    BY DEF Lifecycle!Guard, KeepsOthers, Guarded
  <1> QED BY <1>1 DEF Lifecycle!Next

\* Taking the finalizer, or the whole MachineDeployment, away when it has no objects is
\* the contract's Unguard.
LEMMA UnguardStep ==
  ASSUME NEW m \in MD, KeepsOthers(m), Guarded(m), ~Guarded(m)', Present(m) = {},
         Present(m)' = Present(m)
  PROVE  Lifecycle!Next
  <1>1. Lifecycle!Unguard(m)
    BY DEF Lifecycle!Unguard, KeepsOthers, Guarded
  <1> QED BY <1>1 DEF Lifecycle!Next

\* Creating one object of a MachineDeployment with the finalizer, after those it needs, is
\* the contract's Acquire.
LEMMA AcquireStep ==
  ASSUME NEW m \in MD, NEW r \in Resources, KeepsOthers(m), Guarded(m), Guarded(m)',
         r \notin Present(m), Present(m)' = Present(m) \cup {r},
         r # "kubelet" => "kubelet" \in Present(m),
         r = "bootstrap" => "provisioning" \in Present(m)
  PROVE  Lifecycle!Next
  <1>1. Lifecycle!Needs(r) \subseteq Present(m)
    BY DEF Lifecycle!Needs, Resources
  <1>2. Lifecycle!Acquire(m, r)
    BY <1>1 DEF Lifecycle!Acquire, KeepsOthers, Guarded
  <1> QED BY <1>2 DEF Lifecycle!Next, Lifecycle!Resource, Resources

\* Deleting one object, the kubeconfig only as the last, is the contract's Release.
LEMMA ReleaseStep ==
  ASSUME NEW m \in MD, NEW r \in Resources, KeepsOthers(m), Guarded(m)' <=> Guarded(m),
         r \in Present(m), Present(m)' = Present(m) \ {r},
         r = "kubelet" => Present(m) = {"kubelet"}
  PROVE  Lifecycle!Next
  <1>1. Lifecycle!Release(m, r)
    BY DEF Lifecycle!Release, KeepsOthers, Guarded
  <1> QED BY <1>1 DEF Lifecycle!Next, Lifecycle!Resource, Resources

\* Present is a function of the OSC, the secrets and the kubeconfig.
LEMMA PresentFrame ==
  ASSUME NEW n \in MD, osc'[n] = osc[n], secret'[n] = secret[n], kubelet'[n] = kubelet[n]
  PROVE  Present(n)' = Present(n)
  BY DEF Present

\* What a step makes of Present, spelled out.
LEMMA PresentNext ==
  ASSUME NEW n \in MD
  PROVE  /\ "osc" \in Present(n)' <=> osc'[n] # None
         /\ "kubelet" \in Present(n)' <=> kubelet'[n]
         /\ "provisioning" \in Present(n)' <=> secret'[n]["provisioning"] # None
         /\ "bootstrap" \in Present(n)' <=> secret'[n]["bootstrap"] # None
         /\ Present(n)' \subseteq Resources
  BY DEF Present, Resources, SecretKinds

\* A worker's step keeps the owners it is not about.
LEMMA StepKeepsOthers ==
  ASSUME TypeInv, NEW m \in MD, Step(m)
  PROVE  KeepsOthers(m)
  BY StepFrame, PresentFrame DEF KeepsOthers, Same, Guarded

\* A worker's step is a step of the contract, or none.
LEMMA StepRefines ==
  ASSUME "secret" \notin CachedReads, TypeInv, NEW m \in MD, GuardAt(m), Backed(m), Step(m)
  PROVE  [Lifecycle!Next]_(Lifecycle!vars)
  <1> USE StepKeepsOthers
  <1>k. \A n \in MD \ {m} : (Guarded(n)' <=> Guarded(n)) /\ Present(n)' = Present(n)
    BY DEF KeepsOthers
  <1>a. ASSUME Guarded(m)' <=> Guarded(m), Present(m)' = Present(m)
        PROVE  UNCHANGED Lifecycle!vars
    BY <1>a, <1>k, StutterStep
  <1>b. ASSUME UNCHANGED api PROVE UNCHANGED Lifecycle!vars
    BY <1>a, <1>b, PresentFrame DEF api, Guarded
  <1>c. ASSUME Error(m) PROVE UNCHANGED Lifecycle!vars
    BY <1>b, <1>c DEF Error
  <1>d. ASSUME pc[m] \in Building PROVE Guarded(m)
    BY <1>d DEF GuardAt, Trusted, Progress, Building, Busy, Cleaning
  <1>1. CASE AddFinalizer(m)
    <2>1. CASE Current(m)
      <3>1. cur[m] = md[m] /\ md[m].exists
        BY <1>1, <2>1 DEF AddFinalizer, Current, GuardAt, Versions, Busy
      <3>2. Guarded(m)' /\ Present(m)' = Present(m)
        BY <1>1, <2>1, <3>1, PresentFrame
           DEF AddFinalizer, Guarded, TypeInv, ObjectsOK, MDObj
      <3> QED BY <1>a, <3>2, GuardStep
    <2> QED BY <1>1, <1>c, <2>1 DEF AddFinalizer
  <1>2. CASE RotateOSC(m) \/ deleteOperatingSystemConfig(m)
    <2>1. CASE ~Error(m)
      <3>1. osc'[m] = None /\ UNCHANGED <<md, secret, kubelet>>
        BY <1>2, <2>1 DEF RotateOSC, deleteOperatingSystemConfig, TypeInv, ObjectsOK
      <3>2. Present(m)' = Present(m) \ {"osc"}
        BY <3>1, PresentIs, PresentNext DEF Resources
      <3>3. Guarded(m)' <=> Guarded(m)
        BY <3>1 DEF Guarded
      <3>4. CASE "osc" \in Present(m)
        BY <3>2, <3>3, <3>4, ReleaseStep DEF Resources
      <3>5. CASE "osc" \notin Present(m)
        BY <1>a, <3>2, <3>3, <3>5
      <3> QED BY <3>4, <3>5
    <2> QED BY <1>c, <2>1
  <1>3. ASSUME NEW k \in SecretKinds, secret' = [secret EXCEPT ![m][k] = None],
               UNCHANGED <<md, osc, kubelet>>
        PROVE  [Lifecycle!Next]_(Lifecycle!vars)
    <2>1. /\ secret'[m][k] = None
          /\ \A j \in SecretKinds \ {k} : secret'[m][j] = secret[m][j]
      BY <1>3 DEF TypeInv, ObjectsOK, SecretMap
    <2>2. Present(m)' = Present(m) \ {k}
      BY <1>3, <2>1, PresentIs, PresentNext DEF Resources, SecretKinds
    <2>3. Guarded(m)' <=> Guarded(m)
      BY <1>3 DEF Guarded
    <2>4. CASE k \in Present(m)
      BY <2>2, <2>3, <2>4, ReleaseStep DEF Resources, SecretKinds
    <2>5. CASE k \notin Present(m)
      BY <1>a, <2>2, <2>3, <2>5
    <2> QED BY <2>4, <2>5
  <1>4. CASE DeleteProvisioning(m) \/ DeleteBootstrap(m)
    BY <1>3, <1>4 DEF DeleteProvisioning, DeleteBootstrap, SecretKinds
  <1>5. CASE DeleteKubelet(m)
    <2>1. ~kubelet'[m] /\ UNCHANGED <<md, osc, secret>>
      BY <1>5 DEF DeleteKubelet, TypeInv, ObjectsOK
    <2>2. osc[m] = None /\ secret[m]["provisioning"] = None /\ secret[m]["bootstrap"] = None
      BY <1>5 DEF DeleteKubelet, GuardAt, Progress
    <2>3. Present(m) \subseteq {"kubelet"} /\ Present(m)' = Present(m) \ {"kubelet"}
      BY <2>1, <2>2, PresentIs, PresentNext DEF Resources
    <2>4. Guarded(m)' <=> Guarded(m)
      BY <2>1 DEF Guarded
    <2>5. CASE "kubelet" \in Present(m)
      <3>1. Present(m) = {"kubelet"}
        BY <2>3, <2>5
      <3> QED BY <2>3, <2>4, <2>5, <3>1, ReleaseStep DEF Resources
    <2>6. CASE "kubelet" \notin Present(m)
      BY <1>a, <2>3, <2>4, <2>6
    <2> QED BY <2>5, <2>6
  <1>6. CASE RemoveFinalizer(m)
    <2>1. CASE Current(m)
      <3>1. UNCHANGED <<osc, secret, kubelet>>
        BY <1>6, <2>1 DEF RemoveFinalizer
      <3>2. Empty(m)
        BY <1>6 DEF RemoveFinalizer, GuardAt, Progress, Empty
      <3>3. Present(m) = {} /\ Present(m)' = Present(m)
        BY <3>1, <3>2, PresentIs, PresentFrame DEF Empty, Resources
      <3>4. ~Guarded(m)'
        BY <1>6, <2>1 DEF RemoveFinalizer, Guarded, NoMD, TypeInv, ObjectsOK, MDObj
      <3> QED BY <1>a, <3>3, <3>4, UnguardStep
    <2> QED BY <1>6, <1>c, <2>1 DEF RemoveFinalizer
  <1>7. CASE CreateBootstrapKubeconfig(m)
    <2>1. Guarded(m)
      BY <1>7, <1>d DEF CreateBootstrapKubeconfig, Building
    <2>2. CASE kubelet' = [kubelet EXCEPT ![m] = TRUE] /\ ~kubelet[m]
               /\ UNCHANGED <<md, osc, secret>>
      <3>1. kubelet'[m] /\ (Guarded(m)' <=> Guarded(m))
        BY <2>2 DEF TypeInv, ObjectsOK, Guarded
      <3>2. "kubelet" \notin Present(m) /\ Present(m)' = Present(m) \cup {"kubelet"}
        BY <2>2, <3>1, PresentIs, PresentNext DEF Resources
      <3> QED BY <2>1, <3>1, <3>2, AcquireStep DEF Resources
    <2> QED BY <1>7, <1>b, <1>c, <2>2 DEF CreateBootstrapKubeconfig
  <1>8. CASE CreateOSC(m)
    <2>1. Guarded(m) /\ "kubelet" \in Present(m)
      BY <1>8, <1>d, PresentIs DEF CreateOSC, Building, Backed, AfterKubelet
    <2>2. CASE ~Error(m)
      <3>1. /\ osc[m] = None /\ osc'[m] = [stamp |-> Wanted(m), tmpl |-> cur[m].tmpl]
            /\ UNCHANGED <<md, secret, kubelet>>
        BY <1>8, <2>2 DEF CreateOSC, TypeInv, ObjectsOK
      <3>2. osc'[m] \in OSCObj
        BY <3>1, StampType DEF OSCObj, TypeInv, WorkersOK, MDObj
      <3>3. osc'[m] # None /\ Guarded(m)'
        BY <2>1, <3>1, <3>2, NoneAssumption DEF Guarded
      <3>4. "osc" \notin Present(m) /\ Present(m)' = Present(m) \cup {"osc"}
        BY <3>1, <3>3, PresentIs, PresentNext DEF Resources
      <3> QED BY <2>1, <3>3, <3>4, AcquireStep DEF Resources
    <2> QED BY <1>c, <2>2
  <1>9. ASSUME NEW k \in SecretKinds, CreateSecret(m, k)
        PROVE  [Lifecycle!Next]_(Lifecycle!vars)
    <2>1. pc[m] = CreatePC[k] /\ pc[m] \in Rendering
      BY <1>9 DEF CreateSecret, CreatePC, SecretKinds, Rendering
    <2>2. Guarded(m) /\ "kubelet" \in Present(m)
      BY <2>1, <1>d, PresentIs DEF Rendering, Building, Backed, AfterKubelet
    <2>3. k = "bootstrap" => "provisioning" \in Present(m)
      BY <2>1, PresentIs DEF CreatePC, Backed
    <2>4. CASE ~Error(m)
      <3>1. /\ secret[m][k] = None /\ UNCHANGED <<md, osc, kubelet>>
            /\ secret' = [secret EXCEPT ![m][k] = [stamp |-> Wanted(m), osc |-> src[m]]]
        BY <1>9, <2>4 DEF CreateSecret
      <3>2. /\ secret'[m][k] = [stamp |-> Wanted(m), osc |-> src[m]]
            /\ \A j \in SecretKinds \ {k} : secret'[m][j] = secret[m][j]
        BY <3>1 DEF TypeInv, ObjectsOK, SecretMap
      <3>3. secret'[m][k] \in SecretObj
        BY <2>1, <3>2, StampType DEF TypeInv, WorkersOK, OSCOrNone, SecretObj
      <3>4. secret'[m][k] # None /\ Guarded(m)'
        BY <2>2, <3>1, <3>3, NoneAssumption DEF Guarded
      <3>5. k \notin Present(m) /\ Present(m)' = Present(m) \cup {k}
        BY <3>1, <3>2, <3>4, PresentIs, PresentNext DEF Resources, SecretKinds
      <3>6. k \in Resources /\ k # "kubelet"
        BY DEF Resources, SecretKinds
      <3> QED BY <2>2, <2>3, <3>4, <3>5, <3>6, AcquireStep
    <2> QED BY <1>c, <2>4
  <1>10. CASE generateEdgeScript(m)
    <2>1. UNCHANGED <<md, osc, secret, kubelet>>
      BY <1>10 DEF generateEdgeScript, Error, api
    <2> QED BY <1>a, <2>1, PresentFrame DEF Guarded
  <1>11. CASE StartReconcile(m) \/ fetchOSP(m) \/ CheckRotation(m) \/ CheckOSC(m)
              \/ ReadBackOSC(m) \/ \E k \in SecretKinds : CheckSecret(m, k)
    BY <1>11, <1>b, <1>c
       DEF StartReconcile, fetchOSP, CheckRotation, CheckOSC, ReadBackOSC, CheckSecret
  <1> QED
    BY <1>1, <1>2, <1>4, <1>5, <1>6, <1>7, <1>8, <1>9, <1>10, <1>11 DEF Step

\* Failures, informers, users and other controllers are no step of the contract: none of
\* them adds our finalizer, takes it away or touches the objects it guards.
LEMMA EnvironmentStutters ==
  ASSUME TypeInv, (\E m \in MD : Fail(m)) \/ Restart \/ Informer \/ OtherControllers \/ User
  PROVE  UNCHANGED Lifecycle!vars
  <1>1. ASSUME NEW n \in MD PROVE Present(n)' = Present(n)
    BY EnvironmentFrame, PresentFrame
  <1>2. ASSUME UNCHANGED md PROVE UNCHANGED Lifecycle!vars
    BY <1>1, <1>2, StutterStep DEF Guarded
  <1>3. ASSUME NEW m \in MD, NEW o, WriteMD(m, o), Guarded(m) <=> o.exists /\ o.fin
        PROVE  UNCHANGED Lifecycle!vars
    <2>1. ASSUME NEW n \in MD PROVE Guarded(n)' <=> Guarded(n)
      BY <1>3 DEF WriteMD, Guarded, TypeInv, ObjectsOK
    <2> QED BY <1>1, <2>1, StutterStep
  <1>4. ASSUME NEW m \in MD, ~Guarded(m), WriteMD(m, NoMD(md[m].rv + 1))
        PROVE  UNCHANGED Lifecycle!vars
    BY <1>3, <1>4 DEF NoMD
  <1>5. CASE (\E m \in MD : Fail(m)) \/ Restart
    BY <1>2, <1>5 DEF Fail, Error, Restart, api
  <1>6. CASE Informer
    BY <1>2, <1>6 DEF Informer, SyncMD, SyncOSC, SyncSecrets, Resync, SyncOSP, api
  <1>7. CASE OtherControllers
    <2>1. ASSUME NEW m \in MD, BumpRevision(m) PROVE UNCHANGED Lifecycle!vars
      <3> DEFINE o == [md[m] EXCEPT !.rev = @ + 1, !.synced = TRUE, !.rv = @ + 1]
      <3>1. WriteMD(m, o) /\ (Guarded(m) <=> o.exists /\ o.fin)
        BY <2>1 DEF BumpRevision, Guarded, TypeInv, ObjectsOK, MDObj
      <3> QED BY <1>3, <3>1
    <2> QED BY <1>4, <1>7, <2>1 DEF OtherControllers, OtherFinalizersDone, Guarded
  <1>8. CASE User
    <2>1. ASSUME NEW m \in MD, EditTemplate(m) PROVE UNCHANGED Lifecycle!vars
      <3> DEFINE o == [md[m] EXCEPT !.tmpl = md[m].rv + 1, !.synced = FALSE, !.rv = @ + 1]
      <3>1. WriteMD(m, o) /\ (Guarded(m) <=> o.exists /\ o.fin)
        BY <2>1 DEF EditTemplate, Guarded, TypeInv, ObjectsOK, MDObj
      <3> QED BY <1>3, <3>1
    <2>2. ASSUME NEW m \in MD, UserDelete(m) PROVE UNCHANGED Lifecycle!vars
      <3> DEFINE o == [md[m] EXCEPT !.deleting = TRUE, !.rv = @ + 1]
      <3>1. Guarded(m) <=> o.exists /\ o.fin
        BY DEF Guarded, TypeInv, ObjectsOK, MDObj
      <3> QED BY <1>3, <1>4, <2>2, <3>1 DEF UserDelete, Guarded
    <2>3. ASSUME NEW m \in MD, NEW p \in OSP, SwitchOSP(m, p) PROVE UNCHANGED Lifecycle!vars
      <3> DEFINE o == [md[m] EXCEPT !.osp = p, !.rv = @ + 1]
      <3>1. WriteMD(m, o) /\ (Guarded(m) <=> o.exists /\ o.fin)
        BY <2>3 DEF SwitchOSP, Guarded, TypeInv, ObjectsOK, MDObj
      <3> QED BY <1>3, <3>1
    <2>4. ASSUME NEW m \in MD, NEW p \in OSP, NEW e \in EdgeProvider, UserCreate(m, p, e)
          PROVE  UNCHANGED Lifecycle!vars
      BY <1>3, <2>4 DEF UserCreate, Guarded
    <2>5. ASSUME NEW p \in OSP, PublishOSP(p) PROVE UNCHANGED Lifecycle!vars
      BY <1>2, <2>5 DEF PublishOSP
    <2> QED BY <1>8, <2>1, <2>2, <2>3, <2>4, <2>5 DEF User
  <1> QED BY <1>5, <1>6, <1>7, <1>8

\* Where secrets are read from the API server, the controller and everything around it
\* implement the contract of ConfigLifecycle: the finalizer is there before the first
\* Create and until after the last Delete, objects come one by one, the kubeconfig first
\* and the bootstrap secret only with the provisioning secret, and go with the
\* kubeconfig last.
THEOREM LifecycleImplemented ==
  ASSUME "secret" \notin CachedReads
  PROVE  Spec => ImplementsLifecycle
  <1>1. Init => Lifecycle!Init
    <2> SUFFICES ASSUME Init PROVE Lifecycle!Init
      OBVIOUS
    <2>1. ASSUME NEW n \in MD PROVE ~Guarded(n) /\ Present(n) = {}
      BY PresentIs DEF Init, Guarded, NoMD, NoSecrets, SecretKinds, Resources
    <2> QED BY <2>1 DEF Lifecycle!Init, Guarded
  <1>2. LifecycleInv /\ [Next]_vars => [Lifecycle!Next]_(Lifecycle!vars)
    <2> SUFFICES ASSUME LifecycleInv, [Next]_vars
                 PROVE  [Lifecycle!Next]_(Lifecycle!vars)
      OBVIOUS
    <2>1. ASSUME NEW m \in MD, Step(m) PROVE [Lifecycle!Next]_(Lifecycle!vars)
      BY <2>1, StepRefines DEF LifecycleInv, GuardInv, BackedInv
    <2>2. CASE UNCHANGED vars
      BY <2>2, StutterStep, PresentFrame DEF vars, api, Guarded
    <2> QED BY <2>1, <2>2, EnvironmentStutters DEF Next, LifecycleInv
  <1> QED
    BY <1>1, <1>2, LifecycleInvariant, PTL DEF Spec, ImplementsLifecycle, Lifecycle!Spec
=============================================================================
