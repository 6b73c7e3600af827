---------------------------- MODULE OSCSyncProofs ----------------------------
(* Rotation annotations tell the truth and a successful Reconcile leaves     *)
(* one configuration: StampTruthful and SuccessMeansInSync of module OSCSync,*)
(* for every value of the constants, whatever is cached.                     *)
EXTENDS OSCLifecycleProofs, OSCSync

-----------------------------------------------------------------------------
(* ensureCloudConfigSecret takes the annotations from the MachineDeployment *)
(* and OSP that Reconcile read at its start, the content from the OSC it    *)
(* read back.  Unless a stale Get misled it, they agree, because            *)
(* CheckRotation let Reconcile go on only with an OSC of these annotations  *)
(* or with none, and because nobody but this worker has created an OSC      *)
(* since.                                                                   *)

Stamped(n) ==
  /\ pc[n] \in Building /\ osc[n] # None => osc[n].stamp = Wanted(n)
  /\ pc[n] \in Rendering => src[n].stamp = Wanted(n)
  /\ \A k \in SecretKinds : secret[n][k] # None => secret[n][k].stamp = secret[n][k].osc.stamp

\* Both secrets come from the OSC there is, except in the middle of the Deletes of a
\* rotation or a cleanup; a worker that renders secrets renders that OSC, and has the
\* provisioning secret in place when it comes to the bootstrap secret.
Consistent(n) ==
  /\ pc[n] \notin {"deleteProvisioning", "deleteBootstrap"} =>
       \A k \in SecretKinds : secret[n][k] # None =>
          osc[n] # None /\ secret[n][k] = [stamp |-> osc[n].stamp, osc |-> osc[n]]
  /\ pc[n] \in Rendering => src[n] = osc[n]
  /\ pc[n] \in {"checkBootstrap", "createBootstrap"} => secret[n]["provisioning"] # None

\* What Stamped and Consistent depend on besides Same, unchanged.
SameLocals(n) == curOSP'[n] = curOSP[n] /\ src'[n] = src[n]

\* A step that leaves a MachineDeployment, its objects and its worker alone keeps both.
LEMMA SyncFrame ==
  ASSUME NEW n \in MD, Same(n), SameLocals(n)
  PROVE  (Stamped(n) => Stamped(n)') /\ (Consistent(n) => Consistent(n)')
  BY DEF Same, SameLocals, Stamped, Consistent, Wanted, oscRotationAnnotations,
     calculateAnnotationsHash

\* Back at the beginning, nothing depends on the local variables any more.
LEMMA SyncReturn ==
  ASSUME NEW n \in MD, pc'[n] \in {"idle", "backoff"}, osc'[n] = osc[n], secret'[n] = secret[n]
  PROVE  /\ Stamped(n) => Stamped(n)'
         /\ Consistent(n) /\ pc[n] \notin {"deleteProvisioning", "deleteBootstrap"}
              => Consistent(n)'
  BY DEF Stamped, Consistent, Building, Rendering

\* A worker's step leaves the other workers' local variables alone.
LEMMA StepLocals ==
  ASSUME TypeInv, NEW m \in MD, NEW n \in MD, n # m, Step(m)
  PROVE  SameLocals(n)
  <1> USE DEF SameLocals, TypeInv, WorkersOK, Locals, Goto, Return, Error
  <1>1. CASE StartReconcile(m)
    BY <1>1 DEF StartReconcile
  <1>2. CASE AddFinalizer(m) \/ RemoveFinalizer(m)
    BY <1>2 DEF AddFinalizer, RemoveFinalizer
  <1>3. CASE fetchOSP(m) \/ CheckRotation(m)
    BY <1>3 DEF fetchOSP, CheckRotation
  <1>4. CASE RotateOSC(m) \/ deleteOperatingSystemConfig(m)
    BY <1>4 DEF RotateOSC, deleteOperatingSystemConfig
  <1>5. CASE DeleteProvisioning(m) \/ DeleteBootstrap(m) \/ DeleteKubelet(m)
    BY <1>5 DEF DeleteProvisioning, DeleteBootstrap, DeleteKubelet
  <1>6. CASE CreateBootstrapKubeconfig(m) \/ CheckOSC(m)
    BY <1>6 DEF CreateBootstrapKubeconfig, CheckOSC
  <1>7. CASE generateEdgeScript(m) \/ CreateOSC(m) \/ ReadBackOSC(m)
    BY <1>7 DEF generateEdgeScript, CreateOSC, ReadBackOSC
  <1>8. ASSUME NEW k \in SecretKinds, CheckSecret(m, k) \/ CreateSecret(m, k)
        PROVE  SameLocals(n)
    BY <1>8 DEF CheckSecret, CreateSecret, SecretEnsured
  <1> QED BY <1>1, <1>2, <1>3, <1>4, <1>5, <1>6, <1>7, <1>8 DEF Step

\* Failures, informers, users and other controllers leave a worker alone, or send it
\* back to the beginning; and only failures do that.
LEMMA EnvironmentLocals ==
  ASSUME TypeInv, NEW n \in MD,
         (\E m \in MD : Fail(m)) \/ Restart \/ Informer \/ OtherControllers \/ User
  PROVE  /\ UNCHANGED <<osc, secret>>
         /\ \/ pc'[n] = pc[n] /\ cur'[n] = cur[n] /\ SameLocals(n)
            \/ pc'[n] \in {"idle", "backoff"} /\ faults' = faults + 1
  <1>1. UNCHANGED <<osc, secret>>
    BY EnvironmentFrame
  <1>2. ASSUME NEW m \in MD, Fail(m)
        PROVE  \/ pc'[n] = pc[n] /\ cur'[n] = cur[n] /\ SameLocals(n)
               \/ pc'[n] \in {"idle", "backoff"} /\ faults' = faults + 1
    BY <1>2 DEF Fail, Error, Return, Goto, SameLocals, TypeInv, WorkersOK
  <1>3. ASSUME UNCHANGED <<pc, Locals>>
        PROVE  pc'[n] = pc[n] /\ cur'[n] = cur[n] /\ SameLocals(n)
    BY <1>3 DEF Locals, SameLocals
  <1>4. CASE Restart
    BY <1>1, <1>4 DEF Restart
  <1>5. CASE Informer
    <2>1. UNCHANGED <<pc, Locals>>
      BY <1>5 DEF Informer, SyncMD, SyncOSC, SyncSecrets, Resync, SyncOSP, worker, Locals
    <2> QED BY <1>1, <1>3, <2>1
  <1>6. CASE OtherControllers
    <2>1. UNCHANGED <<pc, Locals>>
      BY <1>6 DEF OtherControllers, BumpRevision, OtherFinalizersDone, WriteMD
    <2> QED BY <1>1, <1>3, <2>1
  <1>7. CASE User
    <2>1. UNCHANGED <<pc, Locals>>
      BY <1>7 DEF User, EditTemplate, UserDelete, SwitchOSP, UserCreate, PublishOSP, WriteMD,
         worker, Locals
    <2> QED BY <1>1, <1>3, <2>1
  <1> QED BY <1>1, <1>2, <1>4, <1>5, <1>6, <1>7

\* The annotations a worker will write depend only on its local variables.
LEMMA WantedFrame ==
  ASSUME NEW n \in MD, cur'[n] = cur[n], curOSP'[n] = curOSP[n]
  PROVE  Wanted(n)' = Wanted(n)
  BY DEF Wanted, oscRotationAnnotations, calculateAnnotationsHash

\* A step from one place in Building to another that keeps the locals, the OSC and the
\* secrets keeps Stamped; and so does any step to a place outside it.
LEMMA StampedGoto ==
  ASSUME NEW m \in MD, TypeInv, Stamped(m), NEW l, Goto(m, l), UNCHANGED <<osc, secret>>,
         l \in Building => pc[m] \in Building /\ UNCHANGED Locals,
         l \in Rendering => pc[m] \in Rendering
  PROVE  Stamped(m)'
  <1>1. pc'[m] = l
    BY DEF Goto, TypeInv, WorkersOK
  <1>2. l \in Building => Wanted(m)' = Wanted(m) /\ src'[m] = src[m]
    BY WantedFrame DEF Locals
  <1>3. Rendering \subseteq Building
    BY DEF Rendering, Building
  <1> QED BY <1>1, <1>2, <1>3 DEF Stamped

\* A worker's step keeps the annotations of its MachineDeployment truthful.
LEMMA StampedOwnStep ==
  ASSUME TypeInv, NEW m \in MD, GuardAt(m), Stamped(m), Step(m), ~Stale(m)
  PROVE  Stamped(m)'
  <1> USE DEF Building, Rendering
  <1>a. ASSUME NEW l \in {"idle", "backoff"}, Return(m, l), UNCHANGED <<osc, secret>>
        PROVE  Stamped(m)'
    BY <1>a, StampedGoto DEF Return
  <1>b. ASSUME Error(m) PROVE Stamped(m)'
    BY <1>a, <1>b DEF Error, api
  <1>c. ASSUME NEW l, Goto(m, l) PROVE pc'[m] = l
    BY <1>c DEF Goto, TypeInv, WorkersOK
  <1>1. CASE StartReconcile(m)
    <2>1. UNCHANGED <<osc, secret>>
      BY <1>1 DEF StartReconcile, api
    <2>2. CASE ~Return(m, "idle")
      <3>1. PICK l \in {"cleanupOSC", "addFinalizer", "fetchOSP"} : Goto(m, l)
        BY <1>1, <2>2 DEF StartReconcile
      <3> QED BY <2>1, <3>1, StampedGoto
    <2> QED BY <1>a, <2>1, <2>2
  <1>2. CASE AddFinalizer(m)
    BY <1>2, <1>b, StampedGoto DEF AddFinalizer
  <1>3. CASE fetchOSP(m)
    BY <1>3, <1>b, StampedGoto DEF fetchOSP, api
  <1>4. CASE CheckRotation(m)
    <2>1. UNCHANGED <<osc, secret, Locals>>
      BY <1>4 DEF CheckRotation, api
    <2>2. Wanted(m)' = Wanted(m)
      BY <2>1, WantedFrame DEF Locals
    <2>3. \/ pc'[m] = "rotateOSC"
          \/ pc'[m] = "createBootstrapKubeconfig" /\ (osc[m] = None \/ osc[m].stamp = Wanted(m))
      <3>1. pc[m] = "checkRotation"
        BY <1>4 DEF CheckRotation
      <3>2. \/ pc'[m] = "rotateOSC"
            \/ /\ pc'[m] = "createBootstrapKubeconfig"
               /\ ReadOSC(m) = None \/ ReadOSC(m).stamp = Wanted(m)
        BY <1>4, <1>c DEF CheckRotation
      <3> QED BY <3>1, <3>2 DEF Stale
    <2> QED BY <2>1, <2>2, <2>3 DEF Stamped
  <1>5. CASE RotateOSC(m) \/ deleteOperatingSystemConfig(m)
    <2>1. CASE ~Error(m)
      <3>1. pc'[m] = "deleteProvisioning" /\ UNCHANGED secret
        BY <1>5, <1>c, <2>1 DEF RotateOSC, deleteOperatingSystemConfig
      <3> QED BY <3>1 DEF Stamped
    <2> QED BY <1>b, <2>1
  <1>6. ASSUME NEW k \in SecretKinds, secret' = [secret EXCEPT ![m][k] = None],
               pc'[m] \notin Building
        PROVE  Stamped(m)'
    <2>1. \A j \in SecretKinds : secret'[m][j] # None => secret'[m][j] = secret[m][j]
      BY <1>6 DEF TypeInv, ObjectsOK, SecretMap
    <2> QED BY <1>6, <2>1 DEF Stamped
  <1>7. CASE DeleteProvisioning(m)
    BY <1>6, <1>7, <1>c DEF DeleteProvisioning, SecretKinds
  <1>8. CASE DeleteBootstrap(m)
    BY <1>6, <1>8, <1>c DEF DeleteBootstrap, SecretKinds
  <1>9. CASE DeleteKubelet(m)
    <2>1. pc'[m] \in {"removeFinalizer", "createBootstrapKubeconfig"} /\ UNCHANGED <<osc, secret>>
      BY <1>9, <1>c DEF DeleteKubelet
    <2>2. osc[m] = None
      BY <1>9 DEF DeleteKubelet, GuardAt, Progress
    <2> QED BY <2>1, <2>2 DEF Stamped
  <1>10. CASE RemoveFinalizer(m)
    BY <1>10, <1>a, <1>b DEF RemoveFinalizer
  <1>11. CASE CreateBootstrapKubeconfig(m)
    <2>1. CASE ~Error(m)
      BY <1>11, <2>1, StampedGoto DEF CreateBootstrapKubeconfig, api
    <2> QED BY <1>b, <2>1
  <1>12. CASE CheckOSC(m)
    <2>1. CASE ~Error(m)
      <3>1. PICK l \in {"readOSC", "edgeScript", "createOSC"} : Goto(m, l)
        BY <1>12, <2>1 DEF CheckOSC
      <3> QED BY <1>12, <2>1, <3>1, StampedGoto DEF CheckOSC, api
    <2> QED BY <1>b, <2>1
  <1>13. CASE generateEdgeScript(m)
    BY <1>13, <1>b, StampedGoto DEF generateEdgeScript
  <1>14. CASE CreateOSC(m)
    <2>1. CASE ~Error(m)
      <3>1. /\ pc'[m] = "readOSC" /\ UNCHANGED <<secret, Locals>>
            /\ osc'[m] = [stamp |-> Wanted(m), tmpl |-> cur[m].tmpl]
        BY <1>14, <1>c, <2>1 DEF CreateOSC, TypeInv, ObjectsOK
      <3>2. Wanted(m)' = Wanted(m)
        BY <3>1, WantedFrame DEF Locals
      <3> QED BY <3>1, <3>2 DEF Stamped
    <2> QED BY <1>b, <2>1
  <1>15. CASE ReadBackOSC(m)
    <2>1. CASE ~Error(m)
      <3>0. /\ pc[m] = "readOSC" /\ pc'[m] = "checkProvisioning" /\ ReadOSC(m) # None
            /\ UNCHANGED <<osc, secret, cur, curOSP>> /\ src'[m] = ReadOSC(m)
        BY <1>15, <1>c, <2>1 DEF ReadBackOSC, api, TypeInv, WorkersOK
      <3>1. /\ pc[m] = "readOSC" /\ pc'[m] = "checkProvisioning" /\ osc[m] # None
            /\ UNCHANGED <<osc, secret, cur, curOSP>> /\ src'[m] = osc[m]
        BY <3>0 DEF Stale
      <3>2. Wanted(m)' = Wanted(m)
        BY <3>1, WantedFrame
      <3> QED BY <3>1, <3>2 DEF Stamped
    <2> QED BY <1>b, <2>1
  <1>16. ASSUME NEW k \in SecretKinds, CheckSecret(m, k) PROVE Stamped(m)'
    <2>1. pc[m] \in Rendering /\ CreatePC[k] \in Rendering /\ UNCHANGED <<osc, secret>>
      BY <1>16 DEF CheckSecret, CheckPC, CreatePC, SecretKinds, api
    <2>2. CASE SecretEnsured(m, k)
      BY <1>a, <2>1, <2>2, StampedGoto DEF SecretEnsured
    <2>3. CASE ~SecretEnsured(m, k)
      BY <1>16, <2>1, <2>3, StampedGoto DEF CheckSecret
    <2> QED BY <2>2, <2>3
  <1>17. ASSUME NEW k \in SecretKinds, CreateSecret(m, k) PROVE Stamped(m)'
    <2>1. pc[m] \in Rendering
      BY <1>17 DEF CreateSecret, CreatePC, SecretKinds
    <2>2. CASE ~Error(m)
      <3>1. /\ SecretEnsured(m, k) /\ UNCHANGED osc
            /\ secret' = [secret EXCEPT ![m][k] = [stamp |-> Wanted(m), osc |-> src[m]]]
        BY <1>17, <2>2 DEF CreateSecret
      <3>2. \A j \in SecretKinds :
              secret'[m][j] = IF j = k THEN [stamp |-> Wanted(m), osc |-> src[m]]
                                       ELSE secret[m][j]
        BY <3>1 DEF TypeInv, ObjectsOK, SecretMap
      <3>3. src[m].stamp = Wanted(m)
        BY <2>1 DEF Stamped
      <3>4. \A j \in SecretKinds :
              secret'[m][j] # None => secret'[m][j].stamp = secret'[m][j].osc.stamp
        BY <3>2, <3>3 DEF Stamped
      <3>5. CASE k = "bootstrap"
        <4>1. pc'[m] = "idle"
          BY <1>c, <3>1, <3>5 DEF SecretEnsured, Return
        <4> QED BY <3>4, <4>1 DEF Stamped
      <3>6. CASE k = "provisioning"
        <4>1. pc'[m] = "checkBootstrap" /\ UNCHANGED Locals
          BY <1>c, <3>1, <3>6 DEF SecretEnsured
        <4>2. Wanted(m)' = Wanted(m) /\ src'[m] = src[m]
          BY <4>1, WantedFrame DEF Locals
        <4> QED BY <2>1, <3>1, <3>4, <4>1, <4>2 DEF Stamped
      <3> QED BY <3>5, <3>6 DEF SecretKinds
    <2> QED BY <1>b, <2>2
  <1> QED
    BY <1>1, <1>2, <1>3, <1>4, <1>5, <1>7, <1>8, <1>9, <1>10, <1>11, <1>12, <1>13,
       <1>14, <1>15, <1>16, <1>17 DEF Step

StampInv == \A n \in MD : "stale" \notin doubt[n] => Stamped(n)

\* doubt keeps the type that makes the history readable.
DoubtOK == doubt \in [MD -> SUBSET Doubts]

\* What a step adds to doubt[n], and when it is forgotten.
LEMMA DoubtStep ==
  ASSUME DoubtOK, NEW n \in MD, HNext
  PROVE  /\ DoubtOK'
         /\ "stale" \notin doubt'[n] => ~Stale(n) /\ (Blank(n) \/ "stale" \notin doubt[n])
         /\ doubt'[n] = {} => ~Stale(n) /\ ~Missed(n) /\ ~Torn(n) /\ (Blank(n) \/ doubt[n] = {})
  <1>1. doubt'[n] = Marks(n) \cup IF Blank(n) THEN {} ELSE doubt[n]
    BY DEF HNext
  <1>2. \A m \in MD : Marks(m) \in SUBSET Doubts
    BY DEF Marks
  <1>3. DoubtOK'
    BY <1>2 DEF HNext, DoubtOK
  <1>4. /\ Stale(n) => "stale" \in Marks(n)
        /\ Missed(n) => "missed" \in Marks(n)
        /\ Torn(n) => "torn" \in Marks(n)
    BY DEF Marks, Doubts
  <1> QED BY <1>1, <1>3, <1>4

\* Where nothing is left and nobody is at work, there is nothing to doubt.
LEMMA BlankInSync ==
  ASSUME NEW n \in MD, Blank(n)
  PROVE  Stamped(n) /\ Consistent(n)
  BY DEF Blank, Stamped, Consistent, NoSecrets, Building, Rendering

\* Every step keeps the annotations truthful.
LEMMA StampNext ==
  ASSUME TypeInv, GuardInv, DoubtOK, StampInv, [HNext]_hvars
  PROVE  StampInv'
  <1> SUFFICES ASSUME NEW n \in MD, "stale" \notin doubt'[n] PROVE Stamped(n)'
    BY DEF StampInv
  <1>0. CASE UNCHANGED hvars
    <2>1. Same(n) /\ SameLocals(n) /\ doubt' = doubt
      BY <1>0 DEF hvars, vars, api, views, worker, Same, SameLocals
    <2> QED BY <2>1, SyncFrame DEF StampInv
  <1>1. CASE HNext
    <2>1. Stamped(n) /\ GuardAt(n) /\ ~Stale(n)
      BY <1>1, DoubtStep, BlankInSync DEF StampInv, GuardInv
    <2>2. ASSUME NEW m \in MD, Step(m) PROVE Stamped(n)'
      <3>1. CASE n = m
        BY <2>1, <2>2, <3>1, StampedOwnStep
      <3>2. CASE n # m
        BY <2>1, <2>2, <3>2, StepFrame, StepLocals, SyncFrame
      <3> QED BY <3>1, <3>2
    <2>3. CASE (\E m \in MD : Fail(m)) \/ Restart \/ Informer \/ OtherControllers \/ User
      <3>1. CASE pc'[n] = pc[n] /\ cur'[n] = cur[n] /\ SameLocals(n)
        BY <2>1, <2>3, <3>1, EnvironmentLocals, WantedFrame DEF SameLocals, Stamped
      <3>2. CASE pc'[n] \in {"idle", "backoff"}
        BY <2>1, <2>3, <3>2, EnvironmentLocals, SyncReturn
      <3> QED BY <2>3, <3>1, <3>2, EnvironmentLocals
    <2> QED BY <1>1, <2>2, <2>3 DEF HNext, Next
  <1> QED BY <1>0, <1>1

\* Initially there is no secret and no doubt.
LEMMA SyncInit == HInit => DoubtOK /\ StampInv /\ \A n \in MD : Consistent(n)
  BY DEF HInit, Init, DoubtOK, Doubts, StampInv, Stamped, Consistent, NoSecrets, Building, Rendering

\* A step of OSCSync is a step of OSCReconciler, with the same types and guards.
LEMMA HistoryStep ==
  TypeInv /\ GuardInv /\ [HNext]_hvars => TypeInv' /\ GuardInv'
  BY TypeNext, GuardNext DEF HNext, hvars

\* DoubtOK is kept by every step.
LEMMA DoubtNext == DoubtOK /\ [HNext]_hvars => DoubtOK'
  <1>1. ASSUME DoubtOK, HNext PROVE DoubtOK'
    <2>1. \A m \in MD : Marks(m) \in SUBSET Doubts
      BY DEF Marks
    <2> QED BY <1>1, <2>1 DEF HNext, DoubtOK
  <1> QED BY <1>1 DEF DoubtOK, hvars

\* The rotation annotations of every secret are those of the OSC it was rendered from,
\* whatever fails, whoever edits the MachineDeployment in between and whatever is read from
\* a cache, unless a Reconcile went on with an OSC that a lagging cache had shown it.
THEOREM StampTruthfulAlways == HSpec => []StampTruthful
  <1> DEFINE Inv == TypeInv /\ GuardInv /\ DoubtOK /\ StampInv
  <1>1. HInit => Inv
    BY TypeInit, GuardInit, SyncInit DEF HInit
  <1>2. Inv /\ [HNext]_hvars => Inv'
    BY HistoryStep, DoubtNext, StampNext
  <1>3. Inv => StampTruthful
    BY DEF StampInv, Stamped, StampTruthful
  <1> QED BY <1>1, <1>2, <1>3, PTL DEF HSpec

-----------------------------------------------------------------------------
(* SuccessMeansInSync: with Stamped and Consistent the last secret that a   *)
(* worker finds or creates completes a set made from one OSC.               *)

\* A worker's step keeps Consistent of its own MachineDeployment, unless it raises a doubt.
LEMMA ConsistentOwnStep ==
  ASSUME TypeInv, NEW m \in MD, GuardAt(m), Stamped(m), Consistent(m), Step(m),
         ~Stale(m), ~Missed(m)
  PROVE  Consistent(m)'
  <1> USE DEF Rendering
  <1>c. ASSUME NEW l, Goto(m, l) PROVE pc'[m] = l
    BY <1>c DEF Goto, TypeInv, WorkersOK
  <1>a. ASSUME NEW l, Goto(m, l), UNCHANGED <<osc, secret>>,
               pc[m] \notin {"deleteProvisioning", "deleteBootstrap"},
               l \in Rendering => pc[m] \in Rendering /\ UNCHANGED Locals,
               l \in {"checkBootstrap", "createBootstrap"} => secret[m]["provisioning"] # None
        PROVE  Consistent(m)'
    BY <1>a, <1>c DEF Consistent, Locals
  <1>b. ASSUME Error(m), pc[m] \notin {"deleteProvisioning", "deleteBootstrap"}
        PROVE  Consistent(m)'
    BY <1>a, <1>b DEF Error, Return, api
  <1>1. CASE StartReconcile(m)
    <2>1. PICK l \in {"idle", "cleanupOSC", "addFinalizer", "fetchOSP"} : Goto(m, l)
      BY <1>1 DEF StartReconcile, Return
    <2> QED BY <1>1, <1>a, <2>1 DEF StartReconcile, api
  <1>2. CASE AddFinalizer(m)
    BY <1>2, <1>a, <1>b DEF AddFinalizer
  <1>3. CASE fetchOSP(m)
    BY <1>3, <1>a, <1>b DEF fetchOSP, api
  <1>4. CASE CheckRotation(m)
    <2>1. PICK l \in {"createBootstrapKubeconfig", "rotateOSC"} : Goto(m, l)
      BY <1>4 DEF CheckRotation
    <2> QED BY <1>4, <1>a, <2>1 DEF CheckRotation, api
  <1>5. CASE RotateOSC(m) \/ deleteOperatingSystemConfig(m)
    <2>1. CASE ~Error(m)
      <3>1. pc'[m] = "deleteProvisioning"
        BY <1>5, <1>c, <2>1 DEF RotateOSC, deleteOperatingSystemConfig
      <3> QED BY <3>1 DEF Consistent
    <2> QED BY <1>5, <1>b, <2>1 DEF RotateOSC, deleteOperatingSystemConfig
  <1>6. CASE DeleteProvisioning(m)
    <2>1. pc'[m] = "deleteBootstrap"
      BY <1>6, <1>c DEF DeleteProvisioning
    <2> QED BY <2>1 DEF Consistent
  <1>7. CASE DeleteBootstrap(m)
    <2>1. pc'[m] = "deleteKubelet" /\ \A k \in SecretKinds : secret'[m][k] = None
      BY <1>7, <1>c DEF DeleteBootstrap, GuardAt, Progress, TypeInv, ObjectsOK, SecretMap, SecretKinds
    <2> QED BY <2>1 DEF Consistent
  <1>8. CASE DeleteKubelet(m)
    <2>1. PICK l \in {"removeFinalizer", "createBootstrapKubeconfig"} : Goto(m, l)
      BY <1>8 DEF DeleteKubelet
    <2> QED BY <1>8, <1>a, <2>1 DEF DeleteKubelet
  <1>9. CASE RemoveFinalizer(m)
    BY <1>9, <1>a, <1>b DEF RemoveFinalizer, Return
  <1>10. CASE CreateBootstrapKubeconfig(m)
    BY <1>10, <1>a, <1>b DEF CreateBootstrapKubeconfig, api
  <1>11. CASE CheckOSC(m)
    <2>1. CASE ~Error(m)
      <3>1. PICK l \in {"readOSC", "edgeScript", "createOSC"} : Goto(m, l)
        BY <1>11, <2>1 DEF CheckOSC
      <3> QED BY <1>11, <1>a, <2>1, <3>1 DEF CheckOSC, api
    <2> QED BY <1>11, <1>b, <2>1 DEF CheckOSC
  <1>12. CASE generateEdgeScript(m)
    BY <1>12, <1>a, <1>b DEF generateEdgeScript
  <1>13. CASE CreateOSC(m)
    <2>1. CASE osc[m] = None
      <3>1. pc'[m] = "readOSC" /\ UNCHANGED secret
        BY <1>13, <1>c, <2>1 DEF CreateOSC
      <3>2. \A k \in SecretKinds : secret[m][k] = None
        BY <1>13, <2>1 DEF CreateOSC, Consistent
      <3> QED BY <3>1, <3>2 DEF Consistent
    <2> QED BY <1>13, <1>b, <2>1 DEF CreateOSC
  <1>14. CASE ReadBackOSC(m)
    <2>1. CASE ~Error(m)
      <3>1. /\ pc[m] = "readOSC" /\ pc'[m] = "checkProvisioning"
            /\ UNCHANGED <<osc, secret>> /\ src'[m] = ReadOSC(m)
        BY <1>14, <1>c, <2>1 DEF ReadBackOSC, api, TypeInv, WorkersOK
      <3>2. src'[m] = osc[m]
        BY <3>1 DEF Stale
      <3> QED BY <3>1, <3>2 DEF Consistent
    <2> QED BY <1>14, <1>b, <2>1 DEF ReadBackOSC
  <1>15. ASSUME NEW k \in SecretKinds, CheckSecret(m, k) PROVE Consistent(m)'
    <2>1. /\ pc[m] = CheckPC[k] /\ pc[m] \in Rendering /\ CreatePC[k] \in Rendering
          /\ UNCHANGED <<osc, secret>>
      BY <1>15 DEF CheckSecret, CheckPC, CreatePC, SecretKinds, api
    <2>2. CASE ReadSecret(m, k) # None /\ SecretEnsured(m, k)
      <3>1. secret[m][k] # None
        BY <2>1, <2>2 DEF Missed
      <3> QED BY <1>a, <2>1, <2>2, <3>1 DEF SecretEnsured, Return
    <2>3. CASE Goto(m, CreatePC[k]) /\ UNCHANGED Locals
      <3>1. CreatePC[k] = "createBootstrap" => pc[m] = "checkBootstrap"
        BY <2>1 DEF CreatePC, CheckPC, SecretKinds
      <3>2. CreatePC[k] # "checkBootstrap"
        BY DEF CreatePC, SecretKinds
      <3> QED BY <1>a, <2>1, <2>3, <3>1, <3>2 DEF Consistent
    <2> QED BY <1>15, <2>2, <2>3 DEF CheckSecret
  <1>16. ASSUME NEW k \in SecretKinds, CreateSecret(m, k) PROVE Consistent(m)'
    <2>1. pc[m] \in Rendering
      BY <1>16 DEF CreateSecret, CreatePC, SecretKinds
    <2>2. CASE ~Error(m)
      <3>1. /\ SecretEnsured(m, k) /\ UNCHANGED osc
            /\ secret' = [secret EXCEPT ![m][k] = [stamp |-> Wanted(m), osc |-> src[m]]]
        BY <1>16, <2>2 DEF CreateSecret
      <3>2. \A j \in SecretKinds :
              secret'[m][j] = IF j = k THEN [stamp |-> Wanted(m), osc |-> src[m]]
                                       ELSE secret[m][j]
        BY <3>1 DEF TypeInv, ObjectsOK, SecretMap
      <3>3. src[m] = osc[m] /\ osc[m] # None /\ osc[m].stamp = Wanted(m)
        BY <2>1 DEF Consistent, Stamped, TypeInv, WorkersOK
      <3>4. \A j \in SecretKinds : secret'[m][j] # None =>
              osc'[m] # None /\ secret'[m][j] = [stamp |-> osc'[m].stamp, osc |-> osc'[m]]
        BY <2>1, <3>1, <3>2, <3>3 DEF Consistent
      <3>5. pc'[m] \in Rendering => src'[m] = osc'[m]
        BY <1>c, <3>1, <3>3 DEF SecretEnsured, Return, Locals
      <3>6. pc'[m] \in {"checkBootstrap", "createBootstrap"} => secret'[m]["provisioning"] # None
        <4>1. pc'[m] \in {"checkBootstrap", "createBootstrap"} => k = "provisioning"
          BY <1>c, <3>1 DEF SecretEnsured, Return
        <4>2. [stamp |-> Wanted(m), osc |-> src[m]] # None
          <5>1. Wanted(m) \in Stamps /\ src[m] \in OSCObj
            BY <3>3, StampType DEF TypeInv, WorkersOK, ObjectsOK, OSCOrNone
          <5> QED BY <5>1, NoneAssumption DEF SecretObj
        <4> QED BY <3>2, <4>1, <4>2 DEF SecretKinds
      <3> QED BY <3>4, <3>5, <3>6 DEF Consistent
    <2> QED BY <1>16, <1>b, <2>1, <2>2
  <1> QED
    BY <1>1, <1>2, <1>3, <1>4, <1>5, <1>6, <1>7, <1>8, <1>9, <1>10, <1>11, <1>12, <1>13,
       <1>14, <1>15, <1>16 DEF Step

SyncInv == \A n \in MD : doubt[n] = {} => Consistent(n)

\* Where a step raises no doubt, it keeps Consistent.
LEMMA SyncNext ==
  ASSUME TypeInv, GuardInv, DoubtOK, StampInv, SyncInv, [HNext]_hvars
  PROVE  SyncInv'
  <1> SUFFICES ASSUME NEW n \in MD, doubt'[n] = {} PROVE Consistent(n)'
    BY DEF SyncInv
  <1>0. CASE UNCHANGED hvars
    <2>1. Same(n) /\ SameLocals(n) /\ doubt' = doubt
      BY <1>0 DEF hvars, vars, api, views, worker, Same, SameLocals
    <2> QED BY <2>1, SyncFrame DEF SyncInv
  <1>1. CASE HNext
    <2>1. Consistent(n) /\ Stamped(n) /\ GuardAt(n) /\ ~Stale(n) /\ ~Missed(n) /\ ~Torn(n)
      BY <1>1, DoubtStep, BlankInSync DEF SyncInv, StampInv, GuardInv
    <2>2. ASSUME NEW m \in MD, Step(m) PROVE Consistent(n)'
      <3>1. CASE n = m
        BY <2>1, <2>2, <3>1, ConsistentOwnStep
      <3>2. CASE n # m
        BY <2>1, <2>2, <3>2, StepFrame, StepLocals, SyncFrame
      <3> QED BY <3>1, <3>2
    <2>3. CASE (\E m \in MD : Fail(m)) \/ Restart \/ Informer \/ OtherControllers \/ User
      <3>1. CASE pc'[n] = pc[n] /\ cur'[n] = cur[n] /\ SameLocals(n)
        BY <2>1, <2>3, <3>1, EnvironmentLocals DEF SameLocals, Consistent
      <3>2. CASE pc'[n] \in {"idle", "backoff"}
        BY <2>1, <2>3, <3>2, EnvironmentLocals, SyncReturn DEF Torn
      <3> QED BY <2>3, <3>1, <3>2, EnvironmentLocals
    <2> QED BY <1>1, <2>2, <2>3 DEF HNext, Next
  <1> QED BY <1>0, <1>1

\* Whatever is cached, whatever fails and for any number of MachineDeployments and edits: a
\* Reconcile that returns without error leaves an OSC and two secrets that belong together
\* and carry the annotations of the MachineDeployment and OSP it read, unless a lagging
\* cache misled a Reconcile or a rotation was cut short since the last blank state.
THEOREM SuccessMeansInSyncAlways == HSpec => SuccessMeansInSync
  <1> DEFINE Inv     == TypeInv /\ GuardInv /\ DoubtOK /\ StampInv /\ SyncInv
             Done(m) ==
               /\ pc[m] \in {"checkBootstrap", "createBootstrap"} /\ pc'[m] = "idle" /\ faults' = faults
               /\ doubt'[m] = {}
             InSync(m) ==
               /\ osc'[m] # None /\ osc'[m].stamp = Wanted(m)
               /\ \A k \in SecretKinds : secret'[m][k] = [stamp |-> Wanted(m), osc |-> osc'[m]]
  <1>1. HInit => Inv
    BY TypeInit, GuardInit, SyncInit DEF HInit, SyncInv
  <1>2. Inv /\ [HNext]_hvars => Inv'
    BY HistoryStep, DoubtNext, StampNext, SyncNext
  <1>3. Inv /\ [HNext]_hvars => [\A m \in MD : Done(m) => InSync(m)]_hvars
    <2> SUFFICES ASSUME Inv, HNext, NEW m \in MD, Done(m) PROVE InSync(m)
      OBVIOUS
    <2>0. Consistent(m) /\ Stamped(m) /\ ~Missed(m)
      BY DoubtStep, BlankInSync DEF SyncInv, StampInv
    <2>1. /\ src[m] # None /\ src[m] = osc[m] /\ osc[m].stamp = Wanted(m)
          /\ secret[m]["provisioning"] = [stamp |-> osc[m].stamp, osc |-> osc[m]]
      BY <2>0 DEF Stamped, Consistent, TypeInv, WorkersOK, Rendering, SecretKinds
    <2>2. Step(m)
      <3>1. ASSUME NEW n \in MD, Step(n), n # m PROVE FALSE
        BY <3>1, StepFrame DEF Same
      <3>2. ASSUME (\E n \in MD : Fail(n)) \/ Restart \/ Informer \/ OtherControllers \/ User
            PROVE  FALSE
        BY <3>2, EnvironmentLocals DEF TypeInv, CountersOK
      <3> QED BY <3>1, <3>2 DEF HNext, Next
    <2>3. ASSUME Error(m) PROVE FALSE
      BY <2>3 DEF Error, Return, Goto, TypeInv, WorkersOK
    <2>4. CheckSecret(m, "bootstrap") \/ CreateSecret(m, "bootstrap")
      BY <2>2 DEF Step, StartReconcile, AddFinalizer, fetchOSP, CheckRotation, RotateOSC,
         deleteOperatingSystemConfig, DeleteProvisioning, DeleteBootstrap, DeleteKubelet,
         RemoveFinalizer, CreateBootstrapKubeconfig, CheckOSC, generateEdgeScript, CreateOSC,
         ReadBackOSC, CheckSecret, CreateSecret, CheckPC, CreatePC, SecretKinds
    <2>5. CASE CheckSecret(m, "bootstrap")
      <3>1. secret[m]["bootstrap"] # None /\ UNCHANGED <<osc, secret>>
        <4>1. ASSUME Goto(m, "createBootstrap") PROVE FALSE
          BY <4>1 DEF Goto, TypeInv, WorkersOK
        <4>2. /\ pc[m] = CheckPC["bootstrap"] /\ ReadSecret(m, "bootstrap") # None
              /\ UNCHANGED <<osc, secret>>
          BY <2>5, <4>1 DEF CheckSecret, CreatePC, api
        <4> QED BY <2>0, <4>2 DEF Missed, SecretKinds
      <3>2. secret[m]["bootstrap"] = [stamp |-> osc[m].stamp, osc |-> osc[m]]
        BY <2>0, <3>1 DEF Consistent, SecretKinds
      <3> QED BY <2>1, <3>1, <3>2 DEF SecretKinds
    <2>6. CASE CreateSecret(m, "bootstrap")
      <3>1. /\ secret' = [secret EXCEPT ![m]["bootstrap"] = [stamp |-> Wanted(m), osc |-> src[m]]]
            /\ UNCHANGED osc
        BY <2>3, <2>6 DEF CreateSecret
      <3>2. \A k \in SecretKinds : secret'[m][k] = IF k = "bootstrap"
              THEN [stamp |-> Wanted(m), osc |-> src[m]] ELSE secret[m][k]
        BY <3>1 DEF TypeInv, ObjectsOK, SecretMap, SecretKinds
      <3> QED BY <2>1, <3>1, <3>2 DEF SecretKinds
    <2> QED BY <2>4, <2>5, <2>6
  <1> QED BY <1>1, <1>2, <1>3, PTL DEF HSpec, SuccessMeansInSync
=============================================================================
