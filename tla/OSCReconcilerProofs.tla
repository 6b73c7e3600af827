------------------------ MODULE OSCReconcilerProofs ------------------------
(* Theorems about OSCReconciler, for every value of its constants.         *)
EXTENDS OSCReconciler, TLAPS

-----------------------------------------------------------------------------
(* Type correctness.  TypeOK in parts: the API server's objects, the caches *)
(* and the workers, each with what it needs to be inductive: an object that *)
(* exists names an OSP, a worker holds an object that exists, and it        *)
(* renders secrets from an OSC.                                             *)

Rendering == {"checkProvisioning", "createProvisioning", "checkBootstrap", "createBootstrap"}

ObjectsOK ==
  /\ md \in [MD -> MDObj] /\ \A n \in MD : md[n].exists => md[n].osp \in OSP
  /\ osp \in [OSP -> Nat] /\ osc \in [MD -> OSCOrNone] /\ secret \in [MD -> SecretMap]
  /\ kubelet \in [MD -> BOOLEAN] /\ script \in [MD -> BOOLEAN]

ViewsOK ==
  /\ mdView \in [MD -> MDObj] /\ \A n \in MD : mdView[n].exists => mdView[n].osp \in OSP
  /\ ospView \in [OSP -> Nat] /\ oscView \in [MD -> OSCOrNone]
  /\ secretView \in [MD -> SecretMap] /\ kubeletView \in [MD -> BOOLEAN]

WorkersOK ==
  /\ pc \in [MD -> Busy \cup {"idle", "backoff"}]
  /\ cur \in [MD -> MDObj] /\ curOSP \in [MD -> Nat] /\ src \in [MD -> OSCOrNone]
  /\ \A n \in MD : pc[n] \in Busy => cur[n].exists /\ cur[n].osp \in OSP
  /\ \A n \in MD : pc[n] \in Rendering => src[n] # None

CountersOK == queued \in [MD -> BOOLEAN] /\ edits \in Nat /\ faults \in Nat

TypeInv == ObjectsOK /\ ViewsOK /\ WorkersOK /\ CountersOK

\* The parts make up the type invariant.
LEMMA TypeInvImpliesTypeOK == TypeInv => TypeOK
  BY DEF TypeInv, ObjectsOK, ViewsOK, WorkersOK, CountersOK, TypeOK

\* The placeholder for an absent MachineDeployment is a MachineDeployment record.
LEMMA NoMDType == \A v \in Nat : NoMD(v) \in MDObj /\ ~NoMD(v).exists
  BY DEF NoMD, MDObj

\* Reads return objects of the right type, whichever client serves them.
LEMMA ReadTypes ==
  ASSUME TypeInv, NEW m \in MD
  PROVE  /\ ReadMD(m) \in MDObj
         /\ ReadMD(m).exists => ReadMD(m).osp \in OSP
         /\ \A p \in OSP : ReadOSP(p) \in Nat
         /\ ReadOSC(m) \in OSCOrNone
  BY DEF TypeInv, ObjectsOK, ViewsOK, ReadMD, ReadOSP, ReadOSC

\* The rotation annotations are well formed.
LEMMA StampType ==
  ASSUME TypeInv, NEW m \in MD
  PROVE  Wanted(m) \in Stamps
  <1>1. cur[m] \in MDObj /\ curOSP[m] \in Nat
    BY DEF TypeInv, WorkersOK
  <1> QED
    BY <1>1 DEF Wanted, oscRotationAnnotations, calculateAnnotationsHash, Stamps, MDObj

\* Returning from Reconcile leaves the workers well typed.
LEMMA ReturnTypes ==
  ASSUME TypeInv, NEW m \in MD, NEW l \in {"idle", "backoff"}, Return(m, l)
  PROVE  WorkersOK'
  <1> USE DEF TypeInv, WorkersOK, Return, Goto
  <1>1. l \notin Busy /\ l \notin Rendering
    BY DEF Busy, Cleaning, Building, Rendering
  <1>2. cur' \in [MD -> MDObj] /\ curOSP' \in [MD -> Nat]
    BY NoMDType
  <1>3. src' \in [MD -> OSCOrNone]
    BY DEF OSCOrNone
  <1>4. pc' \in [MD -> Busy \cup {"idle", "backoff"}]
    OBVIOUS
  <1>5. ASSUME NEW n \in MD
        PROVE  /\ pc'[n] \in Busy => cur'[n].exists /\ cur'[n].osp \in OSP
               /\ pc'[n] \in Rendering => src'[n] # None
    BY <1>1
  <1> QED BY <1>2, <1>3, <1>4, <1>5

\* So does a step within Reconcile that keeps the local variables.
LEMMA GotoTypes ==
  ASSUME TypeInv, NEW m \in MD, NEW l \in Busy, pc[m] \in Busy, Goto(m, l), UNCHANGED Locals,
         l \in Rendering => src[m] # None
  PROVE  WorkersOK'
  BY DEF TypeInv, WorkersOK, Goto, Locals

\* What a step leaves alone stays well typed.
LEMMA FrameTypes ==
  ASSUME TypeInv
  PROVE  /\ UNCHANGED api => ObjectsOK'
         /\ UNCHANGED views => ViewsOK'
         /\ UNCHANGED <<pc, Locals>> => WorkersOK'
         /\ UNCHANGED <<queued, edits, faults>> => CountersOK'
  BY DEF TypeInv, ObjectsOK, ViewsOK, WorkersOK, CountersOK, api, views, Locals

\* The type invariant holds initially.
LEMMA TypeInit == Init => TypeInv
  <1> SUFFICES ASSUME Init PROVE TypeInv
    OBVIOUS
  <1> USE NoMDType DEF Init
  <1>1. md \in [MD -> MDObj] /\ mdView \in [MD -> MDObj] /\ cur \in [MD -> MDObj]
    OBVIOUS
  <1>2. secret \in [MD -> SecretMap] /\ secretView \in [MD -> SecretMap]
    BY DEF SecretOrNone, SecretMap, NoSecrets
  <1>3. ObjectsOK /\ ViewsOK /\ CountersOK
    BY <1>1, <1>2 DEF ObjectsOK, ViewsOK, CountersOK, OSCOrNone
  <1>4. WorkersOK
    BY <1>1 DEF WorkersOK, OSCOrNone, Busy, Cleaning, Building, Rendering
  <1> QED BY <1>3, <1>4 DEF TypeInv

\* A worker's step keeps the type invariant.
LEMMA TypeStep ==
  ASSUME TypeInv, NEW m \in MD, Step(m)
  PROVE  TypeInv'
  <1> USE DEF Busy, Cleaning, Building, Rendering
  <1>1. CASE StartReconcile(m)
    <2>1. CountersOK'
      BY <1>1 DEF StartReconcile, TypeInv, CountersOK
    <2>2. WorkersOK'
      <3>1. CASE Return(m, "idle")
        BY <3>1, ReturnTypes
      <3>2. CASE ~Return(m, "idle")
        <4> DEFINE o == ReadMD(m)
        <4>1. o \in MDObj /\ o.exists /\ o.osp \in OSP
          BY <1>1, <3>2, ReadTypes DEF StartReconcile
        <4>2. /\ cur' = [cur EXCEPT ![m] = o] /\ UNCHANGED <<curOSP, src>>
              /\ \E l \in {"cleanupOSC", "addFinalizer", "fetchOSP"} : pc' = [pc EXCEPT ![m] = l]
          BY <1>1, <3>2 DEF StartReconcile, Goto
        <4> QED BY <4>1, <4>2 DEF TypeInv, WorkersOK
      <3> QED BY <3>1, <3>2
    <2> QED BY <1>1, <2>1, <2>2, FrameTypes DEF StartReconcile, TypeInv
  <1>2. CASE AddFinalizer(m)
    <2>1. CASE ~Current(m)
      BY <1>2, <2>1, ReturnTypes, FrameTypes DEF AddFinalizer, Error, TypeInv
    <2>2. CASE Current(m)
      <3>1. /\ md' = [md EXCEPT ![m].fin = TRUE, ![m].rv = @ + 1]
            /\ cur' = [cur EXCEPT ![m] = md'[m]] /\ Goto(m, "fetchOSP") /\ Notify(m)
            /\ UNCHANGED <<osp, osc, secret, kubelet, script, curOSP, src, views, edits, faults>>
        BY <1>2, <2>2 DEF AddFinalizer
      <3>2. ObjectsOK'
        BY <3>1 DEF TypeInv, ObjectsOK, MDObj
      <3>3. md'[m] \in MDObj /\ md'[m].exists /\ md'[m].osp \in OSP
        BY <2>2, <3>1 DEF TypeInv, ObjectsOK, MDObj, Current
      <3>4. WorkersOK'
        BY <3>1, <3>3 DEF TypeInv, WorkersOK, Goto
      <3>5. CountersOK'
        BY <3>1 DEF TypeInv, CountersOK, Notify
      <3> QED BY <3>1, <3>2, <3>4, <3>5, FrameTypes DEF TypeInv
    <2> QED BY <2>1, <2>2
  <1>3. CASE fetchOSP(m)
    <2>1. CASE Error(m)
      BY <1>3, <2>1, ReturnTypes, FrameTypes DEF fetchOSP, Error, TypeInv
    <2>2. CASE ~Error(m)
      <3>1. /\ curOSP' = [curOSP EXCEPT ![m] = ReadOSP(cur[m].osp)]
            /\ Goto(m, "checkRotation") /\ UNCHANGED <<api, cur, src, queued, views, edits, faults>>
        BY <1>3, <2>2 DEF fetchOSP
      <3>2. ReadOSP(cur[m].osp) \in Nat
        BY <1>3, ReadTypes DEF fetchOSP, TypeInv, WorkersOK
      <3>3. WorkersOK'
        BY <1>3, <3>1, <3>2 DEF fetchOSP, TypeInv, WorkersOK, Goto
      <3> QED BY <3>1, <3>3, FrameTypes DEF TypeInv
    <2> QED BY <2>1, <2>2
  <1>4. CASE CheckRotation(m)
    BY <1>4, GotoTypes, FrameTypes DEF CheckRotation, TypeInv
  <1>5. CASE RotateOSC(m)
    <2>1. CASE Error(m)
      BY <1>5, <2>1, ReturnTypes, FrameTypes DEF RotateOSC, Error, TypeInv
    <2>2. CASE ~Error(m)
      <3>1. ObjectsOK'
        BY <1>5, <2>2, FrameTypes DEF RotateOSC, TypeInv, ObjectsOK, OSCOrNone
      <3>2. WorkersOK'
        BY <1>5, <2>2, GotoTypes DEF RotateOSC
      <3> QED BY <1>5, <3>1, <3>2, <2>2, FrameTypes DEF RotateOSC, TypeInv
    <2> QED BY <2>1, <2>2
  <1>6. CASE deleteOperatingSystemConfig(m)
    <2>1. ObjectsOK'
      BY <1>6 DEF deleteOperatingSystemConfig, TypeInv, ObjectsOK, OSCOrNone
    <2>2. WorkersOK'
      BY <1>6, GotoTypes DEF deleteOperatingSystemConfig
    <2> QED BY <1>6, <2>1, <2>2, FrameTypes DEF deleteOperatingSystemConfig, TypeInv
  <1>7. CASE DeleteProvisioning(m)
    <2>1. ObjectsOK'
      BY <1>7 DEF DeleteProvisioning, TypeInv, ObjectsOK, SecretMap, SecretOrNone
    <2>2. WorkersOK'
      BY <1>7, GotoTypes DEF DeleteProvisioning
    <2> QED BY <1>7, <2>1, <2>2, FrameTypes DEF DeleteProvisioning, TypeInv
  <1>8. CASE DeleteBootstrap(m)
    <2>1. ObjectsOK'
      BY <1>8 DEF DeleteBootstrap, TypeInv, ObjectsOK, SecretMap, SecretOrNone
    <2>2. WorkersOK'
      BY <1>8, GotoTypes DEF DeleteBootstrap
    <2> QED BY <1>8, <2>1, <2>2, FrameTypes DEF DeleteBootstrap, TypeInv
  <1>9. CASE DeleteKubelet(m)
    <2>1. ObjectsOK'
      BY <1>9 DEF DeleteKubelet, TypeInv, ObjectsOK
    <2>2. WorkersOK'
      BY <1>9, GotoTypes DEF DeleteKubelet
    <2> QED BY <1>9, <2>1, <2>2, FrameTypes DEF DeleteKubelet, TypeInv
  <1>10. CASE RemoveFinalizer(m)
    <2>1. CASE ~Current(m)
      BY <1>10, <2>1, ReturnTypes, FrameTypes DEF RemoveFinalizer, Error, TypeInv
    <2>2. CASE Current(m)
      <3>1. /\ \/ md' = [md EXCEPT ![m] = NoMD(md[m].rv + 1)]
               \/ md' = [md EXCEPT ![m].fin = FALSE, ![m].rv = @ + 1]
            /\ Return(m, "idle") /\ Notify(m)
            /\ UNCHANGED <<osp, osc, secret, kubelet, script, views, edits, faults>>
        BY <1>10, <2>2 DEF RemoveFinalizer
      <3>2. md[m].rv + 1 \in Nat
        BY DEF TypeInv, ObjectsOK, MDObj
      <3>3. ObjectsOK'
        <4>1. CASE md' = [md EXCEPT ![m] = NoMD(md[m].rv + 1)]
          BY <3>1, <3>2, <4>1, NoMDType DEF TypeInv, ObjectsOK
        <4>2. CASE md' = [md EXCEPT ![m].fin = FALSE, ![m].rv = @ + 1]
          BY <3>1, <3>2, <4>2 DEF TypeInv, ObjectsOK, MDObj
        <4> QED BY <3>1, <4>1, <4>2
      <3>4. CountersOK'
        BY <3>1 DEF TypeInv, CountersOK, Notify
      <3> QED BY <3>1, <3>3, <3>4, ReturnTypes, FrameTypes DEF TypeInv
    <2> QED BY <2>1, <2>2
  <1>11. CASE CreateBootstrapKubeconfig(m)
    <2>1. CASE Error(m)
      BY <1>11, <2>1, ReturnTypes, FrameTypes DEF CreateBootstrapKubeconfig, Error, TypeInv
    <2>2. CASE ~Error(m)
      <3>1. ObjectsOK'
        BY <1>11, <2>2, FrameTypes DEF CreateBootstrapKubeconfig, TypeInv, ObjectsOK
      <3>2. WorkersOK'
        BY <1>11, <2>2, GotoTypes DEF CreateBootstrapKubeconfig
      <3> QED BY <1>11, <3>1, <3>2, <2>2, FrameTypes DEF CreateBootstrapKubeconfig, TypeInv
    <2> QED BY <2>1, <2>2
  <1>12. CASE CheckOSC(m)
    <2>1. faults' \in Nat /\ CountersOK'
      BY <1>12 DEF CheckOSC, TypeInv, CountersOK
    <2>2. WorkersOK' /\ ObjectsOK'
      <3>1. CASE Error(m)
        BY <3>1, ReturnTypes, FrameTypes DEF Error
      <3>2. CASE ~Error(m)
        BY <1>12, <3>2, GotoTypes, FrameTypes DEF CheckOSC
      <3> QED BY <3>1, <3>2
    <2> QED BY <1>12, <2>1, <2>2, FrameTypes DEF CheckOSC, TypeInv
  <1>13. CASE generateEdgeScript(m)
    <2>1. CASE Error(m)
      BY <1>13, <2>1, ReturnTypes, FrameTypes DEF generateEdgeScript, Error, TypeInv
    <2>2. CASE ~Error(m)
      <3>1. ObjectsOK'
        BY <1>13, <2>2, FrameTypes DEF generateEdgeScript, TypeInv, ObjectsOK
      <3>2. WorkersOK'
        BY <1>13, <2>2, GotoTypes DEF generateEdgeScript
      <3> QED BY <1>13, <3>1, <3>2, <2>2, FrameTypes DEF generateEdgeScript, TypeInv
    <2> QED BY <2>1, <2>2
  <1>14. CASE CreateOSC(m)
    <2>1. CASE Error(m)
      BY <1>14, <2>1, ReturnTypes, FrameTypes DEF CreateOSC, Error, TypeInv
    <2>2. CASE ~Error(m)
      <3>1. ObjectsOK'
        BY <1>14, <2>2, FrameTypes, StampType DEF CreateOSC, TypeInv, ObjectsOK, OSCOrNone, OSCObj, MDObj, WorkersOK
      <3>2. WorkersOK'
        BY <1>14, <2>2, GotoTypes DEF CreateOSC
      <3> QED BY <1>14, <3>1, <3>2, <2>2, FrameTypes DEF CreateOSC, TypeInv
    <2> QED BY <2>1, <2>2
  <1>15. CASE ReadBackOSC(m)
    <2>1. CASE ReadOSC(m) = None
      BY <1>15, <2>1, ReturnTypes, FrameTypes DEF ReadBackOSC, Error, TypeInv
    <2>2. CASE ReadOSC(m) # None
      <3>1. WorkersOK'
        BY <1>15, <2>2, ReadTypes DEF ReadBackOSC, TypeInv, WorkersOK, Goto
      <3> QED BY <1>15, <2>2, <3>1, FrameTypes DEF ReadBackOSC, TypeInv
    <2> QED BY <2>1, <2>2
  <1>16. ASSUME NEW k \in SecretKinds, pc[m] \in Rendering, SecretEnsured(m, k)
         PROVE  WorkersOK'
    <2>1. src[m] # None
      BY <1>16 DEF TypeInv, WorkersOK
    <2> QED BY <1>16, <2>1, GotoTypes, ReturnTypes DEF SecretEnsured
  <1>17. ASSUME NEW k \in SecretKinds, CheckSecret(m, k) PROVE TypeInv'
    <2>1. pc[m] \in Rendering /\ CreatePC[k] \in Rendering
      BY <1>17 DEF CheckSecret, CheckPC, CreatePC, SecretKinds
    <2>2. src[m] # None
      BY <2>1 DEF TypeInv, WorkersOK
    <2>3. WorkersOK'
      BY <1>16, <1>17, <2>1, <2>2, GotoTypes DEF CheckSecret
    <2>4. CountersOK'
      BY <1>17 DEF CheckSecret, TypeInv, CountersOK
    <2> QED BY <1>17, <2>3, <2>4, FrameTypes DEF CheckSecret, TypeInv
  <1>18. ASSUME NEW k \in SecretKinds, CreateSecret(m, k) PROVE TypeInv'
    <2>1. pc[m] \in Rendering
      BY <1>18 DEF CreateSecret, CreatePC, SecretKinds
    <2>2. CASE Error(m)
      BY <1>18, <2>2, ReturnTypes, FrameTypes DEF CreateSecret, Error, TypeInv
    <2>3. CASE ~Error(m)
      <3>1. WorkersOK'
        BY <1>16, <1>18, <2>1, <2>3 DEF CreateSecret
      <3>2. [stamp |-> Wanted(m), osc |-> src[m]] \in SecretOrNone
        BY <2>1, StampType DEF TypeInv, WorkersOK, OSCOrNone, SecretOrNone, SecretObj
      <3>3. /\ secret' = [secret EXCEPT ![m][k] = [stamp |-> Wanted(m), osc |-> src[m]]]
            /\ UNCHANGED <<md, osp, osc, kubelet, script>>
        BY <1>18, <2>3 DEF CreateSecret
      <3>4. ASSUME NEW r \in SecretOrNone
            PROVE  [secret EXCEPT ![m][k] = r] \in [MD -> SecretMap]
        BY DEF TypeInv, ObjectsOK, SecretMap
      <3>5. secret' \in [MD -> SecretMap]
        BY <3>2, <3>3, <3>4
      <3>6. ObjectsOK'
        BY <3>3, <3>5 DEF TypeInv, ObjectsOK
      <3> QED BY <1>18, <2>3, <3>1, <3>6, FrameTypes DEF CreateSecret, TypeInv
    <2> QED BY <2>2, <2>3
  <1> QED
    BY <1>1, <1>2, <1>3, <1>4, <1>5, <1>6, <1>7, <1>8, <1>9, <1>10, <1>11, <1>12, <1>13,
       <1>14, <1>15, <1>17, <1>18 DEF Step

\* Failures, informers, users and other controllers keep the type invariant.
LEMMA TypeEnvironment ==
  ASSUME TypeInv, (\E m \in MD : Fail(m)) \/ Restart \/ Informer \/ OtherControllers \/ User
  PROVE  TypeInv'
  <1>1. ASSUME NEW m \in MD, Fail(m) PROVE TypeInv'
    <2>1. CountersOK'
      BY <1>1 DEF Fail, TypeInv, CountersOK
    <2> QED BY <1>1, <2>1, ReturnTypes, FrameTypes DEF Fail, Error, TypeInv
  <1>2. CASE Restart
    <2>1. WorkersOK'
      BY <1>2, NoMDType DEF Restart, WorkersOK, OSCOrNone, Busy, Cleaning, Building, Rendering
    <2>2. ViewsOK'
      BY <1>2 DEF Restart, TypeInv, ViewsOK, ObjectsOK
    <2>3. CountersOK'
      BY <1>2 DEF Restart, TypeInv, CountersOK, ObjectsOK, MDObj
    <2> QED BY <1>2, <2>1, <2>2, <2>3, FrameTypes DEF Restart, TypeInv
  <1>3. CASE Informer
    <2>1. ASSUME NEW m \in MD, SyncMD(m) PROVE TypeInv'
      <3>1. ViewsOK' /\ CountersOK'
        BY <2>1 DEF SyncMD, TypeInv, ViewsOK, ObjectsOK, CountersOK
      <3> QED BY <2>1, <3>1, FrameTypes DEF SyncMD, TypeInv
    <2>2. ASSUME NEW m \in MD, SyncOSC(m) PROVE TypeInv'
      <3>1. ViewsOK'
        BY <2>2 DEF SyncOSC, TypeInv, ViewsOK, ObjectsOK
      <3> QED BY <2>2, <3>1, FrameTypes DEF SyncOSC, TypeInv, worker, Locals
    <2>3. ASSUME NEW m \in MD, SyncSecrets(m) PROVE TypeInv'
      <3>1. ViewsOK'
        BY <2>3 DEF SyncSecrets, TypeInv, ViewsOK, ObjectsOK
      <3> QED BY <2>3, <3>1, FrameTypes DEF SyncSecrets, TypeInv, worker, Locals
    <2>4. ASSUME NEW m \in MD, Resync(m) PROVE TypeInv'
      <3>1. CountersOK'
        BY <2>4 DEF Resync, TypeInv, CountersOK
      <3> QED BY <2>4, <3>1, FrameTypes DEF Resync, TypeInv
    <2>5. ASSUME NEW p \in OSP, SyncOSP(p) PROVE TypeInv'
      <3>1. ViewsOK'
        BY <2>5 DEF SyncOSP, TypeInv, ViewsOK, ObjectsOK
      <3> QED BY <2>5, <3>1, FrameTypes DEF SyncOSP, TypeInv, worker, Locals
    <2> QED BY <1>3, <2>1, <2>2, <2>3, <2>4, <2>5 DEF Informer
  <1>4. ASSUME NEW m \in MD, NEW o \in MDObj, o.exists => o.osp \in OSP, WriteMD(m, o), edits' \in Nat
        PROVE  TypeInv'
    <2>1. ObjectsOK'
      BY <1>4 DEF WriteMD, TypeInv, ObjectsOK
    <2>2. CountersOK'
      BY <1>4 DEF WriteMD, Notify, TypeInv, CountersOK
    <2> QED BY <1>4, <2>1, <2>2, FrameTypes DEF WriteMD, TypeInv
  <1>5. ASSUME NEW m \in MD
        PROVE  /\ md[m] \in MDObj /\ md[m].rv + 1 \in Nat
               /\ NoMD(md[m].rv + 1) \in MDObj /\ ~NoMD(md[m].rv + 1).exists
    <2>1. md[m] \in MDObj
      BY DEF TypeInv, ObjectsOK
    <2>2. md[m].rv + 1 \in Nat
      BY <2>1 DEF MDObj
    <2> QED BY <2>1, <2>2, NoMDType
  <1>6. UNCHANGED edits \/ Edit => edits' \in Nat
    BY DEF TypeInv, CountersOK, Edit
  <1>7. CASE OtherControllers
    <2>1. ASSUME NEW m \in MD, BumpRevision(m) PROVE TypeInv'
      <3> DEFINE o == [md[m] EXCEPT !.rev = @ + 1, !.synced = TRUE, !.rv = @ + 1]
      <3>1. md[m] \in MDObj /\ md[m].rev + 1 \in Nat /\ md[m].rv + 1 \in Nat
        BY <1>5 DEF MDObj
      <3>2. o \in MDObj /\ o.exists = md[m].exists /\ o.osp = md[m].osp
        BY <3>1, ZenonT(30) DEF MDObj
      <3> QED BY <2>1, <3>2, <1>4, <1>6 DEF BumpRevision, TypeInv, ObjectsOK
    <2>2. ASSUME NEW m \in MD, OtherFinalizersDone(m) PROVE TypeInv'
      BY <2>2, <1>4, <1>5, <1>6 DEF OtherFinalizersDone
    <2> QED BY <1>7, <2>1, <2>2 DEF OtherControllers
  <1>8. CASE User
    <2>1. ASSUME NEW m \in MD, NEW p \in OSP, NEW e \in EdgeProvider, UserCreate(m, p, e)
          PROVE TypeInv'
      <3> DEFINE o == [exists |-> TRUE, deleting |-> FALSE, fin |-> FALSE, synced |-> FALSE,
                       edge |-> e, tmpl |-> md[m].rv + 1, rev |-> 0, osp |-> p,
                       rv |-> md[m].rv + 1]
      <3>1. o \in MDObj /\ o.osp \in OSP
        BY <1>5, ConstantsAssumption DEF MDObj
      <3> QED BY <2>1, <3>1, <1>4, <1>6 DEF UserCreate
    <2>2. ASSUME NEW m \in MD, EditTemplate(m) PROVE TypeInv'
      <3> DEFINE o == [md[m] EXCEPT !.tmpl = md[m].rv + 1, !.synced = FALSE, !.rv = @ + 1]
      <3>1. o \in MDObj /\ o.exists = md[m].exists /\ o.osp = md[m].osp
        BY <1>5 DEF MDObj
      <3> QED BY <2>2, <3>1, <1>4, <1>6 DEF EditTemplate, TypeInv, ObjectsOK
    <2>3. ASSUME NEW m \in MD, NEW p \in OSP, SwitchOSP(m, p) PROVE TypeInv'
      <3> DEFINE o == [md[m] EXCEPT !.osp = p, !.rv = @ + 1]
      <3>1. o \in MDObj /\ o.osp \in OSP
        BY <1>5 DEF MDObj
      <3> QED BY <2>3, <3>1, <1>4, <1>6 DEF SwitchOSP
    <2>4. ASSUME NEW m \in MD, UserDelete(m) PROVE TypeInv'
      <3> DEFINE o == [md[m] EXCEPT !.deleting = TRUE, !.rv = @ + 1]
      <3>1. o \in MDObj /\ o.exists = md[m].exists /\ o.osp = md[m].osp
        BY <1>5 DEF MDObj
      <3> QED BY <2>4, <3>1, <1>4, <1>5, <1>6 DEF UserDelete, TypeInv, ObjectsOK
    <2>5. ASSUME NEW p \in OSP, PublishOSP(p) PROVE TypeInv'
      <3>1. ObjectsOK'
        BY <2>5 DEF PublishOSP, TypeInv, ObjectsOK
      <3>2. CountersOK'
        BY <2>5, <1>6 DEF PublishOSP, TypeInv, CountersOK, worker
      <3> QED BY <2>5, <3>1, <3>2, FrameTypes DEF PublishOSP, TypeInv, worker, Locals
    <2> QED BY <1>8, <2>1, <2>2, <2>3, <2>4, <2>5 DEF User
  <1> QED BY <1>1, <1>2, <1>3, <1>7, <1>8

\* Every step keeps the type invariant.
LEMMA TypeNext == TypeInv /\ [Next]_vars => TypeInv'
  <1>1. TypeInv /\ Next => TypeInv'
    BY TypeStep, TypeEnvironment DEF Next
  <1>2. TypeInv /\ UNCHANGED vars => TypeInv'
    BY FrameTypes DEF vars, worker, Locals, TypeInv
  <1> QED BY <1>1, <1>2

\* Type correctness of the controller and its environment.  In particular no secret
\* is ever rendered from an OSC that was not read, and no OSP is fetched for a
\* MachineDeployment that names none.
THEOREM TypeCorrect == Spec => []TypeOK
  BY TypeInit, TypeNext, TypeInvImpliesTypeOK, PTL DEF Spec

-----------------------------------------------------------------------------
(* Protected.  By itself it is not inductive: a worker acts on a copy of    *)
(* the MachineDeployment, taken from a cache that may be old.  What makes   *)
(* it true is that copies age in one direction (Versions), that an old copy *)
(* which shows the finalizer on an object that is not being deleted can be  *)
(* trusted, since only a worker that saw the deletion removes the finalizer *)
(* (Trusted), and that the finalizer is only removed after every Delete     *)
(* (Progress).                                                              *)

Live(o)    == o.exists /\ o.fin /\ ~o.deleting
Guarded(n) == md[n].exists /\ md[n].fin

Versions(n) ==
  /\ mdView[n].rv <= md[n].rv
  /\ mdView[n].rv = md[n].rv => mdView[n] = md[n]
  /\ pc[n] \in Busy => cur[n].rv <= md[n].rv
  /\ pc[n] \in Busy /\ cur[n].rv = md[n].rv => cur[n] = md[n]

\* Where the copy is that of the cache, not the answer to the worker's own Update.
FromRead(n) == pc[n] \in Busy /\ (pc[n] = "addFinalizer" \/ cur[n].deleting)

Trusted(n) ==
  /\ "md" \notin CachedReads => ~mdView[n].exists
  /\ "md" \in CachedReads /\ FromRead(n) => cur[n].rv <= mdView[n].rv
  /\ Live(mdView[n]) => Guarded(n)
  /\ pc[n] \in Busy /\ ~cur[n].deleting /\ pc[n] # "addFinalizer" => Guarded(n)

Progress(n) ==
  /\ pc[n] \in {"cleanupOSC", "removeFinalizer"} => cur[n].deleting
  /\ pc[n] \in Building \cup {"addFinalizer", "fetchOSP", "checkRotation", "rotateOSC"}
       => ~cur[n].deleting
  /\ pc[n] \in {"deleteProvisioning", "deleteBootstrap", "deleteKubelet", "removeFinalizer"}
       => osc[n] = None
  /\ pc[n] \in {"deleteBootstrap", "deleteKubelet", "removeFinalizer"}
       => secret[n]["provisioning"] = None
  /\ pc[n] \in {"deleteKubelet", "removeFinalizer"} => secret[n]["bootstrap"] = None
  /\ pc[n] = "removeFinalizer" => ~kubelet[n]

Empty(n) == osc[n] = None /\ secret[n]["provisioning"] = None
              /\ secret[n]["bootstrap"] = None /\ ~kubelet[n]

Owned(n) == ~Empty(n) => Guarded(n)

GuardAt(n) == Versions(n) /\ Trusted(n) /\ Progress(n) /\ Owned(n)
GuardInv   == \A n \in MD : GuardAt(n)

\* What GuardAt(n) depends on, unchanged.
Same(n) ==
  /\ md'[n] = md[n] /\ mdView'[n] = mdView[n] /\ osc'[n] = osc[n] /\ secret'[n] = secret[n]
  /\ kubelet'[n] = kubelet[n] /\ pc'[n] = pc[n] /\ cur'[n] = cur[n]

\* A step that does not touch n keeps GuardAt(n).
LEMMA GuardFrame ==
  ASSUME NEW n \in MD, GuardAt(n), Same(n)
  PROVE  GuardAt(n)'
  BY DEF GuardAt, Versions, Trusted, Progress, Owned, Same, Live, Guarded, FromRead, Empty

\* Returning from Reconcile keeps GuardAt(n): nothing depends on the worker any more.
LEMMA GuardReturn ==
  ASSUME NEW n \in MD, TypeInv, GuardAt(n), NEW l \in {"idle", "backoff"}, Return(n, l),
         md'[n] = md[n], mdView'[n] = mdView[n], osc'[n] = osc[n], secret'[n] = secret[n],
         kubelet'[n] = kubelet[n]
  PROVE  GuardAt(n)'
  <1>1. pc'[n] = l
    BY DEF Return, Goto, TypeInv, WorkersOK
  <1>2. pc'[n] \notin Busy
    BY <1>1 DEF Busy, Cleaning, Building
  <1>3. Versions(n)' /\ Trusted(n)'
    BY <1>2 DEF GuardAt, Versions, Trusted, Live, Guarded, FromRead
  <1>4. Progress(n)'
    BY <1>1 DEF Progress, Building
  <1>5. Owned(n)'
    BY DEF GuardAt, Owned, Empty, Guarded
  <1> QED BY <1>3, <1>4, <1>5 DEF GuardAt

\* A step within Reconcile keeps what concerns the copy of the MachineDeployment.
LEMMA GuardAdvance ==
  ASSUME NEW n \in MD, TypeInv, GuardAt(n), NEW l \in Busy, l # "addFinalizer",
         pc[n] \in Busy, pc[n] # "addFinalizer", Goto(n, l), UNCHANGED <<md, mdView, cur>>
  PROVE  pc'[n] = l /\ Versions(n)' /\ Trusted(n)'
  <1>1. pc'[n] = l
    BY DEF Goto, TypeInv, WorkersOK
  <1> QED
    BY <1>1 DEF GuardAt, Versions, Trusted, Live, Guarded, FromRead

\* Initially there is nothing to guard.
LEMMA GuardInit == Init => GuardInv
  <1> SUFFICES ASSUME Init, NEW n \in MD PROVE GuardAt(n)
    BY DEF GuardInv
  <1>1. /\ md[n] = NoMD(0) /\ mdView[n] = NoMD(0) /\ pc[n] = "idle" /\ osc[n] = None
        /\ secret[n] = NoSecrets /\ ~kubelet[n]
    BY DEF Init
  <1>2. NoMD(0).rv = 0 /\ ~NoMD(0).exists
    BY DEF NoMD
  <1>3. pc[n] \notin Busy
    BY <1>1 DEF Busy, Cleaning, Building
  <1>4. Versions(n) /\ Trusted(n)
    BY <1>1, <1>2, <1>3 DEF Versions, Trusted, Live, FromRead
  <1>5. Progress(n) /\ Owned(n)
    BY <1>1 DEF Progress, Owned, Empty, NoSecrets, SecretKinds, Building
  <1> QED BY <1>4, <1>5 DEF GuardAt

\* A worker's step leaves the other MachineDeployments alone.
LEMMA StepFrame ==
  ASSUME TypeInv, NEW m \in MD, NEW n \in MD, n # m, Step(m)
  PROVE  Same(n)
  <1> USE DEF Same, TypeInv, ObjectsOK, WorkersOK, api, views, Locals, Goto, Return, Error
  <1>1. CASE StartReconcile(m)
    BY <1>1 DEF StartReconcile
  <1>2. CASE AddFinalizer(m)
    BY <1>2 DEF AddFinalizer
  <1>3. CASE fetchOSP(m)
    BY <1>3 DEF fetchOSP
  <1>4. CASE CheckRotation(m)
    BY <1>4 DEF CheckRotation
  <1>5. CASE RotateOSC(m)
    BY <1>5 DEF RotateOSC
  <1>6. CASE deleteOperatingSystemConfig(m)
    BY <1>6 DEF deleteOperatingSystemConfig
  <1>7. CASE DeleteProvisioning(m)
    BY <1>7 DEF DeleteProvisioning
  <1>8. CASE DeleteBootstrap(m)
    BY <1>8 DEF DeleteBootstrap
  <1>9. CASE DeleteKubelet(m)
    BY <1>9 DEF DeleteKubelet
  <1>10. CASE RemoveFinalizer(m)
    BY <1>10 DEF RemoveFinalizer
  <1>11. CASE CreateBootstrapKubeconfig(m)
    BY <1>11 DEF CreateBootstrapKubeconfig
  <1>12. CASE CheckOSC(m)
    BY <1>12 DEF CheckOSC
  <1>13. CASE generateEdgeScript(m)
    BY <1>13 DEF generateEdgeScript
  <1>14. CASE CreateOSC(m)
    BY <1>14 DEF CreateOSC
  <1>15. CASE ReadBackOSC(m)
    BY <1>15 DEF ReadBackOSC
  <1>16. ASSUME NEW k \in SecretKinds, CheckSecret(m, k) PROVE Same(n)
    BY <1>16 DEF CheckSecret, SecretEnsured
  <1>17. ASSUME NEW k \in SecretKinds, CreateSecret(m, k) PROVE Same(n)
    BY <1>17 DEF CreateSecret, SecretEnsured
  <1> QED
    BY <1>1, <1>2, <1>3, <1>4, <1>5, <1>6, <1>7, <1>8, <1>9,
       <1>10, <1>11, <1>12, <1>13, <1>14, <1>15, <1>16, <1>17 DEF Step

\* A worker's step keeps GuardAt of its own MachineDeployment.
LEMMA GuardOwnStep ==
  ASSUME TypeInv, NEW m \in MD, GuardAt(m), Step(m)
  PROVE  GuardAt(m)'
  <1> USE DEF Busy, Cleaning, Building
  <1>a. ASSUME Error(m), UNCHANGED views PROVE GuardAt(m)'
    BY <1>a, GuardReturn DEF Error, api, views
  <1>1. CASE StartReconcile(m)
    <2>1. CASE Return(m, "idle")
      BY <1>1, <2>1, GuardReturn DEF StartReconcile, api, views
    <2>2. CASE ~Return(m, "idle")
      <3> DEFINE o == ReadMD(m)
      <3>1. /\ o.exists /\ (o.fin \/ ~o.deleting) /\ cur' = [cur EXCEPT ![m] = o]
            /\ Goto(m, CASE o.deleting          -> "cleanupOSC"
                         [] ~o.deleting /\ ~o.fin -> "addFinalizer"
                         [] OTHER               -> "fetchOSP")
            /\ UNCHANGED <<api, views>>
        BY <1>1, <2>2 DEF StartReconcile
      <3>2. o \in MDObj
        BY ReadTypes
      <3>3. cur'[m] = o
        BY <3>1 DEF TypeInv, WorkersOK
      <3>4. /\ pc'[m] \in {"cleanupOSC", "addFinalizer", "fetchOSP"}
            /\ pc'[m] = "cleanupOSC" <=> o.deleting
            /\ pc'[m] = "fetchOSP" => Live(o)
        BY <3>1, <3>2 DEF Goto, TypeInv, WorkersOK, Live, MDObj
      <3>5. o.rv <= md[m].rv /\ (o.rv = md[m].rv => o = md[m])
        BY DEF ReadMD, GuardAt, Versions, TypeInv, ObjectsOK, MDObj
      <3>6. Versions(m)'
        BY <3>1, <3>3, <3>5 DEF GuardAt, Versions, api, views
      <3>7. Live(o) => Guarded(m)
        BY DEF ReadMD, GuardAt, Trusted, Live, Guarded
      <3>8. "md" \in CachedReads => o.rv <= mdView[m].rv
        BY DEF ReadMD, TypeInv, ViewsOK, MDObj
      <3>9. Trusted(m)'
        BY <3>1, <3>3, <3>4, <3>7, <3>8
           DEF GuardAt, Trusted, Live, Guarded, FromRead, api, views
      <3>10. Progress(m)' /\ Owned(m)'
        BY <3>1, <3>3, <3>4 DEF GuardAt, Progress, Owned, Empty, Guarded, api
      <3> QED BY <3>6, <3>9, <3>10 DEF GuardAt
    <2> QED BY <2>1, <2>2
  <1>2. CASE AddFinalizer(m)
    <2>1. CASE ~Current(m)
      BY <1>2, <2>1, <1>a DEF AddFinalizer
    <2>2. CASE Current(m)
      <3>1. /\ md' = [md EXCEPT ![m].fin = TRUE, ![m].rv = @ + 1]
            /\ cur' = [cur EXCEPT ![m] = md'[m]] /\ Goto(m, "fetchOSP")
            /\ UNCHANGED <<osc, secret, kubelet, mdView>>
        BY <1>2, <2>2 DEF AddFinalizer, views
      <3>2. cur[m] = md[m] /\ ~md[m].deleting /\ md[m].exists
        BY <1>2, <2>2 DEF AddFinalizer, Current, GuardAt, Versions, Progress
      <3>3. /\ md'[m].fin /\ md'[m].exists /\ ~md'[m].deleting /\ md'[m].rv = md[m].rv + 1
            /\ md[m].rv \in Nat /\ mdView[m].rv \in Nat
        BY <3>1, <3>2 DEF TypeInv, ObjectsOK, ViewsOK, MDObj
      <3>4. cur'[m] = md'[m] /\ pc'[m] = "fetchOSP"
        BY <3>1 DEF TypeInv, WorkersOK, Goto
      <3>5. Versions(m)'
        <4>1. mdView'[m] = mdView[m] /\ mdView[m].rv <= md[m].rv
          BY <3>1 DEF GuardAt, Versions
        <4>2. mdView'[m].rv <= md'[m].rv /\ mdView'[m].rv # md'[m].rv
          BY <3>3, <4>1
        <4>3. cur'[m].rv <= md'[m].rv
          BY <3>3, <3>4
        <4> QED BY <3>4, <4>2, <4>3 DEF Versions
      <3>6. Trusted(m)'
        BY <3>1, <3>3, <3>4 DEF GuardAt, Trusted, Live, Guarded, FromRead
      <3>7. Progress(m)' /\ Owned(m)'
        BY <3>3, <3>4 DEF Progress, Owned, Guarded
      <3> QED BY <3>5, <3>6, <3>7 DEF GuardAt
    <2> QED BY <2>1, <2>2
  <1>3. CASE fetchOSP(m)
    <2>1. CASE Error(m)
      BY <1>3, <2>1, <1>a DEF fetchOSP
    <2>2. CASE ~Error(m)
      <3>1. Goto(m, "checkRotation") /\ UNCHANGED <<api, views, cur>>
        BY <1>3, <2>2 DEF fetchOSP
      <3>2. pc'[m] = "checkRotation" /\ Versions(m)' /\ Trusted(m)'
        BY <1>3, <3>1, GuardAdvance DEF fetchOSP, api, views
      <3> QED
        BY <1>3, <3>1, <3>2 DEF fetchOSP, GuardAt, Progress, Owned, Empty, Guarded, api
    <2> QED BY <2>1, <2>2
  <1>4. CASE CheckRotation(m)
    <2>1. \E l \in {"createBootstrapKubeconfig", "rotateOSC"} : Goto(m, l)
      BY <1>4 DEF CheckRotation
    <2>2. PICK l \in {"createBootstrapKubeconfig", "rotateOSC"} : Goto(m, l)
      BY <2>1
    <2>3. pc'[m] = l /\ Versions(m)' /\ Trusted(m)'
      BY <1>4, <2>2, GuardAdvance DEF CheckRotation, api, views, Locals
    <2> QED
      BY <1>4, <2>3 DEF CheckRotation, GuardAt, Progress, Owned, Empty, Guarded, api, Locals
  <1>5. CASE RotateOSC(m)
    <2>1. CASE Error(m)
      BY <1>5, <2>1, <1>a DEF RotateOSC
    <2>2. CASE ~Error(m)
      <3>1. pc'[m] = "deleteProvisioning" /\ Versions(m)' /\ Trusted(m)'
        BY <1>5, <2>2, GuardAdvance DEF RotateOSC, api, views, Locals
      <3>2. Guarded(m)'
        BY <1>5, <2>2 DEF RotateOSC, GuardAt, Trusted, Progress, Guarded
      <3>3. Progress(m)'
        BY <1>5, <2>2, <3>1 DEF RotateOSC, GuardAt, Progress, api, Locals, TypeInv, ObjectsOK
      <3> QED BY <3>1, <3>2, <3>3 DEF GuardAt, Owned
    <2> QED BY <2>1, <2>2
  <1>6. CASE deleteOperatingSystemConfig(m)
    <2>1. pc'[m] = "deleteProvisioning" /\ Versions(m)' /\ Trusted(m)'
      BY <1>6, GuardAdvance DEF deleteOperatingSystemConfig, views, Locals
    <2>2. Progress(m)' /\ Owned(m)'
      BY <1>6, <2>1 DEF deleteOperatingSystemConfig, GuardAt, Progress, Owned, Empty, Guarded, Locals,
         TypeInv, ObjectsOK, SecretMap, SecretKinds
    <2> QED BY <2>1, <2>2 DEF GuardAt
  <1>7. CASE DeleteProvisioning(m)
    <2>1. pc'[m] = "deleteBootstrap" /\ Versions(m)' /\ Trusted(m)'
      BY <1>7, GuardAdvance DEF DeleteProvisioning, views, Locals
    <2>2. Progress(m)' /\ Owned(m)'
      BY <1>7, <2>1 DEF DeleteProvisioning, GuardAt, Progress, Owned, Empty, Guarded, Locals,
         TypeInv, ObjectsOK, SecretMap, SecretKinds
    <2> QED BY <2>1, <2>2 DEF GuardAt
  <1>8. CASE DeleteBootstrap(m)
    <2>1. pc'[m] = "deleteKubelet" /\ Versions(m)' /\ Trusted(m)'
      BY <1>8, GuardAdvance DEF DeleteBootstrap, views, Locals
    <2>2. Progress(m)' /\ Owned(m)'
      BY <1>8, <2>1 DEF DeleteBootstrap, GuardAt, Progress, Owned, Empty, Guarded, Locals,
         TypeInv, ObjectsOK, SecretMap, SecretKinds
    <2> QED BY <2>1, <2>2 DEF GuardAt
  <1>9. CASE DeleteKubelet(m)
    <2> DEFINE l == IF cur[m].deleting THEN "removeFinalizer" ELSE "createBootstrapKubeconfig"
    <2>1. pc'[m] = l /\ Versions(m)' /\ Trusted(m)'
      BY <1>9, GuardAdvance DEF DeleteKubelet, views, Locals
    <2>2. Progress(m)' /\ Owned(m)'
      BY <1>9, <2>1 DEF DeleteKubelet, GuardAt, Progress, Owned, Empty, Guarded, Locals,
         TypeInv, ObjectsOK
    <2> QED BY <2>1, <2>2 DEF GuardAt
  <1>10. CASE RemoveFinalizer(m)
    <2>1. CASE ~Current(m)
      BY <1>10, <2>1, <1>a DEF RemoveFinalizer
    <2>2. CASE Current(m)
      <3>1. /\ \/ md' = [md EXCEPT ![m] = NoMD(md[m].rv + 1)]
               \/ md' = [md EXCEPT ![m].fin = FALSE, ![m].rv = @ + 1]
            /\ Return(m, "idle") /\ UNCHANGED <<osc, secret, kubelet, mdView>>
        BY <1>10, <2>2 DEF RemoveFinalizer, views
      <3>2. cur[m] = md[m] /\ md[m].deleting
        BY <1>10, <2>2 DEF RemoveFinalizer, Current, GuardAt, Versions, Progress
      <3>3. md[m].rv \in Nat /\ mdView[m].rv \in Nat /\ md'[m].rv = md[m].rv + 1
        BY <3>1 DEF TypeInv, ObjectsOK, ViewsOK, MDObj, NoMD
      <3>4. pc'[m] = "idle" /\ pc'[m] \notin Busy
        BY <3>1 DEF Return, Goto, TypeInv, WorkersOK
      <3>5. ~Live(mdView[m])
        BY <1>10, <3>2, <3>3 DEF RemoveFinalizer, GuardAt, Versions, Trusted, FromRead, Live
      <3>6. Versions(m)'
        BY <3>1, <3>3, <3>4 DEF GuardAt, Versions
      <3>7. Trusted(m)'
        BY <3>1, <3>4, <3>5 DEF GuardAt, Trusted, Live, FromRead
      <3>8. Progress(m)' /\ Owned(m)'
        BY <1>10, <3>1, <3>4 DEF RemoveFinalizer, GuardAt, Progress, Owned, Empty
      <3> QED BY <3>6, <3>7, <3>8 DEF GuardAt
    <2> QED BY <2>1, <2>2
  <1>11. CASE CreateBootstrapKubeconfig(m)
    <2>1. CASE Error(m)
      BY <1>11, <2>1, <1>a DEF CreateBootstrapKubeconfig
    <2>2. CASE ~Error(m)
      <3>1. pc'[m] = "checkOSC" /\ Versions(m)' /\ Trusted(m)'
        BY <1>11, <2>2, GuardAdvance DEF CreateBootstrapKubeconfig, api, views, Locals
      <3>2. Guarded(m)'
        BY <1>11, <2>2 DEF CreateBootstrapKubeconfig, GuardAt, Trusted, Progress, Guarded, api
      <3>3. Progress(m)'
        BY <1>11, <2>2, <3>1 DEF CreateBootstrapKubeconfig, GuardAt, Progress, api, Locals, TypeInv, ObjectsOK
      <3> QED BY <3>1, <3>2, <3>3 DEF GuardAt, Owned
    <2> QED BY <2>1, <2>2
  <1>12. CASE CheckOSC(m)
    <2>1. CASE Error(m)
      BY <1>12, <2>1, <1>a DEF CheckOSC
    <2>2. CASE ~Error(m)
      <3>1. PICK l \in {"readOSC", "edgeScript", "createOSC"} : Goto(m, l)
        BY <1>12, <2>2 DEF CheckOSC
      <3>2. UNCHANGED <<api, views, Locals>>
        BY <1>12, <2>2 DEF CheckOSC
      <3>3. pc'[m] = l /\ Versions(m)' /\ Trusted(m)'
        BY <1>12, <3>1, <3>2, GuardAdvance DEF CheckOSC, api, views, Locals
      <3> QED
        BY <1>12, <3>2, <3>3 DEF CheckOSC, GuardAt, Progress, Owned, Empty, Guarded, api, Locals
    <2> QED BY <2>1, <2>2
  <1>13. CASE generateEdgeScript(m)
    <2>1. CASE Error(m)
      BY <1>13, <2>1, <1>a DEF generateEdgeScript
    <2>2. CASE ~Error(m)
      <3>1. pc'[m] = "createOSC" /\ Versions(m)' /\ Trusted(m)'
        BY <1>13, <2>2, GuardAdvance DEF generateEdgeScript, api, views, Locals
      <3>2. Guarded(m)'
        BY <1>13, <2>2 DEF generateEdgeScript, GuardAt, Trusted, Progress, Guarded
      <3>3. Progress(m)'
        BY <1>13, <2>2, <3>1 DEF generateEdgeScript, GuardAt, Progress, api, Locals, TypeInv, ObjectsOK
      <3> QED BY <3>1, <3>2, <3>3 DEF GuardAt, Owned
    <2> QED BY <2>1, <2>2
  <1>14. CASE CreateOSC(m)
    <2>1. CASE Error(m)
      BY <1>14, <2>1, <1>a DEF CreateOSC
    <2>2. CASE ~Error(m)
      <3>1. pc'[m] = "readOSC" /\ Versions(m)' /\ Trusted(m)'
        BY <1>14, <2>2, GuardAdvance DEF CreateOSC, api, views, Locals
      <3>2. Guarded(m)'
        BY <1>14, <2>2 DEF CreateOSC, GuardAt, Trusted, Progress, Guarded
      <3>3. Progress(m)'
        BY <1>14, <2>2, <3>1 DEF CreateOSC, GuardAt, Progress, api, Locals, TypeInv, ObjectsOK
      <3> QED BY <3>1, <3>2, <3>3 DEF GuardAt, Owned
    <2> QED BY <2>1, <2>2
  <1>15. CASE ReadBackOSC(m)
    <2>1. CASE Error(m)
      BY <1>15, <2>1, <1>a DEF ReadBackOSC
    <2>2. CASE ~Error(m)
      <3>1. pc'[m] = "checkProvisioning" /\ Versions(m)' /\ Trusted(m)'
        BY <1>15, <2>2, GuardAdvance DEF ReadBackOSC, api, views, Locals
      <3>2. Guarded(m)'
        BY <1>15, <2>2 DEF ReadBackOSC, GuardAt, Trusted, Progress, Guarded, api
      <3>3. Progress(m)'
        BY <1>15, <2>2, <3>1 DEF ReadBackOSC, GuardAt, Progress, api, Locals, TypeInv, ObjectsOK
      <3> QED BY <3>1, <3>2, <3>3 DEF GuardAt, Owned
    <2> QED BY <2>1, <2>2
  <1>16. ASSUME NEW k \in SecretKinds, pc[m] \in {CheckPC[k], CreatePC[k]}
         PROVE  pc[m] \in Rendering /\ pc[m] \in Building /\ ~cur[m].deleting /\ Guarded(m)
    <2>1. pc[m] \in Rendering
      BY <1>16 DEF CheckPC, CreatePC, SecretKinds, Rendering
    <2> QED BY <2>1 DEF Rendering, GuardAt, Progress, Trusted
  <1>17. ASSUME NEW k \in SecretKinds, pc[m] \in {CheckPC[k], CreatePC[k]},
                NEW l \in Rendering, Goto(m, l),
                UNCHANGED <<md, osc, kubelet, views, Locals>>
         PROVE  GuardAt(m)'
    <2>1. l \in Building /\ l # "addFinalizer"
      BY DEF Rendering
    <2>2. pc'[m] = l /\ Versions(m)' /\ Trusted(m)'
      BY <1>16, <1>17, <2>1, GuardAdvance DEF views, Locals
    <2>3. Progress(m)'
      BY <1>16, <1>17, <2>2 DEF Progress, Rendering, Locals
    <2>4. Owned(m)'
      BY <1>16, <1>17 DEF Owned, Guarded
    <2> QED BY <2>2, <2>3, <2>4 DEF GuardAt
  <1>18. ASSUME Return(m, "idle"), Guarded(m), UNCHANGED <<md, views>>
         PROVE  GuardAt(m)'
    <2>1. pc'[m] = "idle" /\ pc'[m] \notin Busy
      BY <1>18 DEF Return, Goto, TypeInv, WorkersOK
    <2>2. Versions(m)' /\ Trusted(m)'
      BY <1>18, <2>1 DEF GuardAt, Versions, Trusted, Live, Guarded, FromRead, views
    <2>3. Progress(m)' /\ Owned(m)'
      BY <1>18, <2>1 DEF Progress, Owned, Guarded
    <2> QED BY <2>2, <2>3 DEF GuardAt
  <1>19. ASSUME NEW k \in SecretKinds, CheckSecret(m, k) PROVE GuardAt(m)'
    <2>1. CreatePC[k] \in Rendering
      BY DEF CreatePC, SecretKinds, Rendering
    <2>2. "checkBootstrap" \in Rendering
      BY DEF Rendering
    <2>3. pc[m] = CheckPC[k] /\ Guarded(m) /\ UNCHANGED <<md, osc, kubelet, views>>
      BY <1>16, <1>19 DEF CheckSecret, api
    <2>4. CASE Return(m, "idle")
      BY <2>3, <2>4, <1>18
    <2>5. CASE ~Return(m, "idle")
      BY <1>17, <1>19, <2>1, <2>2, <2>3, <2>5 DEF CheckSecret, SecretEnsured
    <2> QED BY <2>4, <2>5
  <1>20. ASSUME NEW k \in SecretKinds, CreateSecret(m, k) PROVE GuardAt(m)'
    <2>1. CASE Error(m)
      BY <1>20, <2>1, <1>a DEF CreateSecret
    <2>2. CASE ~Error(m)
      <3>1. /\ pc[m] = CreatePC[k] /\ Guarded(m) /\ SecretEnsured(m, k)
            /\ UNCHANGED <<md, osc, kubelet, views>>
        BY <1>16, <1>20, <2>2 DEF CreateSecret
      <3>2. "checkBootstrap" \in Rendering
        BY DEF Rendering
      <3> QED BY <3>1, <3>2, <1>17, <1>18 DEF SecretEnsured
    <2> QED BY <2>1, <2>2
  <1> QED
    BY <1>1, <1>2, <1>3, <1>4, <1>5, <1>6, <1>7, <1>8, <1>9, <1>10, <1>11, <1>12, <1>13,
       <1>14, <1>15, <1>19, <1>20 DEF Step

\* Somebody else writes a MachineDeployment and does not take our finalizer away.
LEMMA GuardWrite ==
  ASSUME TypeInv, NEW m \in MD, NEW n \in MD, GuardAt(n), NEW o, WriteMD(m, o),
         o.rv = md[m].rv + 1, Guarded(m) => o.exists /\ o.fin
  PROVE  GuardAt(n)'
  <1>1. /\ md' = [md EXCEPT ![m] = o]
        /\ UNCHANGED <<osc, secret, kubelet, mdView, pc, cur>>
    BY DEF WriteMD, views, Locals
  <1>2. CASE n # m
    <2>1. Same(n)
      BY <1>1, <1>2 DEF Same, TypeInv, ObjectsOK
    <2> QED BY <2>1, GuardFrame
  <1>3. CASE n = m
    <2>1. md'[n] = o
      BY <1>1, <1>3 DEF TypeInv, ObjectsOK
    <2>2. md[n].rv \in Nat /\ mdView[n].rv \in Nat /\ cur[n].rv \in Nat
      BY DEF TypeInv, ObjectsOK, ViewsOK, WorkersOK, MDObj
    <2>3. mdView[n].rv <= md[n].rv /\ (pc[n] \in Busy => cur[n].rv <= md[n].rv)
      BY DEF GuardAt, Versions
    <2>4. mdView'[n].rv <= md'[n].rv /\ mdView'[n].rv # md'[n].rv
      BY <1>1, <1>3, <2>1, <2>2, <2>3
    <2>5. pc'[n] \in Busy => cur'[n].rv <= md'[n].rv /\ cur'[n].rv # md'[n].rv
      BY <1>1, <1>3, <2>1, <2>2, <2>3
    <2>6. Versions(n)'
      BY <2>4, <2>5 DEF Versions
    <2>7. Guarded(n) => Guarded(n)'
      BY <1>3, <2>1 DEF Guarded
    <2>8. Trusted(n)'
      BY <1>1, <2>7 DEF GuardAt, Trusted, Live, FromRead
    <2>9. Progress(n)' /\ Owned(n)'
      BY <1>1, <2>7 DEF GuardAt, Progress, Owned, Empty
    <2> QED BY <2>6, <2>8, <2>9 DEF GuardAt
  <1> QED BY <1>2, <1>3

\* Failures, informers, users and other controllers keep GuardAt.
LEMMA GuardEnvironment ==
  ASSUME TypeInv, NEW n \in MD, GuardAt(n),
         (\E m \in MD : Fail(m)) \/ Restart \/ Informer \/ OtherControllers \/ User
  PROVE  GuardAt(n)'
  <1>1. ASSUME NEW m \in MD, Fail(m) PROVE GuardAt(n)'
    <2>1. CASE n = m
      BY <1>1, <2>1, GuardReturn DEF Fail, Error, api, views
    <2>2. CASE n # m
      <3>1. Same(n)
        BY <1>1, <2>2 DEF Fail, Error, Return, Goto, Same, api, views, TypeInv, WorkersOK
      <3> QED BY <3>1, GuardFrame
    <2> QED BY <2>1, <2>2
  <1>2. CASE Restart
    <2>1. /\ pc'[n] = "idle" /\ UNCHANGED <<md, osc, secret, kubelet>>
          /\ mdView'[n] = IF "md" \in CachedReads THEN md[n] ELSE mdView[n]
      BY <1>2 DEF Restart, api
    <2>2. pc'[n] \notin Busy /\ md[n].rv \in Nat
      BY <2>1 DEF Busy, Cleaning, Building, TypeInv, ObjectsOK, MDObj
    <2>3. Versions(n)'
      BY <2>1, <2>2 DEF GuardAt, Versions
    <2>4. Trusted(n)'
      BY <2>1, <2>2 DEF GuardAt, Trusted, Live, Guarded, FromRead
    <2>5. Progress(n)' /\ Owned(n)'
      BY <2>1 DEF GuardAt, Progress, Owned, Empty, Guarded, Building
    <2> QED BY <2>3, <2>4, <2>5 DEF GuardAt
  <1>3. CASE Informer
    <2>1. ASSUME NEW m \in MD, SyncMD(m), n = m PROVE GuardAt(n)'
      <3>1. /\ mdView'[n] = md[n] /\ "md" \in CachedReads
            /\ UNCHANGED <<md, osc, secret, kubelet, pc, cur>>
        BY <2>1 DEF SyncMD, api, Locals, TypeInv, ViewsOK
      <3>2. md[n].rv \in Nat
        BY DEF TypeInv, ObjectsOK, MDObj
      <3>3. Versions(n)'
        BY <3>1, <3>2 DEF GuardAt, Versions
      <3>4. Trusted(n)'
        BY <3>1 DEF GuardAt, Versions, Trusted, Live, Guarded, FromRead
      <3>5. Progress(n)' /\ Owned(n)'
        BY <3>1 DEF GuardAt, Progress, Owned, Empty, Guarded
      <3> QED BY <3>3, <3>4, <3>5 DEF GuardAt
    <2>2. ASSUME NEW m \in MD, SyncMD(m), n # m PROVE Same(n)
      BY <2>2 DEF SyncMD, Same, api, Locals, TypeInv, ViewsOK
    <2>3. ASSUME NEW m \in MD, SyncOSC(m) \/ SyncSecrets(m) \/ Resync(m) PROVE Same(n)
      BY <2>3 DEF SyncOSC, SyncSecrets, Resync, Same, api, views, worker, Locals
    <2>4. ASSUME NEW p \in OSP, SyncOSP(p) PROVE Same(n)
      BY <2>4 DEF SyncOSP, Same, api, worker
    <2> QED BY <1>3, <2>1, <2>2, <2>3, <2>4, GuardFrame DEF Informer
  <1>4. ASSUME NEW m \in MD, BumpRevision(m) PROVE GuardAt(n)'
    <2> DEFINE o == [md[m] EXCEPT !.rev = @ + 1, !.synced = TRUE, !.rv = @ + 1]
    <2>1. WriteMD(m, o) /\ o.rv = md[m].rv + 1 /\ (Guarded(m) => o.exists /\ o.fin)
      BY <1>4 DEF BumpRevision, Guarded, TypeInv, ObjectsOK, MDObj
    <2> QED BY <2>1, GuardWrite
  <1>5. ASSUME NEW m \in MD, ~Guarded(m), WriteMD(m, NoMD(md[m].rv + 1)) PROVE GuardAt(n)'
    <2>1. NoMD(md[m].rv + 1).rv = md[m].rv + 1
      BY DEF NoMD
    <2> QED BY <1>5, <2>1, GuardWrite
  <1>6. CASE OtherControllers
    BY <1>4, <1>5, <1>6 DEF OtherControllers, OtherFinalizersDone, Guarded
  <1>7. CASE User
    <2>1. ASSUME NEW m \in MD, EditTemplate(m) PROVE GuardAt(n)'
      <3> DEFINE o == [md[m] EXCEPT !.tmpl = md[m].rv + 1, !.synced = FALSE, !.rv = @ + 1]
      <3>1. WriteMD(m, o) /\ o.rv = md[m].rv + 1 /\ (Guarded(m) => o.exists /\ o.fin)
        BY <2>1 DEF EditTemplate, Guarded, TypeInv, ObjectsOK, MDObj
      <3> QED BY <3>1, GuardWrite
    <2>2. ASSUME NEW m \in MD, UserDelete(m) PROVE GuardAt(n)'
      <3> DEFINE o == [md[m] EXCEPT !.deleting = TRUE, !.rv = @ + 1]
      <3>1. o.rv = md[m].rv + 1 /\ (Guarded(m) => o.exists /\ o.fin)
        BY DEF Guarded, TypeInv, ObjectsOK, MDObj
      <3>2. CASE WriteMD(m, o)
        BY <3>1, <3>2, GuardWrite
      <3> QED BY <2>2, <1>5, <3>2 DEF UserDelete, Guarded
    <2>3. ASSUME NEW m \in MD, NEW p \in OSP, SwitchOSP(m, p) PROVE GuardAt(n)'
      <3> DEFINE o == [md[m] EXCEPT !.osp = p, !.rv = @ + 1]
      <3>1. WriteMD(m, o) /\ o.rv = md[m].rv + 1 /\ (Guarded(m) => o.exists /\ o.fin)
        BY <2>3 DEF SwitchOSP, Guarded, TypeInv, ObjectsOK, MDObj
      <3> QED BY <3>1, GuardWrite
    <2>4. ASSUME NEW m \in MD, NEW p \in OSP, NEW e \in EdgeProvider, UserCreate(m, p, e)
          PROVE  GuardAt(n)'
      <3> DEFINE o == [exists |-> TRUE, deleting |-> FALSE, fin |-> FALSE, synced |-> FALSE,
                       edge |-> e, tmpl |-> md[m].rv + 1, rev |-> 0, osp |-> p,
                       rv |-> md[m].rv + 1]
      <3>1. WriteMD(m, o) /\ o.rv = md[m].rv + 1 /\ ~Guarded(m)
        BY <2>4 DEF UserCreate, Guarded
      <3> QED BY <3>1, GuardWrite
    <2>5. ASSUME NEW p \in OSP, PublishOSP(p) PROVE Same(n)
      BY <2>5 DEF PublishOSP, Same, views, worker
    <2> QED BY <1>7, <2>1, <2>2, <2>3, <2>4, <2>5, GuardFrame DEF User
  <1> QED BY <1>1, <1>2, <1>3, <1>6, <1>7

\* Every step keeps the strengthened invariant.
LEMMA GuardNext == TypeInv /\ GuardInv /\ [Next]_vars => GuardInv'
  <1> SUFFICES ASSUME TypeInv, GuardInv, [Next]_vars, NEW n \in MD PROVE GuardAt(n)'
    BY DEF GuardInv
  <1>1. GuardAt(n)
    BY DEF GuardInv
  <1>2. ASSUME NEW m \in MD, Step(m) PROVE GuardAt(n)'
    <2>1. CASE n = m
      BY <1>1, <1>2, <2>1, GuardOwnStep
    <2>2. CASE n # m
      BY <1>1, <1>2, <2>2, StepFrame, GuardFrame
    <2> QED BY <2>1, <2>2
  <1>3. CASE UNCHANGED vars
    <2>1. Same(n)
      BY <1>3 DEF vars, api, views, worker, Same
    <2> QED BY <1>1, <2>1, GuardFrame
  <1> QED BY <1>1, <1>2, <1>3, GuardEnvironment DEF Next

\* No OSC, secret or kubeconfig outlives the finalizer of its MachineDeployment,
\* whatever the caches show, whoever writes in between and wherever Reconcile fails:
\* MachineDeploymentCleanupFinalizer does what it is for.
THEOREM ProtectedAlways == Spec => []Protected
  <1>1. Init => TypeInv /\ GuardInv
    BY TypeInit, GuardInit
  <1>2. TypeInv /\ GuardInv /\ [Next]_vars => (TypeInv /\ GuardInv)'
    BY TypeNext, GuardNext
  <1>3. GuardInv => Protected
    <2> SUFFICES ASSUME GuardInv, NEW m \in MD, Present(m) # {} PROVE Guarded(m)
      BY DEF Protected, Guarded
    <2>1. ~Empty(m)
      BY DEF Present, Empty, Resources, SecretKinds
    <2> QED BY <2>1 DEF GuardInv, GuardAt, Owned
  <1> QED BY <1>1, <1>2, <1>3, PTL DEF Spec
=============================================================================
