---------------------------- MODULE ManagerProofs ----------------------------
(* Theorems about OSPController and OperatingSystemManager, for every set of *)
(* names, releases and contents.                                             *)
EXTENDS OperatingSystemManager, TLAPS

-----------------------------------------------------------------------------
(* The OSPs: what a step may do to one.                                     *)

ProfileType ==
  /\ release \in Releases
  /\ osp \in [Names -> OSPObj \cup {None}] /\ view \in [Names -> OSPObj \cup {None}]

\* The content of an OSP changes only together with its version.
Versioned(n) ==
  osp[n] # None /\ osp'[n] # None /\ osp'[n].version = osp[n].version => osp'[n] = osp[n]

\* What a write of one OSP must respect for the step to be Versioned for all of them.
LEMMA WriteVersioned ==
  ASSUME ProfileType, NEW m \in Names, NEW o \in OSPObj \cup {None}, Write(m, o),
         osp[m] = None \/ o = None \/ o = osp[m] \/ o.version # osp[m].version
  PROVE  /\ osp' \in [Names -> OSPObj \cup {None}]
         /\ \A n \in Names : Versioned(n)
<1>1. osp' = [osp EXCEPT ![m] = o]
  BY DEF Write
<1>2. osp' \in [Names -> OSPObj \cup {None}] /\ osp'[m] = o
  BY <1>1 DEF ProfileType
<1>3. \A n \in Names : n # m => osp'[n] = osp[n]
  BY <1>1 DEF ProfileType
<1>. QED  BY <1>2, <1>3 DEF Versioned

\* Every step of the OSP controller, of users, of operators and of the cache keeps the types
\* and changes no OSP under its version.
LEMMA ProfileStepVersioned ==
  ASSUME ProfileType, [Next]_vars
  PROVE  ProfileType' /\ \A n \in Names : Versioned(n)
<1>s. source \in OSPObj
  BY OSPAssumption DEF source, Profile, OSPObj, ProfileType
<1>u. ASSUME osp' = osp PROVE \A n \in Names : Versioned(n)
  BY <1>u DEF Versioned
<1>1. ASSUME NEW n \in Names, NEW v \in Releases, NEW b \in UserBodies,
             UserCreate(n, Profile(v, b)) \/ UserUpdate(n, Profile(v, b))
      PROVE  ProfileType' /\ \A k \in Names : Versioned(k)
  <2>1. Profile(v, b) \in OSPObj
    BY OSPAssumption DEF Profile, OSPObj
  <2>2. Write(n, Profile(v, b)) /\ release' = release /\ view' = view
    BY <1>1 DEF UserCreate, UserUpdate, UserWrites
  <2>3. osp[n] = None \/ Profile(v, b) = osp[n] \/ Profile(v, b).version # osp[n].version
    BY <1>1 DEF UserCreate, UserUpdate, validateUpdate
  <2>. QED  BY <2>1, <2>2, <2>3, WriteVersioned DEF ProfileType
<1>2. ASSUME NEW n \in Names, UserDelete(n)
      PROVE  ProfileType' /\ \A k \in Names : Versioned(k)
  BY <1>2, WriteVersioned DEF UserDelete, UserWrites, ProfileType
<1>3. ASSUME NEW r \in Releases, Deploy(r)
      PROVE  ProfileType' /\ \A k \in Names : Versioned(k)
  BY <1>3, <1>u DEF Deploy, ProfileType
<1>4. ASSUME NEW n \in Names, reconcileOSP(n)
      PROVE  ProfileType' /\ \A k \in Names : Versioned(k)
  BY <1>4, <1>u DEF reconcileOSP, ProfileType
<1>5. ASSUME NEW n \in Names, CreateDefault(n)
      PROVE  ProfileType' /\ \A k \in Names : Versioned(k)
  <2>1. release' = release /\ view' = view
    BY <1>5 DEF CreateDefault
  <2>2. CASE osp' = osp
    BY <2>1, <2>2, <1>u DEF ProfileType
  <2>3. CASE osp[n] = None /\ Write(n, source)
    BY <1>s, <2>1, <2>3, WriteVersioned DEF ProfileType
  <2>. QED  BY <1>5, <2>2, <2>3 DEF CreateDefault
<1>6. ASSUME NEW n \in Names, UpdateDefault(n)
      PROVE  ProfileType' /\ \A k \in Names : Versioned(k)
  <2>1. release' = release /\ view' = view
    BY <1>6 DEF UpdateDefault
  <2>2. CASE osp' = osp
    BY <2>1, <2>2, <1>u DEF ProfileType
  <2>3. CASE validateUpdate(source, osp[n]) /\ Write(n, source)
    BY <1>s, <2>1, <2>3, WriteVersioned DEF ProfileType, validateUpdate
  <2>. QED  BY <1>6, <2>2, <2>3 DEF UpdateDefault
<1>7. ASSUME NEW n \in Names, Fail(n)
      PROVE  ProfileType' /\ \A k \in Names : Versioned(k)
  BY <1>7, <1>u DEF Fail, ProfileType
<1>8. ASSUME NEW n \in Names, SyncOSP(n)
      PROVE  ProfileType' /\ \A k \in Names : Versioned(k)
  BY <1>8, <1>u DEF SyncOSP, ProfileType
<1>9. CASE UNCHANGED vars
  BY <1>9, <1>u DEF vars, ProfileType
<1>. QED
  BY <1>1, <1>2, <1>3, <1>4, <1>5, <1>6, <1>7, <1>8, <1>9 DEF Next, User, Step

\* The cache shows, after a step, what it showed before or what the OSP is.
LEMMA ViewMoves ==
  ASSUME ProfileType, [Next]_vars, NEW n \in Names
  PROVE  view'[n] \in {view[n], osp[n]}
<1>1. CASE view' = view
  BY <1>1
<1>2. ASSUME NEW m \in Names, SyncOSP(m) PROVE view'[n] \in {view[n], osp[n]}
  BY <1>2 DEF SyncOSP, ProfileType
<1>3. ASSUME NEW r \in Releases, Deploy(r) PROVE view'[n] \in {view[n], osp[n]}
  BY <1>3 DEF Deploy
<1>. QED
  BY <1>1, <1>2, <1>3 DEF Next, User, Step, UserCreate, UserUpdate, UserDelete, UserWrites,
     reconcileOSP, CreateDefault, UpdateDefault, Fail, vars

-----------------------------------------------------------------------------
(* VersionsSuffice.  What the cache shows, what a worker has read and what an *)
(* OSC was made of is the OSP as it is or as it was: the history of retired   *)
(* contents has every content that the OSP had under another version or       *)
(* before a deletion, and by Versioned there is no other.                     *)

ManagerType ==
  /\ ProfileType
  /\ osc \in [Names -> OSPObj \cup {None}] /\ read \in [Names -> OSPObj \cup {None}]
  /\ retired \in [Names -> SUBSET OSPObj]

OfThePast(n, o) == o = None \/ o = osp[n] \/ o \in retired[n]

Known == \A n \in Names : /\ OfThePast(n, view[n])
                          /\ OfThePast(n, read[n])
                          /\ OfThePast(n, osc[n])

ManagerInv == ManagerType /\ Known

\* A step of OSPController keeps every past content, and that which it replaces.
LEMMA PastKept ==
  ASSUME ManagerType, ProfileStep, NEW n \in Names, NEW o, OfThePast(n, o)
  PROVE  OfThePast(n, o)'
<1>1. Versioned(n)
  BY ProfileStepVersioned DEF ManagerType, ProfileStep
<1>2. retired'[n] = IF osp[n] # None /\ (osp'[n] = None \/ osp'[n].version # osp[n].version)
                      THEN retired[n] \cup {osp[n]} ELSE retired[n]
  BY DEF ProfileStep
<1>. QED  BY <1>1, <1>2 DEF Versioned, OfThePast

\* Both controllers, users, operators and the cache keep the invariant.
LEMMA ManagerInvStep == ManagerInv /\ [ManagerNext]_managerVars => ManagerInv'
<1>. SUFFICES ASSUME ManagerInv, [ManagerNext]_managerVars PROVE ManagerInv'
  OBVIOUS
<1>. USE DEF ManagerInv
<1>u. ASSUME UNCHANGED <<release, osp, view, retired>> PROVE ProfileType'
  BY <1>u DEF ManagerType, ProfileType
<1>1. CASE ProfileStep
  <2>1. ProfileType' /\ osc' = osc
    BY <1>1, ProfileStepVersioned DEF ProfileStep, ManagerType
  <2>2. \A n \in Names : read'[n] \in {read[n], None} /\ view'[n] \in {view[n], osp[n]}
    BY <1>1, ViewMoves DEF ProfileStep, ManagerType
  <2>3. read' \in [Names -> OSPObj \cup {None}]
    BY <1>1 DEF ProfileStep, ManagerType
  <2>4. retired' \in [Names -> SUBSET OSPObj]
    BY <1>1 DEF ProfileStep, ManagerType, ProfileType
  <2>5. ASSUME NEW n \in Names
        PROVE  OfThePast(n, view[n])' /\ OfThePast(n, read[n])' /\ OfThePast(n, osc[n])'
    <3>1. \A o : OfThePast(n, o) => OfThePast(n, o)'
      BY <1>1, PastKept
    <3>2. OfThePast(n, osp[n]) /\ OfThePast(n, None)
      BY DEF OfThePast
    <3>. QED  BY <2>1, <2>2, <3>1, <3>2 DEF Known, OfThePast
  <2>. QED  BY <2>1, <2>3, <2>4, <2>5 DEF ManagerType, Known
<1>2. ASSUME NEW n \in Names, fetchOSP(n) PROVE ManagerInv'
  BY <1>2, <1>u DEF fetchOSP, vars, ManagerType, ProfileType, Known, OfThePast
<1>3. ASSUME NEW n \in Names, handleOSCAndSecretsRotation(n) PROVE ManagerInv'
  BY <1>3, <1>u DEF handleOSCAndSecretsRotation, vars, ManagerType, Known, OfThePast
<1>4. ASSUME NEW n \in Names, reconcileOperatingSystemConfigs(n) PROVE ManagerInv'
  BY <1>4, <1>u DEF reconcileOperatingSystemConfigs, Done, vars, ManagerType, Known, OfThePast
<1>5. ASSUME NEW n \in Names, ReconcileFails(n) PROVE ManagerInv'
  BY <1>5, <1>u DEF ReconcileFails, Done, ManagerType, Known, OfThePast
<1>6. CASE UNCHANGED managerVars
  BY <1>6, <1>u DEF managerVars, vars, consumers, ManagerType, Known, OfThePast
<1>. QED  BY <1>1, <1>2, <1>3, <1>4, <1>5, <1>6 DEF ManagerNext, Reconcile

\* The invariant holds in every reachable state of the manager.
LEMMA ManagerInvariant == ManagerSpec => []ManagerInv
<1>1. ManagerInit => ManagerInv
  BY DEF ManagerInit, Init, ManagerInv, ManagerType, ProfileType, Known, OfThePast
<1>. QED  BY <1>1, ManagerInvStep, PTL DEF ManagerSpec

\* For any OSPs, releases and edits: an OSC with the version of its OSP has its content,
\* unless that version was reissued, so Reconcile may compare versions only.
THEOREM VersionsSufficeAlways == ManagerSpec => []VersionsSuffice
<1>1. ManagerInv => VersionsSuffice
  BY DEF ManagerInv, Known, OfThePast, VersionsSuffice, Reissued
<1>. QED  BY <1>1, ManagerInvariant, PTL

\* OSPs are immutable under their version, whoever writes them and however old what it
\* read is: users, the OSP controller, before and after a roll-out.
THEOREM NoChangeUnderVersionAlways == ManagerSpec => NoChangeUnderVersion
<1>1. ASSUME ManagerInv, [ManagerNext]_managerVars
      PROVE  \A n \in Names : Versioned(n)
  <2>1. CASE ProfileStep
    BY <1>1, <2>1, ProfileStepVersioned DEF ProfileStep, ManagerInv, ManagerType
  <2>2. CASE osp' = osp
    BY <2>2 DEF Versioned
  <2>. QED
    BY <1>1, <2>1, <2>2 DEF ManagerNext, Reconcile, fetchOSP, handleOSCAndSecretsRotation,
       reconcileOperatingSystemConfigs, ReconcileFails, managerVars, vars
<1>2. ManagerInv /\ [ManagerNext]_managerVars
        => [\A n \in Names : osp[n] # None /\ osp'[n] # None /\ osp'[n].version = osp[n].version
                             => osp'[n] = osp[n]]_vars
  BY <1>1 DEF Versioned
<1>. QED  BY <1>2, ManagerInvariant, PTL DEF ManagerSpec, NoChangeUnderVersion
=============================================================================
