--------------------------- MODULE GenerationProofs ---------------------------
(* Theorems about Generation, for every set of templates, annotations and    *)
(* profiles.                                                                 *)
EXTENDS Generation, FiniteSetTheorems, TLAPS

-----------------------------------------------------------------------------
(* Keys.  Of the texts in a list of keys, deduplicateSSHKeys returns each    *)
(* that is not empty, once.                                                  *)

\* Every set of natural numbers that is not empty has a least one.
LEMMA LeastNatural ==
  ASSUME NEW S \in SUBSET Nat, S # {}
  PROVE  \E i \in S : \A j \in S : i <= j
<1>1. PICK i \in S : \A j \in S : <<j, i>> \notin OpToRel(<, Nat)
  BY NatLessThanWellFounded, WFMin, Zenon
<1>2. \A j \in S : ~(j < i)
  BY <1>1 DEF OpToRel
<1>. QED  BY <1>2

\* The rank of a position among finitely many is a number from 1 to how many there are.
LEMMA RankType ==
  ASSUME NEW S \in SUBSET Nat, IsFiniteSet(S), NEW i \in S
  PROVE  Rank(S, i) \in 1..Cardinality(S)
<1>. DEFINE T == {j \in S : j <= i}
<1>1. IsFiniteSet(T) /\ Cardinality(T) <= Cardinality(S)
  BY FS_Subset
<1>2. Cardinality(T) \in Nat /\ Cardinality(S) \in Nat
  BY <1>1, FS_CardinalityType
<1>3. T # {}
  <2>1. i \in T
    OBVIOUS
  <2>. QED  BY <2>1
<1>4. Cardinality(T) # 0
  BY <1>1, <1>3, FS_EmptySet
<1>. QED  BY <1>1, <1>2, <1>4 DEF Rank

\* A later position has a higher rank.
LEMMA RankMonotone ==
  ASSUME NEW S \in SUBSET Nat, IsFiniteSet(S), NEW i \in S, NEW k \in S, i < k
  PROVE  Rank(S, i) < Rank(S, k)
<1>. DEFINE T == {j \in S : j <= i}
            U == {j \in S : j <= k}
<1>1. IsFiniteSet(U) /\ IsFiniteSet(T)
  BY FS_Subset
<1>2. T \in SUBSET U /\ k \in U /\ k \notin T
  <2>1. i \in Nat /\ k \in Nat /\ \A j \in S : j \in Nat
    OBVIOUS
  <2>2. \A j \in T : j \in U
    BY <2>1
  <2>3. k \in U /\ k \notin T
    BY <2>1
  <2>. QED  BY <2>2, <2>3
<1>3. Cardinality(T) <= Cardinality(U) /\ Cardinality(T) # Cardinality(U)
  BY <1>1, <1>2, FS_Subset
<1>4. Cardinality(T) \in Nat /\ Cardinality(U) \in Nat
  BY <1>1, FS_CardinalityType
<1>. QED  BY <1>3, <1>4 DEF Rank

\* Every number from 1 to how many positions there are is the rank of exactly one.
LEMMA RankBijective ==
  ASSUME NEW S \in SUBSET Nat, IsFiniteSet(S)
  PROVE  /\ \A i, k \in S : Rank(S, i) = Rank(S, k) => i = k
         /\ \A n \in 1..Cardinality(S) : \E i \in S : Rank(S, i) = n
<1>. DEFINE c == Cardinality(S)
            f == [i \in S |-> Rank(S, i)]
<1>1. \A i \in S : Rank(S, i) \in 1..c
  BY RankType
<1>2. \A i, k \in S : Rank(S, i) = Rank(S, k) => i = k
  <2>. SUFFICES ASSUME NEW i \in S, NEW k \in S, i # k PROVE Rank(S, i) # Rank(S, k)
    OBVIOUS
  <2>0. Rank(S, i) \in Int /\ Rank(S, k) \in Int
    BY <1>1
  <2>1. CASE i < k
    BY <2>0, <2>1, RankMonotone
  <2>2. CASE k < i
    BY <2>0, <2>2, RankMonotone
  <2>. QED  BY <2>1, <2>2
<1>3. f \in Injection(S, 1..c)
  BY <1>1, <1>2 DEF Injection, IsInjective
<1>4. c \in Nat
  BY FS_CardinalityType
<1>5. IsFiniteSet(1..c) /\ Cardinality(1..c) = c
  BY <1>4, FS_Interval
<1>6. f \in Surjection(S, 1..c)
  BY <1>3, <1>5, FS_Injection
<1>7. \A n \in 1..c : \E i \in S : f[i] = n
  BY <1>6 DEF Surjection
<1>. QED  BY <1>2, <1>7

\* deduplicateSSHKeys returns the texts of the keys that are not empty, each once.
LEMMA Deduplicated ==
  ASSUME NEW keys \in Seq(SSHKey)
  PROVE  /\ ToSet(deduplicateSSHKeys(keys)) = KeyTexts(keys)
         /\ IsInjective(deduplicateSSHKeys(keys))
<1>. DEFINE first == FirstSeen(keys)
            c == Cardinality(first)
            at(n) == CHOOSE i \in first : Rank(first, i) = n
            d == deduplicateSSHKeys(keys)
<1>0. Len(keys) \in Nat /\ DOMAIN keys = 1..Len(keys)
  OBVIOUS
<1>1. first \in SUBSET (1..Len(keys)) /\ first \in SUBSET Nat
  <2>1. \A i \in first : i \in DOMAIN keys
    BY DEF FirstSeen
  <2>2. \A i \in first : i \in 1..Len(keys)
    BY <1>0, <2>1
  <2>. QED  BY <1>0, <2>2
<1>2. IsFiniteSet(first)
  <2>1. IsFiniteSet(1..Len(keys))
    BY <1>0, FS_Interval
  <2>. QED  BY <1>1, <2>1, FS_Subset
<1>3. d = [n \in 1..c |-> keys[at(n)].text]
  BY DEF deduplicateSSHKeys
<1>4. \A n \in 1..c : at(n) \in first /\ Rank(first, at(n)) = n
  BY <1>1, <1>2, RankBijective
<1>5. \A i \in first : Rank(first, i) \in 1..c /\ at(Rank(first, i)) = i
  <2>. SUFFICES ASSUME NEW i \in first
                PROVE  Rank(first, i) \in 1..c /\ at(Rank(first, i)) = i
    OBVIOUS
  <2>1. Rank(first, i) \in 1..c
    BY <1>1, <1>2, RankType
  <2>2. at(Rank(first, i)) \in first /\ Rank(first, at(Rank(first, i))) = Rank(first, i)
    BY <1>4, <2>1
  <2>. QED  BY <1>1, <1>2, <2>1, <2>2, RankBijective
<1>6. \A i, k \in first : keys[i].text = keys[k].text => i = k
  <2>. SUFFICES ASSUME NEW i \in first, NEW k \in first, keys[i].text = keys[k].text, i < k
                PROVE  FALSE
    BY <1>1
  <2>1. i \in 1..(k - 1)
    BY <1>0, <1>1
  <2>2. \A j \in 1..(k - 1) : keys[j].text # keys[k].text
    BY DEF FirstSeen
  <2>. QED  BY <2>1, <2>2
<1>7. IsInjective(d)
  BY <1>3, <1>4, <1>6 DEF IsInjective
<1>8. \A n \in 1..c : keys[at(n)].text \in KeyTexts(keys)
  BY <1>4 DEF FirstSeen, KeyTexts
<1>9. ASSUME NEW x \in KeyTexts(keys) PROVE \E i \in first : keys[i].text = x
  <2>. DEFINE T == {i \in 1..Len(keys) : keys[i].text = x}
  <2>0. x # "" /\ \E i \in DOMAIN keys : keys[i].text = x
    BY DEF KeyTexts
  <2>1. T \in SUBSET Nat /\ T # {} /\ x # ""
    <3>1. PICK i \in 1..Len(keys) : keys[i].text = x
      BY <1>0, <2>0
    <3>2. i \in T
      BY <3>1
    <3>3. \A j \in T : j \in Nat
      BY <1>0
    <3>. QED  BY <2>0, <3>2, <3>3
  <2>2. PICK i \in T : \A j \in T : i <= j
    BY <2>1, LeastNatural
  <2>3. \A j \in 1..(i - 1) : keys[j].text # keys[i].text
    BY <1>0, <2>2
  <2>. QED  BY <1>0, <2>1, <2>2, <2>3 DEF FirstSeen
<1>10. \A x \in KeyTexts(keys) : \E n \in 1..c : d[n] = x
  <2>. SUFFICES ASSUME NEW x \in KeyTexts(keys) PROVE \E n \in 1..c : d[n] = x
    OBVIOUS
  <2>1. PICK i \in first : keys[i].text = x
    BY <1>9
  <2>2. Rank(first, i) \in 1..c /\ keys[at(Rank(first, i))].text = x
    BY <1>5, <2>1
  <2>. HIDE DEF at, c, d, first
  <2>. QED  BY <1>3, <2>2
<1>11. DOMAIN d = 1..c /\ \A n \in 1..c : d[n] \in KeyTexts(keys)
  BY <1>3, <1>8
<1>12. ToSet(d) = KeyTexts(keys)
  BY <1>10, <1>11 DEF ToSet
<1>. QED  BY <1>7, <1>12

-----------------------------------------------------------------------------
(* The invariant.                                                           *)

Types ==
  /\ pc \in {"idle", "rotateOSC", "osc", "readOSC"} \cup Deleting \cup SecretKinds
  /\ DOMAIN secret = SecretKinds /\ doubt \in BOOLEAN
  /\ md \in MDObj \cup {None}
  /\ pc # "idle" => /\ cur \in MDObj /\ md \in MDObj /\ cur.osp \in DOMAIN Profiles
                    /\ validateMachineDeployment(cur.tmpl, Profiles[cur.osp])
  /\ pc \in SecretKinds => src \in OSCSpec
  /\ pc = "deleteBootstrap" => secret["provisioning"] = None
  /\ osc # None => osc \in OSCObj /\ md \in MDObj
  /\ oscView # None => oscView \in OSCObj

\* The checks that precede the creation of an OSC leave it fit for the template.
Matches(o, t) == o.os = t.os /\ GetProvisioningUtility(o.os, t) = o.utility

\* A revision has one template, once the machine-controller has counted it: what was read
\* at the present revision has the present template, and the OSC stamped with it was
\* made of that.
OneTemplate ==
  /\ pc # "idle" => /\ cur.rev <= md.rev
                    /\ cur.rev = md.rev /\ md.synced => cur.tmpl = md.tmpl
  /\ osc # None /\ osc.stamp # <<>> =>
       /\ osc.stamp[1] <= md.rev
       /\ osc.stamp[1] = md.rev /\ md.synced => Matches(osc.spec, md.tmpl)

\* A secret was rendered from an OSC, in the format of the OSC.
RenderedFrom(k, o) == \E t \in Templates : secret[k] = UserData(o, t, k, o.utility)
BothFrom(o)        == \A k \in SecretKinds : secret[k] # None => RenderedFrom(k, o)
Each               == \A k \in SecretKinds : secret[k] # None => \E o \in OSCSpec : RenderedFrom(k, o)

\* Without doubt, both secrets were rendered from the OSC there is, during a rotation's
\* Deletes from the one there was, and the worker renders from the OSC there is.
Together ==
  ~doubt =>
    /\ pc \notin Deleting /\ secret # NoSecrets => osc # None /\ BothFrom(osc.spec)
    /\ pc \in Deleting => \E o \in OSCSpec : BothFrom(o)
    /\ pc \in SecretKinds => osc # None /\ src = osc.spec

Inv == Types /\ OneTemplate /\ Each /\ Together

-----------------------------------------------------------------------------
(* The steps.                                                               *)

\* The webhook stores a name that a user gave or that it knows.
LEMMA MutatedName ==
  ASSUME NEW t \in Templates, NEW a \in Annotations, MutateMachineDeployment(t, a.osp) # None
  PROVE  MutateMachineDeployment(t, a.osp) \in OSPNames
<1>1. a.osp \in DOMAIN Profiles \cup {None}
  BY GenerationAssumption DEF Annotation
<1>2. CASE a.osp # None
  BY <1>1, <1>2 DEF MutateMachineDeployment, OSPNames
<1>3. CASE a.osp = None
  BY <1>3 DEF MutateMachineDeployment, OSPNames
<1>. QED  BY <1>2, <1>3

\* The generated OSC is an object, has the utility of its profile and matches the template
\* it was made for.
LEMMA GeneratedOSC ==
  ASSUME NEW o \in MDObj, o.osp \in DOMAIN Profiles, CanGenerate(o),
         validateMachineDeployment(o.tmpl, Profiles[o.osp])
  PROVE  LET new == [stamp |-> Stamp(o),
                     spec  |-> GenerateOperatingSystemConfig(o.tmpl, Profiles[o.osp])]
         IN  /\ new \in OSCObj /\ new # None /\ new.stamp = Stamp(o) /\ new.stamp # <<>>
             /\ new.stamp[1] = o.rev /\ Matches(new.spec, o.tmpl)
<1>. DEFINE spec == GenerateOperatingSystemConfig(o.tmpl, Profiles[o.osp])
<1>1. o.tmpl \in Templates /\ o.rev \in Nat /\ o.kubelet \in BOOLEAN /\ o.osp \in OSPNames
  BY DEF MDObj
<1>2. spec \in OSCSpec
  BY <1>1 DEF OSCSpec
<1>3. Stamp(o) \in Nat \X OSPNames \X BOOLEAN /\ Stamp(o) # <<>> /\ Stamp(o)[1] = o.rev
  BY <1>1 DEF Stamp
<1>4. spec.os = Profiles[o.osp].os /\ spec.utility = Profiles[o.osp].utility
  BY DEF GenerateOperatingSystemConfig
<1>5. Matches(spec, o.tmpl)
  BY <1>4 DEF CanGenerate, Matches, validateMachineDeployment
<1>. HIDE DEF spec
<1>6. [stamp |-> Stamp(o), spec |-> spec] \in OSCObj
  BY <1>2, <1>3 DEF OSCObj
<1>. QED  BY <1>3, <1>5, <1>6, NoneAssumption DEF spec

\* A step that changes neither the objects nor the worker; the cache may follow the OSC.
LEMMA Unmoved ==
  ASSUME Inv, UNCHANGED <<md, osc, secret, pc, cur, src, doubt>>, oscView' \in {oscView, osc}
  PROVE  Inv'
<1>1. Types'
  BY DEF Inv, Types
<1>2. OneTemplate'
  BY DEF Inv, OneTemplate
<1>3. Each' /\ Together'
  BY DEF Inv, Each, Together, BothFrom, RenderedFrom
<1>. QED  BY <1>1, <1>2, <1>3 DEF Inv

\* The worker moves on, to no Delete of a secret, and changes no object.
LEMMA WorkerMoves ==
  ASSUME Inv, UNCHANGED <<md, osc, oscView, secret>>, doubt' \in BOOLEAN,
         pc' \in {"idle", "rotateOSC", "osc", "readOSC"} \cup SecretKinds,
         pc' # "idle" => pc # "idle" /\ cur' = cur,
         pc' \in SecretKinds => src' \in OSCSpec,
         ~doubt' => /\ ~doubt /\ (pc \in Deleting => secret = NoSecrets)
                    /\ pc' \in SecretKinds => osc # None /\ src' = osc.spec
  PROVE  Inv'
<1>0. pc' \notin Deleting /\ pc' # "deleteBootstrap"
  BY DEF Deleting, SecretKinds
<1>1. Types'
  BY <1>0 DEF Inv, Types
<1>2. OneTemplate'
  BY DEF Inv, OneTemplate
<1>3. Each'
  BY DEF Inv, Each, RenderedFrom
<1>4. Together'
  <2>. SUFFICES ASSUME ~doubt'
                PROVE  /\ secret # NoSecrets => osc # None /\ BothFrom(osc.spec)
                       /\ pc' \in SecretKinds => osc' # None /\ src' = osc'.spec
    BY <1>0 DEF Together, BothFrom, RenderedFrom, NoSecrets
  <2>1. ~doubt /\ (pc \in Deleting => secret = NoSecrets)
    OBVIOUS
  <2>2. secret # NoSecrets => osc # None /\ BothFrom(osc.spec)
    BY <2>1 DEF Inv, Together
  <2>. QED  BY <2>2
<1>. QED  BY <1>1, <1>2, <1>3, <1>4 DEF Inv

\* Every step of Reconcile, of users and of the machine-controller keeps the invariant.
LEMMA InvStep == Inv /\ [Next]_vars => Inv'
<1>. SUFFICES ASSUME Inv, [Next]_vars PROVE Inv'
  OBVIOUS
<1>0. DOMAIN secret = SecretKinds /\ doubt \in BOOLEAN
  BY DEF Inv, Types
<1>1. CASE StartReconcile
  <2>1. /\ md \in MDObj /\ md' = md /\ cur' = md /\ pc = "idle" /\ pc' \in {"rotateOSC", "osc"}
        /\ md.osp \in DOMAIN Profiles /\ validateMachineDeployment(md.tmpl, Profiles[md.osp])
        /\ UNCHANGED <<osc, oscView, secret, src, doubt>>
    BY <1>1 DEF StartReconcile, Inv, Types
  <2>2. md.rev \in Nat
    BY <2>1 DEF MDObj
  <2>3. {pc, pc'} \cap (Deleting \cup SecretKinds) = {} /\ pc' # "deleteBootstrap"
    BY <2>1 DEF Deleting, SecretKinds
  <2>4. Types'
    BY <2>1, <2>3 DEF Inv, Types
  <2>5. OneTemplate'
    BY <2>1, <2>2 DEF Inv, OneTemplate
  <2>6. Each'
    BY <2>1 DEF Inv, Each, RenderedFrom
  <2>7. Together'
    BY <2>1, <2>3 DEF Inv, Together, BothFrom, RenderedFrom, NoSecrets
  <2>. QED  BY <2>4, <2>5, <2>6, <2>7 DEF Inv
<1>2. CASE RotateOSC
  <2>1. /\ pc = "rotateOSC" /\ UNCHANGED <<md, oscView>> /\ md \in MDObj
        /\ pc \notin Deleting \cup SecretKinds
    BY <1>2 DEF RotateOSC, Inv, Types, Deleting, SecretKinds
  <2>2. CASE Error
    BY <1>0, <2>1, <2>2, WorkerMoves DEF Error, Return, Deleting, SecretKinds
  <2>3. CASE /\ osc # None /\ osc' = None /\ pc' = "deleteProvisioning"
             /\ UNCHANGED <<secret, cur, src, doubt>>
    <3>0. pc' \in Deleting /\ pc' \notin SecretKinds /\ osc.spec \in OSCSpec
      BY <2>3 DEF Deleting, SecretKinds, Inv, Types, OSCObj
    <3>1. Types'
      BY <2>1, <2>3, <3>0 DEF Inv, Types
    <3>2. OneTemplate'
      BY <2>1, <2>3 DEF Inv, OneTemplate
    <3>3. Each'
      BY <2>3 DEF Inv, Each, RenderedFrom
    <3>4. ~doubt => BothFrom(osc.spec)
      BY <2>1 DEF Inv, Together, BothFrom, NoSecrets
    <3>5. \A o \in OSCSpec : BothFrom(o) => BothFrom(o)'
      BY <2>3 DEF BothFrom, RenderedFrom
    <3>6. Together'
      BY <2>3, <3>0, <3>4, <3>5 DEF Together
    <3>. QED  BY <3>1, <3>2, <3>3, <3>6 DEF Inv
  <2>. QED  BY <1>2, <2>2, <2>3 DEF RotateOSC
<1>3. CASE DeleteProvisioning
  <2>1. /\ pc = "deleteProvisioning" /\ pc' = "deleteBootstrap"
        /\ UNCHANGED <<md, osc, oscView, cur, src, doubt>>
        /\ {pc, pc'} \subseteq Deleting /\ pc' \notin SecretKinds
    BY <1>3 DEF DeleteProvisioning, Deleting, SecretKinds
  <2>2. /\ DOMAIN secret' = SecretKinds /\ secret'["provisioning"] = None
        /\ \A k \in SecretKinds : secret'[k] # None => secret'[k] = secret[k]
    BY <1>0, <1>3 DEF DeleteProvisioning, SecretKinds
  <2>3. Types'
    BY <2>1, <2>2 DEF Inv, Types
  <2>4. OneTemplate'
    BY <2>1 DEF Inv, OneTemplate
  <2>5. Each'
    BY <2>2 DEF Inv, Each, RenderedFrom
  <2>6. \A o \in OSCSpec : BothFrom(o) => BothFrom(o)'
    BY <2>2 DEF BothFrom, RenderedFrom
  <2>7. Together'
    BY <2>1, <2>6 DEF Inv, Together
  <2>. QED  BY <2>3, <2>4, <2>5, <2>7 DEF Inv
<1>4. CASE DeleteBootstrap
  <2>1. /\ pc = "deleteBootstrap" /\ pc' = "osc" /\ doubt' = FALSE
        /\ UNCHANGED <<md, osc, oscView, cur, src>> /\ pc' \notin Deleting \cup SecretKinds
    BY <1>4 DEF DeleteBootstrap, Deleting, SecretKinds
  <2>2. DOMAIN secret' = SecretKinds /\ \A k \in SecretKinds : secret'[k] = None
    <3>1. secret["provisioning"] = None
      BY <2>1 DEF Inv, Types
    <3>. QED  BY <1>0, <1>4, <3>1 DEF DeleteBootstrap, SecretKinds
  <2>3. Types'
    BY <2>1, <2>2 DEF Inv, Types
  <2>4. OneTemplate'
    BY <2>1 DEF Inv, OneTemplate
  <2>5. secret' = NoSecrets /\ NoSecrets' = NoSecrets
    <3>1. secret' = [k \in SecretKinds |-> secret'[k]]
      BY <1>0, <1>4 DEF DeleteBootstrap
    <3>. QED  BY <2>2, <3>1 DEF NoSecrets
  <2>6. Each' /\ Together'
    BY <2>1, <2>2, <2>5 DEF Each, Together
  <2>. QED  BY <2>3, <2>4, <2>6 DEF Inv
<1>5. CASE reconcileOperatingSystemConfigs
  <2>1. /\ pc = "osc" /\ UNCHANGED <<md, oscView>> /\ cur \in MDObj /\ md \in MDObj
        /\ cur.osp \in DOMAIN Profiles /\ validateMachineDeployment(cur.tmpl, Profiles[cur.osp])
        /\ pc \notin Deleting
    BY <1>5 DEF reconcileOperatingSystemConfigs, Inv, Types, Deleting
  <2>2. CASE pc' = "readOSC" /\ UNCHANGED <<osc, secret, cur, src, doubt>>
    BY <1>0, <2>1, <2>2, WorkerMoves DEF SecretKinds
  <2>3. CASE Error
    BY <1>0, <2>1, <2>3, WorkerMoves DEF Error, Return, SecretKinds
  <2>4. CASE /\ osc = None /\ CanGenerate(cur) /\ pc' = "readOSC" /\ UNCHANGED <<secret, cur, src, doubt>>
             /\ osc' = [stamp |-> Stamp(cur),
                        spec |-> GenerateOperatingSystemConfig(cur.tmpl, Profiles[cur.osp])]
    <3>0. pc' \notin Deleting \cup SecretKinds
      BY <2>4 DEF Deleting, SecretKinds
    <3>1. /\ osc' \in OSCObj /\ osc' # None /\ osc'.stamp # <<>>
          /\ osc'.stamp[1] = cur.rev /\ Matches(osc'.spec, cur.tmpl)
      BY <2>1, <2>4, GeneratedOSC
    <3>2. Types'
      BY <2>1, <2>4, <3>0, <3>1 DEF Inv, Types
    <3>3. OneTemplate'
      BY <2>1, <2>4, <3>1 DEF Inv, OneTemplate
    <3>4. Each'
      BY <2>4 DEF Inv, Each, RenderedFrom
    <3>5. ~doubt => secret = NoSecrets
      BY <2>1, <2>4 DEF Inv, Together
    <3>6. Together'
      BY <2>4, <3>0, <3>5 DEF Together, NoSecrets
    <3>. QED  BY <3>2, <3>3, <3>4, <3>6 DEF Inv
  <2>. QED  BY <1>5, <2>2, <2>3, <2>4 DEF reconcileOperatingSystemConfigs, CreateOSC
<1>6. CASE ReadBackOSC
  <2>1. pc = "readOSC" /\ UNCHANGED <<md, oscView>> /\ pc \notin Deleting
    BY <1>6 DEF ReadBackOSC, Deleting
  <2>2. CASE Error
    BY <1>0, <2>1, <2>2, WorkerMoves DEF Error, Return, SecretKinds
  <2>3. CASE /\ oscView # None /\ src' = oscView.spec /\ pc' = "provisioning"
             /\ doubt' = (doubt \/ osc = None \/ osc.spec # oscView.spec)
             /\ UNCHANGED <<osc, secret, cur>>
    <3>1. src' \in OSCSpec
      BY <2>3 DEF Inv, Types, OSCObj
    <3>2. ~doubt' => ~doubt /\ osc # None /\ src' = osc.spec
      BY <2>3
    <3>3. doubt' \in BOOLEAN
      BY <2>3
    <3>4. pc' \in SecretKinds
      BY <2>3 DEF SecretKinds
    <3>. QED  BY <2>1, <2>3, <3>1, <3>2, <3>3, <3>4, WorkerMoves
  <2>. QED  BY <1>6, <2>2, <2>3 DEF ReadBackOSC
<1>7. ASSUME NEW k \in SecretKinds, ensureCloudConfigSecret(k) PROVE Inv'
  <2>1. /\ pc = k /\ UNCHANGED <<md, osc, oscView, doubt>> /\ src \in OSCSpec /\ cur \in MDObj
        /\ pc # "idle" /\ pc \notin Deleting
    BY <1>7 DEF ensureCloudConfigSecret, Inv, Types, SecretKinds, Deleting
  <2>2. /\ pc' \in {"idle", "bootstrap"}
        /\ pc' # "idle" => UNCHANGED <<cur, src>>
    BY <1>7 DEF ensureCloudConfigSecret, SecretEnsured, Return
  <2>3. /\ pc' \notin Deleting /\ pc' # "deleteBootstrap"
        /\ pc' \in {"idle"} \cup SecretKinds /\ "idle" \notin SecretKinds
    BY <2>2 DEF Deleting, SecretKinds
  <2>4. ~doubt => osc # None /\ src = osc.spec
    BY <2>1 DEF Inv, Together
  <2>5. CASE UNCHANGED secret
    BY <1>0, <2>1, <2>2, <2>3, <2>4, <2>5, WorkerMoves
  <2>6. CASE /\ Generate(src, cur.tmpl, k) # None
             /\ secret' = [secret EXCEPT ![k] = Generate(src, cur.tmpl, k)]
    <3>1. Generate(src, cur.tmpl, k) = UserData(src, cur.tmpl, k, src.utility)
      BY <2>6 DEF Generate
    <3>2. DOMAIN secret' = SecretKinds /\ \A j \in SecretKinds : j # k => secret'[j] = secret[j]
      BY <1>0, <2>6
    <3>3. secret'[k] = UserData(src, cur.tmpl, k, src.utility) /\ cur.tmpl \in Templates
      BY <1>0, <2>1, <2>6, <3>1 DEF MDObj
    <3>4. Types'
      BY <2>1, <2>2, <2>3, <3>2 DEF Inv, Types
    <3>5. OneTemplate'
      BY <2>1, <2>2 DEF Inv, OneTemplate
    <3>6. Each'
      BY <2>1, <3>2, <3>3 DEF Inv, Each, RenderedFrom
    <3>7. ~doubt => BothFrom(src)
      <4>1. CASE secret = NoSecrets
        BY <4>1 DEF BothFrom, NoSecrets
      <4>2. CASE secret # NoSecrets
        BY <2>1, <2>4, <4>2 DEF Inv, Together
      <4>. QED  BY <4>1, <4>2
    <3>8. ~doubt => \A j \in SecretKinds :
             secret'[j] # None => \E t \in Templates : secret'[j] = UserData(src, t, j, src.utility)
      BY <3>2, <3>3, <3>7 DEF BothFrom, RenderedFrom
    <3>9. Together'
      <4>1. ~doubt => BothFrom(osc.spec)'
        BY <2>1, <2>4, <3>8 DEF BothFrom, RenderedFrom
      <4>2. ~doubt /\ pc' \in SecretKinds => osc' # None /\ src' = osc'.spec
        BY <2>1, <2>2, <2>3, <2>4
      <4>. QED  BY <2>1, <2>3, <2>4, <4>1, <4>2 DEF Together
    <3>. QED  BY <3>4, <3>5, <3>6, <3>9 DEF Inv
  <2>. QED  BY <1>7, <2>5, <2>6 DEF ensureCloudConfigSecret
<1>8. CASE Fail
  <2>1. /\ pc' = "idle" /\ UNCHANGED <<md, osc, oscView, secret>>
        /\ doubt' = (doubt \/ (pc \in Deleting /\ secret # NoSecrets))
    BY <1>8 DEF Fail, Return
  <2>2. pc' \notin SecretKinds /\ doubt' \in BOOLEAN
    BY <2>1 DEF SecretKinds
  <2>3. ~doubt' => ~doubt /\ (pc \in Deleting => secret = NoSecrets)
    BY <2>1
  <2>. QED  BY <2>1, <2>2, <2>3, WorkerMoves
<1>9. CASE SyncOSC
  BY <1>9, Unmoved DEF SyncOSC
<1>10. ASSUME NEW t \in Templates, NEW a \in Annotations, Apply(t, a) PROVE Inv'
  <2>1. UNCHANGED <<osc, oscView, secret, pc, cur, src, doubt>>
    BY <1>10 DEF Apply
  <2>. DEFINE p == MutateMachineDeployment(t, a.osp)
  <2>2. p \in OSPNames /\ a.kubelet \in BOOLEAN
    BY <1>10, MutatedName, GenerationAssumption DEF Apply, Annotation
  <2>. HIDE DEF p
  <2>3. Each' /\ Together'
    BY <2>1 DEF Inv, Each, Together, BothFrom, RenderedFrom, NoSecrets
  <2>4. CASE /\ md = None
             /\ md' = [tmpl |-> t, osp |-> p, kubelet |-> a.kubelet, rev |-> 0, synced |-> FALSE]
    <3>1. md' \in MDObj /\ md'.synced = FALSE /\ md'.rev = 0
      BY <2>2, <2>4 DEF MDObj
    <3>2. pc = "idle" /\ osc = None
      BY <2>4, NoneAssumption DEF Inv, Types
    <3>3. Types' /\ OneTemplate'
      BY <2>1, <3>1, <3>2 DEF Inv, Types, OneTemplate, SecretKinds
    <3>. QED  BY <2>3, <3>3 DEF Inv
  <2>5. CASE /\ md # None
             /\ md' = [md EXCEPT !.tmpl = t, !.osp = p, !.kubelet = a.kubelet,
                               !.synced = @ /\ t = md.tmpl]
    <3>1. md \in MDObj
      BY <2>5 DEF Inv, Types
    <3>2. /\ md' \in MDObj /\ md'.rev = md.rev
          /\ md'.synced => md.synced /\ md'.tmpl = md.tmpl
      BY <2>2, <2>5, <3>1 DEF MDObj
    <3>3. Types'
      BY <2>1, <3>2 DEF Inv, Types
    <3>4. OneTemplate'
      BY <2>1, <3>2 DEF Inv, OneTemplate
    <3>. QED  BY <2>3, <3>3, <3>4 DEF Inv
  <2>. QED  BY <1>10, <2>4, <2>5 DEF Apply, p
<1>11. CASE UpdateOSC
  <2>1. /\ osc # None /\ osc'.spec = osc.spec
        /\ UNCHANGED <<md, oscView, secret, pc, cur, src, doubt>>
        /\ osc' \in {[osc EXCEPT !.stamp = <<>>], [osc EXCEPT !.spec.keys = <<>>],
                     [osc EXCEPT !.spec.provider = "edge"]}
    BY <1>11 DEF UpdateOSC, validateUpdate
  <2>2. osc \in OSCObj /\ md \in MDObj
    BY <2>1 DEF Inv, Types
  <2>3. osc' \in OSCObj /\ (osc'.stamp = osc.stamp \/ osc'.stamp = <<>>)
    BY <2>1, <2>2 DEF OSCObj
  <2>4. osc' # None
    BY <2>3, NoneAssumption
  <2>5. Types'
    BY <2>1, <2>2, <2>3, <2>4 DEF Inv, Types
  <2>6. OneTemplate'
    BY <2>1, <2>3 DEF Inv, OneTemplate
  <2>7. Each' /\ Together'
    BY <2>1, <2>4 DEF Inv, Each, Together, BothFrom, RenderedFrom, NoSecrets
  <2>. QED  BY <2>5, <2>6, <2>7 DEF Inv
<1>12. CASE BumpRevision
  <2>1. UNCHANGED <<osc, oscView, secret, pc, cur, src, doubt>> /\ md \in MDObj
    BY <1>12 DEF BumpRevision, Inv, Types
  <2>2. md' \in MDObj /\ md'.rev = md.rev + 1 /\ md.rev \in Nat
    <3>1. md.rev \in Nat /\ md.rev + 1 \in Nat
      BY <2>1 DEF MDObj
    <3>2. /\ md' = [md EXCEPT !.rev = md.rev + 1, !.synced = TRUE]
          /\ TRUE \in BOOLEAN
      BY <1>12 DEF BumpRevision
    <3>3. ASSUME NEW q \in Nat, NEW b \in BOOLEAN, md' = [md EXCEPT !.rev = q, !.synced = b]
          PROVE  md' \in MDObj /\ md'.rev = q
      BY <2>1, <3>3 DEF MDObj
    <3>. QED  BY <3>1, <3>2, <3>3
  <2>3. Types'
    BY <2>1, <2>2 DEF Inv, Types
  <2>4. OneTemplate'
    <3>1. pc # "idle" => cur.rev \in Nat /\ cur.rev <= md.rev
      BY DEF Inv, Types, OneTemplate, MDObj
    <3>2. osc # None /\ osc.stamp # <<>> => osc.stamp[1] \in Nat /\ osc.stamp[1] <= md.rev
      BY DEF Inv, Types, OneTemplate, OSCObj
    <3>. QED  BY <2>1, <2>2, <3>1, <3>2 DEF OneTemplate
  <2>5. Each' /\ Together'
    BY <2>1 DEF Inv, Each, Together, BothFrom, RenderedFrom, NoSecrets
  <2>. QED  BY <2>3, <2>4, <2>5 DEF Inv
<1>13. CASE UNCHANGED vars
  BY <1>13, Unmoved DEF vars
<1>. QED
  BY <1>1, <1>2, <1>3, <1>4, <1>5, <1>6, <1>7, <1>8, <1>9, <1>10, <1>11, <1>12, <1>13
  DEF Next, Step, User

\* The invariant holds in every reachable state.
LEMMA Invariant == Spec => []Inv
<1>1. Init => Inv
  BY DEF Init, NoSecrets, Inv, Types, OneTemplate, Each, Together, SecretKinds, Deleting
<1>. QED  BY <1>1, InvStep, PTL DEF Spec

-----------------------------------------------------------------------------
(* SecretsOfOSC and Renderable.                                             *)

\* The spec of an OSC comes from a template and a profile.
LEMMA SpecOrigin ==
  ASSUME NEW o \in OSCSpec
  PROVE  /\ o.keys \in Seq(SSHKey) /\ o.utility \in Utilities
         /\ \E n \in DOMAIN Profiles : /\ Profiles[n] \in Profile
                                       /\ o.utility = Profiles[n].utility
                                       /\ o.files = renderOSPFiles(Profiles[n])
<1>1. PICK t \in Templates, n \in DOMAIN Profiles : o = GenerateOperatingSystemConfig(t, Profiles[n])
  BY DEF OSCSpec
<1>2. t \in Template /\ Profiles[n] \in Profile
  BY GenerationAssumption
<1>3. t.keys \in Seq(SSHKey)
  BY <1>2 DEF Template
<1>4. Profiles[n].utility \in Utilities
  BY <1>2 DEF Profile
<1>5. /\ o.keys = t.keys /\ o.utility = Profiles[n].utility
      /\ o.files = renderOSPFiles(Profiles[n])
  BY <1>1 DEF GenerateOperatingSystemConfig
<1>. QED  BY <1>2, <1>3, <1>4, <1>5

\* What UserData returns for an OSC is a rendering of it, as SecretsOfOSC has it.
LEMMA UserDataRenders ==
  ASSUME NEW o \in OSCSpec, NEW k \in SecretKinds, RenderedFrom(k, o)
  PROVE  Renders(k, o)
<1>1. PICK t \in Templates : secret[k] = UserData(o, t, k, o.utility)
  BY DEF RenderedFrom
<1>2. /\ secret[k].format = o.utility /\ secret[k].keys = deduplicateSSHKeys(o.keys)
      /\ secret[k].hostname = hostname(o, o.utility, k)
      /\ o.utility = "cloud-init" => secret[k].subscription = o.subscription
  BY <1>1 DEF UserData
<1>3. ToSet(secret[k].keys) = KeyTexts(o.keys) /\ IsInjective(secret[k].keys)
  BY <1>2, SpecOrigin, Deduplicated
<1>4. hostname(o, o.utility, k) # None <=> k = "bootstrap" /\ o.provider # "aws"
  BY NoneAssumption DEF hostname
<1>. QED  BY <1>2, <1>3, <1>4 DEF Renders

\* For all templates, profiles and edits, any number of failed calls and any lag of the
\* cache, both secrets are renderings of the one OSC there is (its format, its keys, each
\* once, its subscription, and a host name where it is due), unless a rotation was cut
\* short between its Deletes or an OSC of the past was read back.
THEOREM SecretsOfOSCAlways == Spec => []SecretsOfOSC
<1>1. Inv => SecretsOfOSC
  <2>. SUFFICES ASSUME Inv, NEW k \in SecretKinds, secret[k] # None, ~doubt, pc \notin Deleting
                PROVE  osc # None /\ Renders(k, osc.spec)
    BY DEF SecretsOfOSC
  <2>1. secret # NoSecrets
    BY DEF NoSecrets
  <2>2. osc # None /\ RenderedFrom(k, osc.spec)
    BY <2>1 DEF Inv, Together, BothFrom
  <2>3. osc.spec \in OSCSpec
    BY <2>2 DEF Inv, Types, OSCObj
  <2>. QED  BY <2>2, <2>3, UserDataRenders
<1>. QED  BY <1>1, Invariant, PTL

\* For all templates and profiles, an OSC that Reconcile takes as current is one for the
\* template, and if the generator refuses it, then because the transpiler has something to
\* report on the files and units of an Ignition profile.
THEOREM RenderableAlways == Spec => []Renderable
<1>1. Inv => Renderable
  <2>. SUFFICES ASSUME Inv, osc # None, md.synced, osc.stamp = Stamp(md)
                PROVE  /\ osc.spec.os = md.tmpl.os
                       /\ \A k \in SecretKinds :
                            Generate(osc.spec, md.tmpl, k) = None
                              => osc.spec.utility = "ignition" /\ k \notin osc.spec.transpiles
    BY DEF Renderable
  <2>1. osc.spec \in OSCSpec /\ md \in MDObj /\ md.tmpl \in Templates
    BY DEF Inv, Types, OSCObj, MDObj
  <2>2. osc.stamp # <<>> /\ osc.stamp[1] = md.rev
    BY DEF Stamp
  <2>3. Matches(osc.spec, md.tmpl)
    BY <2>2 DEF Inv, OneTemplate
  <2>4. IsInjective(deduplicateSSHKeys(osc.spec.keys)) /\ osc.spec.utility \in Utilities
    BY <2>1, SpecOrigin, Deduplicated
  <2>5. ASSUME NEW k \in SecretKinds, osc.spec.utility = "ignition" => k \in osc.spec.transpiles
        PROVE  Generate(osc.spec, md.tmpl, k) # None
    <3>1. Generate(osc.spec, md.tmpl, k) = UserData(osc.spec, md.tmpl, k, osc.spec.utility)
      BY <2>3, <2>4, <2>5 DEF Generate, Matches, toIgnitionSucceeds
    <3>2. UserData(osc.spec, md.tmpl, k, osc.spec.utility) \in UserDatum
      BY <2>1, <2>4 DEF UserDatum
    <3>. QED  BY <3>1, <3>2, NoneAssumption
  <2>. QED  BY <2>3, <2>5 DEF Matches
<1>. QED  BY <1>1, Invariant, PTL

-----------------------------------------------------------------------------
(* FilesArrive.                                                             *)

Defaulted(f) == [f EXCEPT !.permissions = IF @ = 0 THEN 644 ELSE @]
HostFile(h)  == [path |-> h, permissions |-> 600, encoding |-> "", data |-> "hosts.toml",
                 newlines |-> 1]
Hosts        == [i \in DOMAIN RegistryHosts |-> HostFile(RegistryHosts[i])]

\* Default permissions make a file of a file.
LEMMA DefaultedType == ASSUME NEW f \in File PROVE Defaulted(f) \in File
<1>. DEFINE q == IF f.permissions = 0 THEN 644 ELSE f.permissions
<1>1. q \in Nat
  <2>1. f.permissions \in Nat
    BY DEF File
  <2>2. 644 \in Nat
    BY SMT
  <2>. QED  BY <2>1, <2>2
<1>2. Defaulted(f) = [f EXCEPT !.permissions = q]
  BY DEF Defaulted
<1>. HIDE DEF q
<1>. QED  BY <1>1, <1>2 DEF File

\* There is one file for each registry.
LEMMA HostsType == Hosts \in Seq(ToSet(Hosts)) /\ DOMAIN Hosts = DOMAIN RegistryHosts
<1>1. RegistryHosts \in Seq(STRING)
  BY GenerationAssumption
<1>2. Len(RegistryHosts) \in Nat /\ DOMAIN RegistryHosts = 1..Len(RegistryHosts)
  BY <1>1
<1>3. Hosts = [i \in 1..Len(RegistryHosts) |-> HostFile(RegistryHosts[i])]
  BY <1>2 DEF Hosts
<1>4. \A i \in 1..Len(RegistryHosts) : HostFile(RegistryHosts[i]) \in ToSet(Hosts)
  BY <1>3 DEF ToSet
<1>. QED  BY <1>2, <1>3, <1>4

\* What the user data says of a file of an OSC, in either format, is what the OSC says: the
\* content is decoded where it was encoded, only newlines at its end may go, and the digits
\* of the mode are read in base 8.
LEMMA SpecArrives ==
  ASSUME NEW g, NEW u \in Utilities, u = "ignition" => g.permissions \in 100..999
  PROVE  OnNode(fileSpec(g, u), u) =
           [path |-> g.path, content |-> g.data, newlines |-> Newlines(g, u),
            mode |-> g.permissions, base |-> 8]
<1>. DEFINE s == fileSpec(g, u)
<1>1. /\ s.path = g.path /\ s.data = g.data /\ s.mode.digits = g.permissions
      /\ s.mode.leadingZero = (g.permissions \in 100..999)
      /\ s.base64 = (g.encoding = "b64" /\ u = "cloud-init")
      /\ s.encoding = IF u = "cloud-init" THEN g.encoding ELSE ""
      /\ s.block = IF u = "cloud-init" THEN "strip" ELSE "clip"
      /\ s.newlines = g.newlines
  BY DEF fileSpec
<1>. HIDE DEF s
<1>2. s.base64 = (s.encoding = "b64")
  <2>1. CASE g.encoding = "b64" /\ u = "cloud-init"
    <3>1. s.base64 = TRUE /\ s.encoding = "b64"
      BY <1>1, <2>1
    <3>. QED  BY <3>1
  <2>2. CASE ~(g.encoding = "b64" /\ u = "cloud-init")
    <3>1. s.base64 = FALSE /\ s.encoding # "b64"
      BY <1>1, <2>2
    <3>. QED  BY <3>1
  <2>. QED  BY <2>1, <2>2
<1>3. u = "cloud-init" \/ s.mode.leadingZero
  BY <1>1 DEF Utilities
<1>4. (IF s.base64 THEN s.newlines ELSE IF s.block = "strip" THEN 0 ELSE 1) = Newlines(g, u)
  <2>1. CASE u = "ignition"
    <3>1. s.base64 = FALSE /\ s.block = "clip"
      BY <1>1, <2>1
    <3>. QED  BY <2>1, <3>1 DEF Newlines
  <2>2. CASE u = "cloud-init" /\ g.encoding = "b64"
    <3>1. s.base64 = TRUE
      BY <1>1, <2>2
    <3>. QED  BY <1>1, <2>2, <3>1 DEF Newlines
  <2>3. CASE u = "cloud-init" /\ g.encoding # "b64"
    <3>1. s.base64 = FALSE /\ s.block = "strip"
      BY <1>1, <2>3
    <3>. QED  BY <2>3, <3>1 DEF Newlines
  <2>. QED  BY <2>1, <2>2, <2>3 DEF Utilities
<1>5. OnNode(s, u) = [path |-> g.path, content |-> g.data, newlines |-> Newlines(g, u),
                      mode |-> g.permissions, base |-> 8]
  BY <1>1, <1>2, <1>3, <1>4 DEF OnNode
<1>. QED  BY <1>5 DEF s

\* A file of a profile is on the node what its author meant.
LEMMA FileArrives ==
  ASSUME NEW f \in File, NEW u \in Utilities,
         u = "ignition" => f.permissions \in {0} \cup 100..999
  PROVE  OnNode(fileSpec(Defaulted(f), u), u) = Meant(f, u)
<1>. DEFINE g == Defaulted(f)
<1>1. /\ g.path = f.path /\ g.data = f.data /\ g.encoding = f.encoding /\ g.newlines = f.newlines
      /\ g.permissions = IF f.permissions = 0 THEN 644 ELSE f.permissions
  BY DEF Defaulted, File
<1>2. u = "ignition" => g.permissions \in 100..999
  BY <1>1
<1>3. Meant(f, u) = [path |-> g.path, content |-> g.data, newlines |-> Newlines(g, u),
                     mode |-> g.permissions, base |-> 8]
  BY <1>1 DEF Meant, Newlines
<1>. HIDE DEF g
<1>4. OnNode(fileSpec(g, u), u) =
        [path |-> g.path, content |-> g.data, newlines |-> Newlines(g, u),
         mode |-> g.permissions, base |-> 8]
  BY <1>2, SpecArrives
<1>. QED  BY <1>3, <1>4 DEF g

\* So are the files for the registries.
LEMMA HostArrives ==
  ASSUME NEW i \in DOMAIN RegistryHosts, NEW u \in Utilities
  PROVE  OnNode(fileSpec(Hosts[i], u), u) =
           [path |-> RegistryHosts[i], content |-> "hosts.toml", newlines |-> HostNewlines(u),
            mode |-> 600, base |-> 8]
<1>. DEFINE h == Hosts[i]
<1>1. /\ h.path = RegistryHosts[i] /\ h.data = "hosts.toml" /\ h.permissions = 600
      /\ h.encoding = ""
  BY DEF Hosts, HostFile
<1>. HIDE DEF h
<1>2. h.permissions \in 100..999
  <2>1. 600 \in 100..999
    BY SMT
  <2>. QED  BY <1>1, <2>1, Zenon
<1>3. OnNode(fileSpec(h, u), u) =
        [path |-> h.path, content |-> h.data, newlines |-> Newlines(h, u),
         mode |-> h.permissions, base |-> 8]
  BY <1>2, SpecArrives
<1>4. Newlines(h, u) = HostNewlines(u)
  BY <1>1 DEF Newlines, HostNewlines
<1>. QED  BY <1>1, <1>3, <1>4 DEF h

\* The elements of a concatenation are those of its parts.
LEMMA ConcatElements ==
  ASSUME NEW S, NEW a \in Seq(S), NEW b \in Seq(S)
  PROVE  ToSet(a \o b) = ToSet(a) \cup ToSet(b)
<1>1. /\ DOMAIN a = 1..Len(a) /\ DOMAIN b = 1..Len(b) /\ DOMAIN (a \o b) = 1..(Len(a) + Len(b))
      /\ Len(a) \in Nat /\ Len(b) \in Nat
  OBVIOUS
<1>2. \A i \in 1..(Len(a) + Len(b)) : (a \o b)[i] = IF i <= Len(a) THEN a[i] ELSE b[i - Len(a)]
  OBVIOUS
<1>3. \A i \in DOMAIN (a \o b) : (a \o b)[i] \in ToSet(a) \cup ToSet(b)
  BY <1>1, <1>2 DEF ToSet
<1>4. \A i \in DOMAIN a : i \in DOMAIN (a \o b) /\ (a \o b)[i] = a[i]
  BY <1>1, <1>2
<1>5. \A i \in DOMAIN b : Len(a) + i \in DOMAIN (a \o b) /\ (a \o b)[Len(a) + i] = b[i]
  BY <1>1, <1>2
<1>6. ToSet(a) \subseteq ToSet(a \o b) /\ ToSet(b) \subseteq ToSet(a \o b)
  BY <1>4, <1>5 DEF ToSet
<1>7. ToSet(a \o b) \subseteq ToSet(a) \cup ToSet(b)
  BY <1>3 DEF ToSet
<1>. QED  BY <1>6, <1>7

\* The files that an OSC has for a secret: those of the profile, with default permissions,
\* and in the second secret those for the registries.
LEMMA RenderedFiles ==
  ASSUME NEW p \in Profile, NEW k \in SecretKinds
  PROVE  ToSet(renderOSPFiles(p)[k]) =
           {Defaulted(f) : f \in ToSet(p.files[k])} \cup (IF k = "bootstrap" THEN {} ELSE ToSet(Hosts))
<1>. DEFINE fs == p.files[k]
            pop == populateFilesList(fs)
<1>1. fs \in Seq(File)
  BY DEF Profile
<1>. HIDE DEF fs
<1>2. \A f \in File : Defaulted(f) \in File
  BY DefaultedType
<1>3. pop = [i \in 1..Len(fs) |-> Defaulted(fs[i])]
  BY <1>1 DEF populateFilesList, Defaulted
<1>4. pop \in Seq(File) /\ DOMAIN pop = DOMAIN fs
  BY <1>1, <1>2, <1>3
<1>5. ToSet(pop) = {Defaulted(f) : f \in ToSet(fs)}
  BY <1>1, <1>3 DEF ToSet
<1>. DEFINE S == File \cup ToSet(Hosts)
<1>6. pop \in Seq(S) /\ Hosts \in Seq(S)
  BY <1>4, HostsType
<1>. HIDE DEF pop
<1>7. CASE k = "bootstrap"
  <2>1. renderOSPFiles(p)[k] = pop
    BY <1>7 DEF renderOSPFiles, pop, fs
  <2>. QED  BY <1>5, <1>7, <2>1 DEF fs
<1>8. CASE k # "bootstrap"
  <2>1. renderOSPFiles(p)[k] = pop \o Hosts
    BY <1>8 DEF renderOSPFiles, injectRegistryHostConfigs, Hosts, HostFile, pop, fs, SecretKinds
  <2>2. ToSet(pop \o Hosts) = ToSet(pop) \cup ToSet(Hosts)
    BY <1>6, ConcatElements
  <2>. QED  BY <1>5, <1>8, <2>1, <2>2 DEF fs
<1>. QED  BY <1>7, <1>8

\* A secret that was rendered from an OSC carries the files of the profile of that OSC.
LEMMA RenderedArrives ==
  ASSUME \A n \in DOMAIN Profiles : Octal(Profiles[n]), NEW o \in OSCSpec
  PROVE  \E p \in {Profiles[n] : n \in DOMAIN Profiles} :
           \A k \in SecretKinds : RenderedFrom(k, o) => Arrived(k, p)
<1>1. PICK n \in DOMAIN Profiles : /\ Profiles[n] \in Profile
                                   /\ o.utility = Profiles[n].utility
                                   /\ o.files = renderOSPFiles(Profiles[n])
  BY SpecOrigin
<1>. DEFINE p == Profiles[n]
            u == o.utility
<1>2. u \in Utilities
  BY SpecOrigin
<1>3. ASSUME NEW k \in SecretKinds, RenderedFrom(k, o) PROVE Arrived(k, p)
  <2>. DEFINE fs == o.files[k]
  <2>1. PICK t \in Templates : secret[k] = UserData(o, t, k, u)
    BY <1>3 DEF RenderedFrom
  <2>2. secret[k].format = u /\ secret[k].files = [i \in DOMAIN fs |-> fileSpec(fs[i], u)]
    BY <2>1 DEF UserData
  <2>. HIDE DEF u, fs
  <2>3. {OnNode(f, secret[k].format) : f \in ToSet(secret[k].files)} =
          {OnNode(fileSpec(g, u), u) : g \in ToSet(fs)}
    BY <2>2 DEF ToSet
  <2>4. ToSet(fs) = {Defaulted(f) : f \in ToSet(p.files[k])} \cup
                      (IF k = "bootstrap" THEN {} ELSE ToSet(Hosts))
    BY <1>1, RenderedFiles DEF fs
  <2>5. \A f \in ToSet(p.files[k]) : f \in File /\ OnNode(fileSpec(Defaulted(f), u), u) = Meant(f, u)
    <3>. SUFFICES ASSUME NEW f \in ToSet(p.files[k])
                  PROVE  f \in File /\ OnNode(fileSpec(Defaulted(f), u), u) = Meant(f, u)
      OBVIOUS
    <3>1. p.files[k] \in Seq(File)
      BY <1>1 DEF Profile
    <3>2. f \in File
      BY <3>1 DEF ToSet
    <3>3. u = "ignition" => f.permissions \in {0} \cup 100..999
      <4>1. Octal(p)
        OBVIOUS
      <4>. QED  BY <1>1, <4>1 DEF Octal, u
    <3>. QED  BY <1>2, <3>2, <3>3, FileArrives
  <2>6. {OnNode(fileSpec(g, u), u) : g \in ToSet(Hosts)} =
           {[path |-> h, content |-> "hosts.toml", newlines |-> HostNewlines(u), mode |-> 600,
             base |-> 8] : h \in ToSet(RegistryHosts)}
    <3>1. DOMAIN Hosts = DOMAIN RegistryHosts
      BY DEF Hosts
    <3>2. \A i \in DOMAIN RegistryHosts : OnNode(fileSpec(Hosts[i], u), u) =
            [path |-> RegistryHosts[i], content |-> "hosts.toml", newlines |-> HostNewlines(u),
             mode |-> 600, base |-> 8]
      BY <1>2, HostArrives
    <3>. QED  BY <3>1, <3>2 DEF ToSet
  <2>. DEFINE A == {OnNode(fileSpec(g, u), u) : g \in {Defaulted(f) : f \in ToSet(p.files[k])}}
              B == {OnNode(fileSpec(g, u), u) : g \in ToSet(Hosts)}
  <2>7. A = {Meant(f, u) : f \in ToSet(p.files[k])}
    BY <2>5
  <2>8. {OnNode(fileSpec(g, u), u) : g \in ToSet(fs)} = A \cup (IF k = "bootstrap" THEN {} ELSE B)
    BY <2>4
  <2>9. p.utility = u
    BY <1>1 DEF u
  <2>. QED  BY <2>3, <2>6, <2>7, <2>8, <2>9 DEF Arrived, Meanings
<1>. QED  BY <1>3

\* For all profiles with permissions that their format can say, and for all registries, the
\* files on the node are those of one profile, from each secret, and from both secrets
\* those of the same profile, unless a rotation was cut short or an OSC of the past read.
THEOREM FilesArriveAlways ==
  ASSUME \A n \in DOMAIN Profiles : Octal(Profiles[n])
  PROVE  Spec => []FilesArrive
<1>1. Inv => FilesArrive
  <2>. DEFINE profiles == {Profiles[n] : n \in DOMAIN Profiles}
  <2>. SUFFICES ASSUME Inv PROVE FilesArrive
    OBVIOUS
  <2>1. \A o \in OSCSpec : \E p \in profiles : \A k \in SecretKinds : RenderedFrom(k, o) => Arrived(k, p)
    BY RenderedArrives
  <2>2. ASSUME NEW k \in SecretKinds, secret[k] # None
        PROVE  \E p \in profiles : Arrived(k, p)
    <3>1. PICK o \in OSCSpec : RenderedFrom(k, o)
      BY <2>2 DEF Inv, Each
    <3>. QED  BY <2>1, <3>1
  <2>3. ASSUME ~doubt, NEW l \in SecretKinds, secret[l] # None
        PROVE  \E p \in profiles : \A k \in SecretKinds : secret[k] # None => Arrived(k, p)
    <3>1. secret # NoSecrets
      BY <2>3 DEF NoSecrets
    <3>2. PICK o \in OSCSpec : BothFrom(o)
      <4>1. CASE pc \in Deleting
        BY <2>3, <4>1 DEF Inv, Together
      <4>2. CASE pc \notin Deleting
        <5>1. osc # None /\ BothFrom(osc.spec)
          BY <2>3, <3>1, <4>2 DEF Inv, Together
        <5>2. osc.spec \in OSCSpec
          BY <5>1 DEF Inv, Types, OSCObj
        <5>. QED  BY <5>1, <5>2
      <4>. QED  BY <4>1, <4>2
    <3>3. PICK p \in profiles : \A k \in SecretKinds : RenderedFrom(k, o) => Arrived(k, p)
      BY <2>1
    <3>. QED  BY <3>2, <3>3 DEF BothFrom
  <2>. HIDE DEF profiles
  <2>. QED  BY <2>2, <2>3 DEF FilesArrive, profiles
<1>. QED  BY <1>1, Invariant, PTL

-----------------------------------------------------------------------------
(* DefaultFits.                                                             *)

\* Of the profiles the webhook chooses from, only the one it chooses can fit a template:
\* another is for another operating system, utility or provider.
LEMMA OnlyTheDefault ==
  ASSUME AsShipped, NEW t \in Templates, NEW n \in DefaultProfiles,
         validateMachineDeployment(t, Profiles[n]),
         GetProvisioningUtility(Profiles[n].os, t) = Profiles[n].utility
  PROVE  MutateMachineDeployment(t, None) = n
<1>. DEFINE p == Profiles[n]
<1>1. /\ p.os = t.os /\ t.provider \in p.providers
      /\ GetProvisioningUtility(t.os, t) = p.utility
  BY DEF validateMachineDeployment
<1>2. CASE n = "osp-flatcar-cloud-init"
  <2>1. t.os = "flatcar" /\ t.provider = "anexia" /\ GetProvisioningUtility(t.os, t) = "cloud-init"
    BY <1>1, <1>2 DEF AsShipped, DefaultProfiles
  <2>2. CloudInitOnAnexia(t)
    BY <2>1 DEF CloudInitOnAnexia
  <2>. QED  BY <1>2, <2>2 DEF MutateMachineDeployment
<1>3. ASSUME NEW os \in OperatingSystems, n = ospName[os]
      PROVE  MutateMachineDeployment(t, None) = n
  <2>1. t.os = os
    BY <1>1, <1>3 DEF AsShipped, DefaultProfiles
  <2>2. ~CloudInitOnAnexia(t)
    <3>. SUFFICES ASSUME CloudInitOnAnexia(t) PROVE FALSE
      OBVIOUS
    <3>1. os = "flatcar" /\ p.utility = "cloud-init"
      BY <1>1, <2>1 DEF CloudInitOnAnexia
    <3>2. n = "osp-flatcar"
      BY <1>3, <3>1 DEF ospName
    <3>. QED  BY <3>1, <3>2 DEF AsShipped, DefaultProfiles
  <2>. QED  BY <1>3, <2>1, <2>2 DEF MutateMachineDeployment
<1>. QED  BY <1>2, <1>3 DEF DefaultProfiles

\* With profiles as shipped, and any others beside them, the webhook's default fits every
\* template that one of the default profiles fits, for new MachineDeployments and edits.
THEOREM DefaultFitsAlways ==
  ASSUME AsShipped
  PROVE  Spec => DefaultFits
<1>. DEFINE Chosen(t, a) ==
       a.osp = None /\ Apply(t, a) /\ (\E p \in DefaultProfiles : Fits([md' EXCEPT !.osp = p]))
         => Fits(md')
<1>1. ASSUME Inv, NEW t \in Templates, NEW a \in Annotations PROVE Chosen(t, a)
  <2>. SUFFICES ASSUME a.osp = None, Apply(t, a),
                       NEW p \in DefaultProfiles, Fits([md' EXCEPT !.osp = p])
                PROVE  Fits(md')
    OBVIOUS
  <2>1. md \in MDObj \cup {None}
    BY <1>1 DEF Inv, Types
  <2>2. /\ md'.tmpl = t /\ md'.osp = MutateMachineDeployment(t, None)
        /\ [md' EXCEPT !.osp = MutateMachineDeployment(t, None)] = md'
    <3>. DEFINE q == MutateMachineDeployment(t, None)
    <3>. HIDE DEF q
    <3>1. CASE md = None
      <4>1. md' = [tmpl |-> t, osp |-> q, kubelet |-> a.kubelet, rev |-> 0, synced |-> FALSE]
        BY <3>1 DEF Apply, q
      <4>2. md' \in [tmpl : {t}, osp : {q}, kubelet : BOOLEAN, rev : {0}, synced : BOOLEAN]
        BY <4>1, GenerationAssumption DEF Annotation
      <4>. QED  BY <4>2 DEF q
    <3>2. CASE md \in MDObj
      <4>1. md' = [md EXCEPT !.tmpl = t, !.osp = q, !.kubelet = a.kubelet,
                             !.synced = @ /\ t = md.tmpl]
        BY <3>2, NoneAssumption DEF Apply, q
      <4>. QED  BY <3>2, <4>1 DEF q, MDObj
    <3>. QED  BY <2>1, <3>1, <3>2
  <2>. DEFINE o == [md' EXCEPT !.osp = p]
  <2>3. o.tmpl = t /\ o.osp = p
    BY <2>2
  <2>4. /\ validateMachineDeployment(t, Profiles[p])
        /\ GetProvisioningUtility(Profiles[p].os, t) = Profiles[p].utility
    BY <2>3 DEF Fits, CanGenerate
  <2>5. md'.osp = p
    BY <2>2, <2>4, OnlyTheDefault
  <2>6. o = md'
    BY <2>2, <2>5
  <2>. QED  BY <2>6
<1>2. Inv => [\A t \in Templates, a \in Annotations : Chosen(t, a)]_vars
  BY <1>1
<1>. QED  BY <1>2, Invariant, PTL DEF DefaultFits
=============================================================================
