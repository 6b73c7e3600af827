---------------------------- MODULE WorkersProofs ----------------------------
(* Theorems about Workers, for every set of MachineDeployments, command      *)
(* lines, credentials, cluster-infos and endpoint slices.                    *)
EXTENDS Workers, TLAPS

-----------------------------------------------------------------------------
(* The invariant.                                                           *)

\* Logins that the shared configuration may have: none yet, or one content of the secret.
Logins == {NoLogins} \cup {s.auths : s \in CredentialSecrets}

Types ==
  /\ flags \in Flags /\ secret \in CredentialSecrets
  /\ DOMAIN osc = MD /\ DOMAIN pc = MD /\ DOMAIN kubeconfig = MD /\ DOMAIN fetched = MD

ExpectedCA == IF flags.kubernetesCABundle # "" THEN "bundle" ELSE NodesCluster

\* A process that runs has read valid flags; before that there is nothing.
Started ==
  /\ process = "running" => /\ BuildConfig(flags) # None
                            /\ settings.caCert = ExpectedCA
                            /\ "registryCredentials" \in DOMAIN config
                            /\ config.registryCredentials \in Logins
  /\ process # "running" => \A m \in MD : osc[m] = None /\ pc[m] = "idle"

\* A kubeconfig that leads to the cluster of the nodes.
Joins(k) ==
  /\ k.ca \in {NodesCluster, ExpectedCA}
  /\ flags.override # "" => {k.server} \cup k.others = {flags.override}

\* Workers have fetched one content of the secret, and have a kubeconfig once they need it.
Prepared ==
  \A m \in MD : /\ pc[m] = "store" => fetched[m] \in Logins
                /\ pc[m] \in {"credentials", "store", "token", "generate"} => Joins(kubeconfig[m])

\* OSCs have the logins of one content, the CA and a server of the cluster.
Delivered ==
  \A m \in MD : osc[m] # None =>
    /\ \E l \in Logins : osc[m].auths \in Config(l)
    /\ osc[m].caCert = ExpectedCA /\ Joins(osc[m].kubeconfig)
    /\ osc[m].serverURL \in {osc[m].kubeconfig.server} \cup osc[m].kubeconfig.others

Inv == Types /\ Started /\ Prepared /\ Delivered

-----------------------------------------------------------------------------
(* Lemmas about the operators.                                              *)

\* A configuration that main accepts starts without credentials.
LEMMA BuiltConfig ==
  ASSUME NEW f, BuildConfig(f) # None
  PROVE  /\ BuildConfig(f).registryCredentials = NoLogins
         /\ "registryCredentials" \in DOMAIN BuildConfig(f)
BY DEF BuildConfig

\* With valid flags, the CA that main takes is the bundle or that of the nodes' cluster,
\* whichever file it was read from.
LEMMA CAOfTheCluster ==
  ASSUME flags \in Flags, caCert(flags) # None
  PROVE  caCert(flags) = ExpectedCA
<1>1. flags.kubeconfig \in {"", "management"} /\ flags.workerClusterKubeconfig \in {"", "worker"}
  BY WorkersAssumption DEF Flag
<1>. QED  BY <1>1 DEF caCert, GetCACert, KubeconfigPath, ExpectedCA, NodesCluster

\* The kubeconfig that is made for a node leads to its cluster: from every server listed,
\* the override has replaced all of them.
LEMMA GeneratedJoins ==
  ASSUME NEW s, NEW ss, NEW ca \in {NodesCluster, ExpectedCA}
  PROVE  Joins(generateKubeconfig(s, ss, ca))
BY DEF Joins, generateKubeconfig

\* What is fetched is one content of the secret.
LEMMA FetchedLogins ==
  ASSUME secret \in CredentialSecrets, Fetched # None
  PROVE  Fetched \in Logins
BY DEF Fetched, GetContainerdAuthConfig, Logins

\* An OSC that is generated from a shared configuration and a worker's kubeconfig.
LEMMA GeneratedFrom ==
  ASSUME NEW m, NEW o \in Generated(m, config)
  PROVE  /\ o.auths \in Config(config.registryCredentials)
         /\ o.caCert = settings.caCert /\ o.kubeconfig = kubeconfig[m]
         /\ o.serverURL \in {kubeconfig[m].server} \cup kubeconfig[m].others
BY DEF Generated

-----------------------------------------------------------------------------
(* The steps.                                                               *)

\* What a step of worker n alone must respect: the flags and the settings stay, its own
\* place is prepared, its own OSC is delivered and the shared credentials are of one content.
LEMMA WorkerStep ==
  ASSUME Inv, process = "running", NEW n \in MD, UNCHANGED <<flags, process, settings, secret>>,
         DOMAIN osc' = MD, DOMAIN pc' = MD, DOMAIN kubeconfig' = MD, DOMAIN fetched' = MD,
         \A m \in MD \ {n} : /\ osc'[m] = osc[m] /\ pc'[m] = pc[m]
                             /\ kubeconfig'[m] = kubeconfig[m] /\ fetched'[m] = fetched[m],
         "registryCredentials" \in DOMAIN config', config'.registryCredentials \in Logins,
         pc'[n] = "store" => fetched'[n] \in Logins,
         pc'[n] \in {"credentials", "store", "token", "generate"} => Joins(kubeconfig'[n]),
         osc'[n] \in {None, osc[n]} \/ (osc'[n] \in Generated(n, config) /\ Joins(kubeconfig[n]))
  PROVE  Inv'
<1>1. Types'
  BY DEF Inv, Types
<1>2. ExpectedCA' = ExpectedCA /\ \A k : Joins(k)' <=> Joins(k)
  BY DEF ExpectedCA, NodesCluster, Joins
<1>3. Started'
  BY <1>2 DEF Inv, Started
<1>4. Prepared'
  <2>. SUFFICES ASSUME NEW m \in MD
                PROVE  /\ pc'[m] = "store" => fetched'[m] \in Logins
                       /\ pc'[m] \in {"credentials", "store", "token", "generate"}
                            => Joins(kubeconfig'[m])
    BY <1>2 DEF Prepared, Joins, ExpectedCA, NodesCluster
  <2>1. CASE m = n
    BY <2>1
  <2>2. CASE m # n
    BY <2>2 DEF Inv, Prepared
  <2>. QED  BY <2>1, <2>2
<1>5. Delivered'
  <2>. SUFFICES ASSUME NEW m \in MD, osc'[m] # None
                PROVE  /\ \E l \in Logins : osc'[m].auths \in Config(l)
                       /\ osc'[m].caCert = ExpectedCA /\ Joins(osc'[m].kubeconfig)
                       /\ osc'[m].serverURL \in {osc'[m].kubeconfig.server} \cup osc'[m].kubeconfig.others
    BY DEF Delivered, Joins, ExpectedCA, NodesCluster
  <2>1. CASE osc'[m] = osc[m]
    BY <2>1 DEF Inv, Delivered
  <2>2. CASE m = n /\ osc'[n] \in Generated(n, config) /\ Joins(kubeconfig[n])
    <3>1. settings.caCert = ExpectedCA /\ config.registryCredentials \in Logins
      BY DEF Inv, Started
    <3>. QED  BY <2>2, <3>1, GeneratedFrom
  <2>. QED  BY <2>1, <2>2
<1>. QED  BY <1>1, <1>3, <1>4, <1>5 DEF Inv

\* A worker's return: it has nothing to prepare any more, and the others are where they were.
LEMMA ReturnStep ==
  ASSUME Inv, process = "running", NEW n \in MD, UNCHANGED <<flags, process, settings, secret>>,
         Return(n), config' = config,
         DOMAIN osc' = MD, \A m \in MD \ {n} : osc'[m] = osc[m],
         osc'[n] \in {None, osc[n]} \/ (osc'[n] \in Generated(n, config) /\ Joins(kubeconfig[n]))
  PROVE  Inv'
<1>1. DOMAIN pc = MD /\ DOMAIN kubeconfig = MD /\ DOMAIN fetched = MD
  BY DEF Inv, Types
<1>2. /\ DOMAIN pc' = MD /\ DOMAIN kubeconfig' = MD /\ DOMAIN fetched' = MD
      /\ \A m \in MD \ {n} : pc'[m] = pc[m] /\ kubeconfig'[m] = kubeconfig[m] /\ fetched'[m] = fetched[m]
      /\ pc'[n] = "idle"
  BY <1>1 DEF Return, Goto
<1>3. "registryCredentials" \in DOMAIN config' /\ config'.registryCredentials \in Logins
  BY DEF Inv, Started
<1>. QED  BY <1>2, <1>3, WorkerStep

\* A worker goes on to l; its OSC and the others' places are as they were.
LEMMA GotoStep ==
  ASSUME Inv, process = "running", NEW n \in MD, UNCHANGED <<flags, process, settings, secret, osc>>,
         NEW l, Goto(n, l),
         DOMAIN kubeconfig' = MD, \A m \in MD \ {n} : kubeconfig'[m] = kubeconfig[m],
         DOMAIN fetched' = MD, \A m \in MD \ {n} : fetched'[m] = fetched[m],
         "registryCredentials" \in DOMAIN config', config'.registryCredentials \in Logins,
         l = "store" => fetched'[n] \in Logins,
         l \in {"credentials", "store", "token", "generate"} => Joins(kubeconfig'[n])
  PROVE  Inv'
<1>1. DOMAIN osc = MD /\ DOMAIN pc = MD /\ DOMAIN kubeconfig = MD /\ DOMAIN fetched = MD
  BY DEF Inv, Types
<1>2. DOMAIN pc' = MD /\ pc'[n] = l /\ \A m \in MD \ {n} : pc'[m] = pc[m]
  BY <1>1 DEF Goto
<1>. QED  BY <1>1, <1>2, WorkerStep

\* Every step of main, of a worker, of the cluster and a restart keep the invariant.
LEMMA InvStep == Inv /\ [Next]_vars => Inv'
<1>. SUFFICES ASSUME Inv, [Next]_vars PROVE Inv'
  OBVIOUS
<1>t. /\ flags \in Flags /\ secret \in CredentialSecrets
      /\ DOMAIN osc = MD /\ DOMAIN pc = MD /\ DOMAIN kubeconfig = MD /\ DOMAIN fetched = MD
  BY DEF Inv, Types
<1>r. ASSUME NEW n \in MD, pc[n] # "idle" PROVE process = "running"
  BY <1>r DEF Inv, Started
<1>c. ASSUME process = "running"
      PROVE  /\ "registryCredentials" \in DOMAIN config /\ config.registryCredentials \in Logins
             /\ settings.caCert = ExpectedCA
  BY <1>c DEF Inv, Started
<1>1. CASE main
  <2>1. process # "running" /\ UNCHANGED <<flags, secret, osc, pc, kubeconfig, fetched>>
    BY <1>1 DEF main, objects
  <2>2. \A m \in MD : osc[m] = None /\ pc[m] = "idle"
    BY <2>1 DEF Inv, Started
  <2>3. Types' /\ Prepared' /\ Delivered'
    BY <1>t, <2>1, <2>2 DEF Types, Prepared, Delivered
  <2>4. CASE Valid(flags) /\ process' = "running" /\ config' = BuildConfig(flags)
             /\ settings' = [caCert |-> caCert(flags), featureGates |-> parseKubeletFeatureGates(flags)]
    <3>1. BuildConfig(flags) # None /\ caCert(flags) # None
      BY <2>4 DEF Valid
    <3>2. settings'.caCert = ExpectedCA
      BY <1>t, <2>4, <3>1, CAOfTheCluster
    <3>3. "registryCredentials" \in DOMAIN config' /\ config'.registryCredentials \in Logins
      BY <2>4, <3>1, BuiltConfig DEF Logins
    <3>4. Started'
      BY <2>1, <2>4, <3>1, <3>2, <3>3 DEF Started, ExpectedCA, NodesCluster
    <3>. QED  BY <2>3, <3>4 DEF Inv
  <2>5. CASE process' = "fatal"
    BY <2>1, <2>2, <2>3, <2>5 DEF Started, Inv
  <2>. QED  BY <1>1, <2>4, <2>5 DEF main
<1>2. CASE Edit
  <2>1. /\ UNCHANGED <<flags, process, settings, config, osc, pc, kubeconfig, fetched>>
        /\ secret' \in CredentialSecrets
    BY <1>2, <1>t DEF Edit
  <2>. QED
    BY <2>1, <1>t DEF Inv, Types, Started, Prepared, Delivered, Joins, ExpectedCA, NodesCluster
<1>3. CASE Restart
  <2>1. /\ process = "running" /\ UNCHANGED <<flags, process, settings, secret, osc>>
        /\ config' = BuildConfig(flags) /\ kubeconfig' = Nothing /\ fetched' = Nothing
        /\ pc' = [m \in MD |-> "idle"]
    BY <1>3 DEF Restart, Shared, objects
  <2>2. BuildConfig(flags) # None
    BY <2>1 DEF Inv, Started
  <2>3. "registryCredentials" \in DOMAIN config' /\ config'.registryCredentials \in Logins
    BY <2>1, <2>2, BuiltConfig DEF Logins
  <2>4. Types' /\ Prepared'
    BY <1>t, <2>1 DEF Types, Prepared, Nothing
  <2>5. Started'
    BY <1>c, <2>1, <2>2, <2>3 DEF Started, ExpectedCA, NodesCluster
  <2>6. Delivered'
    BY <2>1 DEF Inv, Delivered, Joins, ExpectedCA, NodesCluster
  <2>. QED  BY <2>4, <2>5, <2>6 DEF Inv
<1>. USE DEF Shared, objects
<1>4. ASSUME NEW n \in MD, StartReconcile(n) PROVE Inv'
  <2>1. /\ process = "running" /\ UNCHANGED <<flags, process, settings, secret, config, kubeconfig, fetched>>
        /\ osc' = [osc EXCEPT ![n] = None] /\ pc' = [pc EXCEPT ![n] = "clusterInfo"]
    BY <1>4 DEF StartReconcile, Goto
  <2>2. /\ DOMAIN osc' = MD /\ DOMAIN pc' = MD /\ osc'[n] = None /\ pc'[n] = "clusterInfo"
        /\ \A m \in MD \ {n} : osc'[m] = osc[m] /\ pc'[m] = pc[m]
    BY <1>t, <2>1
  <2>. QED  BY <1>t, <1>c, <2>1, <2>2, WorkerStep
<1>5. ASSUME NEW n \in MD, getKubeconfigFromConfigMap(n) PROVE Inv'
  <2>1. process = "running" /\ UNCHANGED <<flags, process, settings, secret, config, osc>>
    BY <1>5, <1>r DEF getKubeconfigFromConfigMap
  <2>2. ASSUME NEW s \in info.servers,
               kubeconfig' = [kubeconfig EXCEPT ![n] = generateKubeconfig(s, info.servers, NodesCluster)],
               Goto(n, "credentials"), UNCHANGED fetched
        PROVE  Inv'
    <3>1. Joins(generateKubeconfig(s, info.servers, NodesCluster))
      BY GeneratedJoins
    <3>2. /\ DOMAIN kubeconfig' = MD /\ \A m \in MD \ {n} : kubeconfig'[m] = kubeconfig[m]
          /\ kubeconfig'[n] = generateKubeconfig(s, info.servers, NodesCluster)
      BY <1>t, <2>2
    <3>. QED  BY <1>t, <1>c, <2>1, <2>2, <3>1, <3>2, GotoStep
  <2>3. CASE Return(n)
    BY <1>t, <2>1, <2>3, ReturnStep
  <2>4. CASE Goto(n, "slices") /\ UNCHANGED <<kubeconfig, fetched>>
    BY <1>t, <1>c, <2>1, <2>4, GotoStep
  <2>. QED  BY <1>5, <2>2, <2>3, <2>4 DEF getKubeconfigFromConfigMap
<1>6. ASSUME NEW n \in MD, buildKubeconfigFromEndpointSlice(n) PROVE Inv'
  <2>1. process = "running" /\ UNCHANGED <<flags, process, settings, secret, config, osc>>
    BY <1>6, <1>r DEF buildKubeconfigFromEndpointSlice
  <2>2. CASE Return(n)
    BY <1>t, <2>1, <2>2, ReturnStep
  <2>3. ASSUME NEW s, Goto(n, "credentials"), UNCHANGED fetched,
               kubeconfig' = [kubeconfig EXCEPT ![n] = generateKubeconfig(s, {s}, settings.caCert)]
        PROVE  Inv'
    <3>1. Joins(generateKubeconfig(s, {s}, settings.caCert))
      BY <1>c, <2>1, GeneratedJoins
    <3>2. /\ DOMAIN kubeconfig' = MD /\ \A m \in MD \ {n} : kubeconfig'[m] = kubeconfig[m]
          /\ kubeconfig'[n] = generateKubeconfig(s, {s}, settings.caCert)
      BY <1>t, <2>3
    <3>. QED  BY <1>t, <1>c, <2>1, <2>3, <3>1, <3>2, GotoStep
  <2>. QED  BY <1>6, <2>2, <2>3 DEF buildKubeconfigFromEndpointSlice
<1>7. ASSUME NEW n \in MD, FetchCredentials(n) PROVE Inv'
  <2>1. /\ process = "running" /\ UNCHANGED <<flags, process, settings, secret, config, osc>>
        /\ Joins(kubeconfig[n])
    BY <1>7, <1>r DEF FetchCredentials, Inv, Prepared
  <2>2. CASE Goto(n, "token") /\ UNCHANGED <<fetched, kubeconfig>>
    BY <1>t, <1>c, <2>1, <2>2, GotoStep
  <2>3. CASE /\ Fetched # None /\ fetched' = [fetched EXCEPT ![n] = Fetched]
             /\ Goto(n, "store") /\ UNCHANGED kubeconfig
    <3>1. Fetched \in Logins
      BY <1>t, <2>3, FetchedLogins
    <3>2. /\ DOMAIN fetched' = MD /\ \A m \in MD \ {n} : fetched'[m] = fetched[m]
          /\ fetched'[n] = Fetched
      BY <1>t, <2>3
    <3>. QED  BY <1>t, <1>c, <2>1, <2>3, <3>1, <3>2, GotoStep
  <2>4. CASE Return(n)
    BY <1>t, <2>1, <2>4, ReturnStep
  <2>. QED  BY <1>7, <2>2, <2>3, <2>4 DEF FetchCredentials
<1>8. ASSUME NEW n \in MD, StoreCredentials(n) PROVE Inv'
  <2>1. /\ process = "running" /\ UNCHANGED <<flags, process, settings, secret, osc, kubeconfig>>
        /\ Joins(kubeconfig[n]) /\ fetched[n] \in Logins
    BY <1>8, <1>r DEF StoreCredentials, Inv, Prepared
  <2>2. "registryCredentials" \in DOMAIN config' /\ config'.registryCredentials = fetched[n]
    BY <1>8, <1>c, <2>1 DEF StoreCredentials
  <2>3. /\ DOMAIN fetched' = MD /\ \A m \in MD \ {n} : fetched'[m] = fetched[m]
        /\ Goto(n, "token")
    BY <1>8, <1>t DEF StoreCredentials
  <2>. QED  BY <1>t, <2>1, <2>2, <2>3, GotoStep
<1>9. ASSUME NEW n \in MD, ExtractAPIServerToken(n) PROVE Inv'
  <2>1. /\ process = "running" /\ UNCHANGED <<flags, process, settings, secret, config, osc>>
        /\ Joins(kubeconfig[n])
    BY <1>9, <1>r DEF ExtractAPIServerToken, Inv, Prepared
  <2>2. CASE Goto(n, "generate") /\ UNCHANGED <<kubeconfig, fetched>>
    BY <1>t, <1>c, <2>1, <2>2, GotoStep
  <2>3. CASE Return(n)
    BY <1>t, <2>1, <2>3, ReturnStep
  <2>. QED  BY <1>9, <2>2, <2>3 DEF ExtractAPIServerToken
<1>10. ASSUME NEW n \in MD, CreateOSC(n) PROVE Inv'
  <2>1. /\ process = "running" /\ UNCHANGED <<flags, process, settings, secret, config>>
        /\ Joins(kubeconfig[n]) /\ Return(n)
    BY <1>10, <1>r DEF CreateOSC, Inv, Prepared
  <2>2. PICK o \in Generated(n, config) : osc' = [osc EXCEPT ![n] = o]
    BY <1>10 DEF CreateOSC
  <2>3. DOMAIN osc' = MD /\ osc'[n] = o /\ \A m \in MD \ {n} : osc'[m] = osc[m]
    BY <1>t, <2>2
  <2>. QED  BY <2>1, <2>2, <2>3, ReturnStep
<1>11. ASSUME NEW n \in MD, Fail(n) PROVE Inv'
  <2>1. /\ process = "running" /\ UNCHANGED <<flags, process, settings, secret, config, osc>>
        /\ Return(n)
    BY <1>11, <1>r DEF Fail, Error
  <2>. QED  BY <1>t, <2>1, ReturnStep
<1>12. CASE UNCHANGED vars
  BY <1>12 DEF vars, Inv, Types, Started, Prepared, Delivered, Joins, ExpectedCA, NodesCluster
<1>. QED
  BY <1>1, <1>2, <1>3, <1>4, <1>5, <1>6, <1>7, <1>8, <1>9, <1>10, <1>11, <1>12 DEF Next, Continue

\* The invariant holds in every reachable state.
LEMMA Invariant == Spec => []Inv
<1>1. Init => Inv
  BY DEF Init, Nothing, Inv, Types, Started, Prepared, Delivered
<1>. QED  BY <1>1, InvStep, PTL DEF Spec

-----------------------------------------------------------------------------
\* Any number of workers that fetch, store and read the shared credentials in any order
\* make OSCs with the logins of one content of the secret: none is missing, none is mixed in.
THEOREM CredentialsOfOneVersionAlways == Spec => []CredentialsOfOneVersion
<1>1. Inv => CredentialsOfOneVersion
  <2>. SUFFICES ASSUME Inv, NEW m \in MD, osc[m] # None
                PROVE  osc[m].auths \in Config(NoLogins) \cup UNION {Config(s.auths) : s \in CredentialSecrets}
    BY DEF CredentialsOfOneVersion
  <2>1. PICK l \in Logins : osc[m].auths \in Config(l)
    BY DEF Inv, Delivered
  <2>. QED  BY <2>1 DEF Logins
<1>. QED  BY <1>1, Invariant, PTL

\* For all flags that main accepts and whatever the cluster publishes, an OSC has the CA of
\* the bundle or of the cluster that its node joins, and its two ways to the API server agree.
THEOREM JoinsItsClusterAlways == Spec => []JoinsItsCluster
<1>1. Inv => JoinsItsCluster
  <2>. SUFFICES ASSUME Inv, NEW m \in MD, osc[m] # None
                PROVE  LET cluster == osc[m].kubeconfig IN
                       /\ osc[m].caCert = ExpectedCA
                       /\ cluster.ca \in {NodesCluster, osc[m].caCert}
                       /\ cluster.others = {} => osc[m].serverURL = cluster.server
                       /\ flags.override # "" => {osc[m].serverURL, cluster.server} = {flags.override}
    BY DEF JoinsItsCluster, ExpectedCA
  <2>1. /\ osc[m].caCert = ExpectedCA /\ Joins(osc[m].kubeconfig)
        /\ osc[m].serverURL \in {osc[m].kubeconfig.server} \cup osc[m].kubeconfig.others
    BY DEF Inv, Delivered
  <2>. QED  BY <2>1 DEF Joins
<1>. QED  BY <1>1, Invariant, PTL
=============================================================================
