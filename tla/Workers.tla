------------------------------- MODULE Workers -------------------------------
(***************************************************************************)
(* The process: main reads the flags and builds what all workers share     *)
(* (cmd/osm-controller/main.go), and the workers of the OSC controller     *)
(* generate OSCs from it, from the registry credentials, which they fetch  *)
(* and store in the shared container runtime configuration                 *)
(* (osc_controller.go), and from the kubeconfig of the cluster that nodes  *)
(* join (pkg/clusterinfo, pkg/bootstrap).                                  *)
(*                                                                         *)
(* Module OSCReconciler has the rest of Reconcile.  Here it starts when    *)
(* there is no OSC, or with the rotation that deletes it, and ends with    *)
(* the Create; in between workers read and write the same memory.          *)
(***************************************************************************)
EXTENDS ContainerRuntime

CONSTANTS
  MD,              \* MachineDeployments; each has a worker of its own at most
  Flags,           \* command lines
  CredentialSecrets, ClusterInfos, SliceLists,  \* what users and the cluster write (bounds)
  MaxEdits,        \* bound: how often they do
  MaxFaults        \* bound: failed calls and crashes

\* A CA, and a kubeconfig file, is named after its cluster; the CA is in the file.
\* "unusable": files that do not list exactly one cluster, and "" if the configuration of
\* the manager has no CA that can be read.  "credentialsSecret": in the manager's
\* namespace or elsewhere.
Flag == [namespace : BOOLEAN, containerRuntime : STRING,
         kubernetesCABundle : {"", "bundle", "invalid"}, hostCABundle : {"", "bundle", "invalid"},
         clusterDNS : Seq(BOOLEAN), featureGates : Seq([parts : Nat, name : STRING, value : STRING]),
         serviceAccount : {"", "set", "malformed"},
         kubeconfig : {"", "management"}, workerClusterKubeconfig : {"", "worker"},
         unusable : SUBSET {"", "management", "worker"}, override : STRING,
         containerdMirrors : Seq([name : Text \cup {None}, mirror : Text]),
         registryMirrors : Seq([name : Text \cup {None}, mirror : Text]),
         insecureRegistries : Seq(Text), credentialsSecret : {"", "here", "elsewhere", "malformed"}]

ASSUME WorkersAssumption ==
  /\ \A f \in Flags : f \in Flag
  /\ \A s \in CredentialSecrets : s.readable \in BOOLEAN
  /\ MaxEdits \in Nat /\ MaxFaults \in Nat

VARIABLES
  flags, process, settings,      \* the command line, and what main made of it
  config,                        \* r.containerRuntimeConfig, shared by the workers
  secret, info, slices, token,   \* objects in the API servers
  osc,                           \* the OSC of each MachineDeployment
  pc, kubeconfig, fetched,       \* workers
  edits, faults

objects == <<secret, info, slices, token>>
vars    == <<flags, process, settings, config, objects, osc, pc, kubeconfig, fetched, edits, faults>>

Nothing == [m \in MD |-> None]

Init ==
  /\ flags \in Flags /\ process = "starting" /\ settings = None /\ config = None
  /\ secret \in CredentialSecrets /\ info \in ClusterInfos /\ slices \in SliceLists /\ token = TRUE
  /\ osc = Nothing /\ pc = [m \in MD |-> "idle"] /\ kubeconfig = Nothing /\ fetched = Nothing
  /\ edits = 0 /\ faults = 0

-----------------------------------------------------------------------------
(* main.                                                                   *)

parseClusterDNSIPs(f) == \A i \in DOMAIN f.clusterDNS : f.clusterDNS[i]

Rotating == "RotateKubeletServerCertificate"

\* None when an element is not name=bool; the later of two elements with one name counts.
parseKubeletFeatureGates(f) ==
  LET gates == f.featureGates IN
  IF \E i \in DOMAIN gates : gates[i].parts # 2 \/ gates[i].value \notin {"true", "false"}
    THEN None
    ELSE FoldLeft(LAMBDA g, e : [n \in DOMAIN g \cup {e.name} |->
                                   IF n = e.name THEN e.value = "true" ELSE g[n]],
                  [n \in {Rotating} |-> TRUE], gates)

retrieveCustomCACertificate(file) == file # "invalid"

\* The CA in a kubeconfig file, or in the configuration of the manager.
GetCACert(path, f) == CASE path \in f.unusable                  -> None
                        [] path \notin f.unusable /\ path = "" -> "management"
                        [] path \notin f.unusable /\ path # "" -> path

\* opt.kubeconfig, once -worker-cluster-kubeconfig, if it is given, has replaced it.
KubeconfigPath(f) == IF f.workerClusterKubeconfig # "" THEN f.workerClusterKubeconfig
                                                       ELSE f.kubeconfig

\* Mutant: the CA is taken before the worker cluster is known.
ManagementCA(f) == IF f.kubernetesCABundle # "" THEN "bundle" ELSE GetCACert(f.kubeconfig, f)

caCert(f) == IF f.kubernetesCABundle # "" THEN "bundle" ELSE GetCACert(KubeconfigPath(f), f)

Valid(f) ==
  /\ f.namespace /\ f.containerRuntime = "containerd"
  /\ retrieveCustomCACertificate(f.kubernetesCABundle) /\ retrieveCustomCACertificate(f.hostCABundle)
  /\ parseClusterDNSIPs(f) /\ parseKubeletFeatureGates(f) # None
  /\ f.serviceAccount # "malformed" /\ BuildConfig(f) # None /\ caCert(f) # None

main ==
  /\ process = "starting"
  /\ \/ /\ Valid(flags)
        /\ process' = "running" /\ config' = BuildConfig(flags)
        /\ settings' = [caCert |-> caCert(flags), featureGates |-> parseKubeletFeatureGates(flags)]
     \/ ~Valid(flags) /\ process' = "fatal" /\ UNCHANGED <<config, settings>>
  /\ UNCHANGED <<flags, objects, osc, pc, kubeconfig, fetched, edits, faults>>

-----------------------------------------------------------------------------
(* The kubeconfig of the cluster.                                          *)

\* Nodes join the cluster that workerClient reads.
NodesCluster == IF flags.workerClusterKubeconfig # "" THEN flags.workerClusterKubeconfig
                                                      ELSE "management"

\* cluster-info: "broken" when it has no kubeconfig or one that does not load; else
\* the servers of the clusters that its kubeconfig lists, with the CA of the cluster.
LoadsClusterInfo(i) == i.exists /\ ~i.broken

Secure(slice)  == \E i \in DOMAIN slice.ports : slice.ports[i] = "https"
Usable(e)      == e.ready /\ e.address # ""

\* Mutant: only the first endpoint of each slice is looked at.
FirstEndpointsOnly(list) ==
  LET usable == [i \in {j \in DOMAIN list : Secure(list[j])} |->
                   {k \in DOMAIN list[i].endpoints : k = 1 /\ Usable(list[i].endpoints[k])}]
      found  == {i \in DOMAIN usable : usable[i] # {}}
  IN  IF found = {} THEN None
      ELSE list[Min(found)].endpoints[Min(usable[Min(found)])].address

\* The first usable endpoint of the first slice with a secure port that has one: ready,
\* with an address that is one.
FirstReady(list) ==
  LET usable == [i \in {j \in DOMAIN list : Secure(list[j])} |->
                   {k \in DOMAIN list[i].endpoints : Usable(list[i].endpoints[k])}]
      found  == {i \in DOMAIN usable : usable[i] # {}}
  IN  IF found = {} THEN None
      ELSE list[Min(found)].endpoints[Min(usable[Min(found)])].address

\* generateKubeconfig names one of the clusters "kubelet-bootstrap" and keeps the others;
\* the override replaces every server.
generateKubeconfig(server, servers, ca) ==
  LET address(s) == IF flags.override = "" THEN s ELSE flags.override
  IN  [server |-> address(server), others |-> {address(s) : s \in servers \ {server}}, ca |-> ca]

-----------------------------------------------------------------------------
(* Workers.                                                                *)

Goto(m, l) == pc' = [pc EXCEPT ![m] = l]

Return(m) ==
  /\ Goto(m, "idle")
  /\ kubeconfig' = [kubeconfig EXCEPT ![m] = None] /\ fetched' = [fetched EXCEPT ![m] = None]

Shared == <<flags, process, settings, objects, edits>>
Error(m) == Return(m) /\ UNCHANGED <<osc, config>>

\* Reconcile finds no OSC, or one to rotate.
StartReconcile(m) ==
  /\ process = "running" /\ pc[m] = "idle"
  /\ osc' = [osc EXCEPT ![m] = None]
  /\ Goto(m, "clusterInfo")
  /\ UNCHANGED <<Shared, config, kubeconfig, fetched, faults>>

\* Whatever is wrong with cluster-info, the endpoint slices are tried; a Get that fails
\* counts as a fault.  A kubeconfig without clusters is a nil cluster, on which the
\* worker panics: an error to the work queue.
getKubeconfigFromConfigMap(m) ==
  /\ pc[m] = "clusterInfo"
  /\ \/ /\ LoadsClusterInfo(info)
        /\ \E s \in info.servers :
             kubeconfig' = [kubeconfig EXCEPT ![m] = generateKubeconfig(s, info.servers, NodesCluster)]
        /\ Goto(m, "credentials") /\ UNCHANGED <<fetched, faults>>
     \/ LoadsClusterInfo(info) /\ info.servers = {} /\ Return(m) /\ UNCHANGED faults
     \/ /\ \/ ~LoadsClusterInfo(info) /\ UNCHANGED faults
           \/ LoadsClusterInfo(info) /\ faults < MaxFaults /\ faults' = faults + 1
        /\ Goto(m, "slices") /\ UNCHANGED <<kubeconfig, fetched>>
  /\ UNCHANGED <<Shared, config, osc>>

buildKubeconfigFromEndpointSlice(m) ==
  /\ pc[m] = "slices"
  /\ LET server == FirstReady(slices)
     IN \/ /\ server # None
           /\ kubeconfig' = [kubeconfig EXCEPT ![m] =
                               generateKubeconfig(server, {server}, settings.caCert)]
           /\ Goto(m, "credentials") /\ UNCHANGED fetched
        \/ server = None /\ Return(m)
  /\ UNCHANGED <<Shared, config, osc, faults>>

\* With a worker cluster the manager's cache is limited to the manager's namespace, and a
\* Get of another fails.
Fetched ==
  IF flags.workerClusterKubeconfig # "" /\ flags.credentialsSecret = "elsewhere"
    THEN None ELSE GetContainerdAuthConfig(secret)

\* Mutant: credentials that were fetched once are not fetched again.
FetchOnce(m) ==
  /\ pc[m] = "credentials"
  /\ \/ /\ flags.credentialsSecret = "" \/ config.registryCredentials # NoLogins
        /\ Goto(m, "token") /\ UNCHANGED <<fetched, kubeconfig>>
     \/ /\ flags.credentialsSecret # "" /\ config.registryCredentials = NoLogins /\ Fetched # None
        /\ fetched' = [fetched EXCEPT ![m] = Fetched]
        /\ Goto(m, "store") /\ UNCHANGED kubeconfig
     \/ /\ flags.credentialsSecret # "" /\ config.registryCredentials = NoLogins /\ Fetched = None
        /\ Return(m)
  /\ UNCHANGED <<Shared, config, osc, faults>>

FetchCredentials(m) ==
  /\ pc[m] = "credentials"
  /\ \/ flags.credentialsSecret = "" /\ Goto(m, "token") /\ UNCHANGED <<fetched, kubeconfig>>
     \/ /\ flags.credentialsSecret # "" /\ Fetched # None
        /\ fetched' = [fetched EXCEPT ![m] = Fetched]
        /\ Goto(m, "store") /\ UNCHANGED kubeconfig
     \/ flags.credentialsSecret # "" /\ Fetched = None /\ Return(m)
  /\ UNCHANGED <<Shared, config, osc, faults>>

\* Mutant: the credentials are added to those that are there.
StoreMerged(m) ==
  /\ pc[m] = "store"
  /\ config' = [config EXCEPT !.registryCredentials = fetched[m] @@ @]
  /\ fetched' = [fetched EXCEPT ![m] = None] /\ Goto(m, "token")
  /\ UNCHANGED <<Shared, osc, kubeconfig, faults>>

\* The write of a map is one word: readers see the old map or the new one.
StoreCredentials(m) ==
  /\ pc[m] = "store"
  /\ config' = [config EXCEPT !.registryCredentials = fetched[m]]
  /\ fetched' = [fetched EXCEPT ![m] = None] /\ Goto(m, "token")
  /\ UNCHANGED <<Shared, osc, kubeconfig, faults>>

ExtractAPIServerToken(m) ==
  /\ pc[m] = "token"
  /\ \/ token /\ Goto(m, "generate") /\ UNCHANGED <<kubeconfig, fetched>>
     \/ ~token /\ Return(m)
  /\ UNCHANGED <<Shared, config, osc, faults>>

\* The OSC: prepareContainerRuntimeConfig, prepareBootstrapConfig, which takes the server
\* for the bootstrap script from any of the clusters, and the files.
Generated(m, cfg) ==
  {[hosts |-> files, auths |-> a, kubeconfig |-> kubeconfig[m], serverURL |-> s,
    caCert |-> settings.caCert, featureGates |-> settings.featureGates] :
     files \in {RegistryHostConfigs(c) : c \in {buildRegistryHostConfigs(cfg)}},
     a \in Config(cfg.registryCredentials),
     s \in {kubeconfig[m].server} \cup kubeconfig[m].others}

\* Mutant: the parameter is stripped from the URLs in the map that the workers share.
CreateStripsShared(m) ==
  /\ pc[m] = "generate"
  /\ \E o \in Generated(m, config) : osc' = [osc EXCEPT ![m] = o]
  /\ config' = [config EXCEPT !.registryMirrors =
                  [n \in DOMAIN @ |-> [i \in DOMAIN @[n] |-> stripKubermaticParam(@[n][i])]]]
  /\ Return(m)
  /\ UNCHANGED <<Shared, faults>>

\* Nobody but its own worker creates or deletes an OSC, so generating and creating it
\* are one step.
CreateOSC(m) ==
  /\ pc[m] = "generate"
  /\ \E o \in Generated(m, config) : osc' = [osc EXCEPT ![m] = o]
  /\ Return(m)
  /\ UNCHANGED <<Shared, config, faults>>

Continue(m) ==
  \/ getKubeconfigFromConfigMap(m) \/ buildKubeconfigFromEndpointSlice(m)
  \/ FetchCredentials(m) \/ StoreCredentials(m) \/ ExtractAPIServerToken(m) \/ CreateOSC(m)

Fail(m) ==
  /\ pc[m] \notin {"idle", "store"} /\ faults < MaxFaults /\ faults' = faults + 1
  /\ Error(m) /\ UNCHANGED Shared

\* The process dies; the next one has read its flags before a worker runs.
Restart ==
  /\ process = "running" /\ faults < MaxFaults /\ faults' = faults + 1
  /\ config' = BuildConfig(flags)
  /\ pc' = [m \in MD |-> "idle"] /\ kubeconfig' = Nothing /\ fetched' = Nothing
  /\ UNCHANGED <<Shared, osc>>

-----------------------------------------------------------------------------
(* Users and the cluster.                                                  *)

Edit ==
  /\ edits < MaxEdits /\ edits' = edits + 1
  /\ \/ /\ secret' \in CredentialSecrets \ {secret} /\ UNCHANGED <<info, slices, token>>
     \/ /\ info' \in ClusterInfos \ {info} /\ UNCHANGED <<secret, slices, token>>
     \/ /\ slices' \in SliceLists \ {slices} /\ UNCHANGED <<secret, info, token>>
     \/ /\ token' = ~token /\ UNCHANGED <<secret, info, slices>>
  /\ UNCHANGED <<flags, process, settings, config, osc, pc, kubeconfig, fetched, faults>>

Next == \/ main \/ Edit \/ Restart
        \/ \E m \in MD : StartReconcile(m) \/ Continue(m) \/ Fail(m)

Spec == Init /\ [][Next]_vars

\* main runs, and so does a worker; without an OSC Reconcile is called again.
FairSpec == /\ Spec /\ WF_vars(main)
            /\ \A m \in MD : WF_vars(Continue(m)) /\ WF_vars(osc[m] = None /\ StartReconcile(m))

-----------------------------------------------------------------------------
(* Properties.                                                             *)

\* What the flags ask for registry n: the mirrors, each with whether its path is an
\* override, from both flags; https where -node-registry-mirrors gives no scheme, and the
\* name does not look like one.
AskedFor(n) ==
  {[url |-> [u EXCEPT !.param = ""], overridePath |-> u.param = "override_path=true"] :
     u \in {e.mirror : e \in {x \in ToSet(flags.containerdMirrors) : x.name = n}}}
  \cup
  {[url |-> [e.mirror EXCEPT !.scheme = IF HasPrefixHTTP(e.mirror) THEN @ ELSE "https", !.param = ""],
    overridePath |-> e.mirror.param = "override_path=true"] :
     e \in {x \in ToSet(flags.registryMirrors) : x.name = n \/ (x.name = None /\ x.mirror # Blank /\ n = DockerIO)}}

AskedInsecure(n) == n \in ToSet(flags.insecureRegistries)
AskedNames == {n \in ToSet(NamesInOrder) : AskedFor(n) # {} \/ AskedInsecure(n)}

\* A hosts.toml that gives registry n what the flags ask for it, and nothing else.
Serves(file, n) ==
  LET asked == AskedFor(n) IN
  /\ file.server = Server(n)
  /\ \A u \in DOMAIN file.host : file.host[u].skipVerify = AskedInsecure(n)
  /\ IF asked = {} THEN DOMAIN file.host = {Server(n)}
     ELSE {[url |-> u, overridePath |-> file.host[u].overridePath] : u \in DOMAIN file.host} = asked

\* Every OSC, and not only the first that a process makes, has for each registry named
\* in the flags a hosts.toml with exactly the mirrors, override_path and skip_verify asked
\* for it; where several names fall into one directory, for one of them.  There is no
\* other file but that of docker.io.
RegistriesServed ==
  [][\A m \in MD : osc[m] = None /\ osc'[m] # None =>
       LET files == osc'[m].hosts
           names == AskedNames
       IN  /\ DOMAIN files = {Directory(n) : n \in names \cup {DockerIO}}
           /\ \A d \in {Directory(n) : n \in names} :
                \E n \in names : Directory(n) = d /\ Serves(files[d], n)]_vars

\* The workers share one credentials map.  Whatever they fetch and store between each
\* other's steps, the logins in an OSC are those of one content of the secret, of which
\* none is missing and to which none of another content is added.
CredentialsOfOneVersion ==
  \A m \in MD : osc[m] # None =>
    osc[m].auths \in Config(NoLogins) \cup UNION {Config(s.auths) : s \in CredentialSecrets}

\* A worker may store credentials that it fetched before the secret changed, over newer
\* ones and just before another worker reads them.  That ends: once the secret is left
\* alone, OSCs come to be made with its logins only.
CredentialsSettle ==
  <>[][\A m \in MD : flags.credentialsSecret # "" /\ osc[m] = None /\ osc'[m] # None
                     => osc'[m].auths \in Config(secret.auths)]_vars

\* The CA in an OSC is the bundle from the flags or else that of the cluster in which the
\* nodes, and the endpoints, are; and unless cluster-info lists several clusters, the
\* bootstrap script and the kubelet use the same server, the override if there is one.
JoinsItsCluster ==
  \A m \in MD : osc[m] # None =>
    LET cluster == osc[m].kubeconfig IN
    /\ osc[m].caCert = IF flags.kubernetesCABundle # "" THEN "bundle" ELSE NodesCluster
    /\ cluster.ca \in {NodesCluster, osc[m].caCert}
    /\ cluster.others = {} => osc[m].serverURL = cluster.server
    /\ flags.override # "" => {osc[m].serverURL, cluster.server} = {flags.override}

\* Some endpoint of the cluster can be reached.
Reachable ==
  \E i \in DOMAIN slices : Secure(slices[i]) /\ \E e \in ToSet(slices[i].endpoints) : Usable(e)

Ready ==
  /\ process = "running" /\ token
  /\ flags.credentialsSecret = "" \/ Fetched # None
  /\ \/ LoadsClusterInfo(info) /\ info.servers # {}
     \/ ~LoadsClusterInfo(info) /\ Reachable

\* As soon as what they are made from is there for good, OSCs are made: cluster-info
\* missing or broken is no obstacle where any secure endpoint is ready, and a worker
\* that failed before is not stuck.
Provisioned == <>[]Ready => \A m \in MD : []<>(osc[m] # None)
=============================================================================
