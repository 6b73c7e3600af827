# A TLA+ model of the operating-system-manager

The operating-system-manager (OSM) turns a machine-controller `MachineDeployment` (MD) and an
`OperatingSystemProfile` (OSP) into what a node is started with: an `OperatingSystemConfig` (OSC), a
*provisioning* and a *bootstrap* cloud-config secret rendered from it, and a kubelet bootstrap
kubeconfig secret with a bootstrap token. This directory holds TLA+ modules translated from the code,
TLC configurations that check them on small instances, and TLAPS proofs. `PROJECT.json` maps every
definition to the lines it models.

## The system

| component | state it keeps | operations | what makes it correct |
|---|---|---|---|
| OSC controller, `pkg/controllers/osc/osc_controller.go` | per MD: OSC, two cloud-config secrets, kubelet kubeconfig, finalizer and rotation annotations; its work queue; the shared container runtime configuration | `Reconcile`: add finalizer, fetch and check the OSP, rotate, create, clean up | nothing outlives the finalizer; what nodes use belongs together and to the present MD and OSP; rotation and cleanup end |
| bootstrap manager, `pkg/bootstrap/kubeconfig.go` | the bootstrap token secrets of a key, the kubelet kubeconfig secret | `CreateBootstrapKubeconfig`: find, extend or create a token; create or update the kubeconfig | the token handed out is valid, there is one, and it is the one in the kubeconfig |
| OSP controller, `pkg/controllers/osp/osp_controller.go` | the default OSPs | create the missing, replace those of another version | defaults come back; no OSP changes under its version |
| OSP webhook, `pkg/admission/operatingsystemprofile` | none | admit create, update, delete | a spec changes only with its version; units only for Flatcar |
| MD webhook, `pkg/admission/machinedeployment` | none | put the default OSP's name into the annotation | an MD that reaches the controller names an OSP |
| OSC webhook, `pkg/admission/operatingsystemconfig` | none | admit create, update | an OSC is immutable |
| OSC generation, `pkg/controllers/osc/resources` | none (pure) | select files and templates, defaults, kubelet configuration from annotations | what can be generated as an OSC can be rendered as a secret |
| user-data generator, `pkg/generator` | none (pure) | cloud-init or Ignition from the OSC | the format is the one that the OS reads |
| container runtime, `pkg/containerruntime` | the configuration built from the flags, with registry credentials that workers store in it; shared by the workers | `hosts.toml` files and registry credentials | each registry's settings arrive, in every OSC that a process makes; credentials of two versions are not mixed |
| cluster info, `pkg/clusterinfo` | none (reads) | kubeconfig from the `cluster-info` ConfigMap, or from endpoints | there is a kubeconfig as long as the cluster has a usable endpoint, and it is for the cluster that nodes join |
| cloud provider configuration, `pkg/cloudprovider` | none | choose and render the in-tree configuration | |
| wiring, `cmd/osm-controller/main.go` | flags, clients, caches, leader election | refuse bad flags, choose kubeconfig and CA, which client serves which read | nodes get the CA of their cluster |

The components meet in the API server: the OSC controller reads MDs (through the worker cluster's
client), OSPs, OSCs and secrets, and writes OSCs, secrets and the MD's finalizer. Users edit MDs and
OSPs, the machine-controller counts templates in the MD's revision annotation and starts machines once
the bootstrap secret is there, the OSP controller writes OSPs, kube-controller-manager deletes expired
tokens. Reads come from informer caches or directly from the API server, depending on the deployment:
in one cluster everything is cached; with a separate worker cluster (`cmd/osm-controller/main.go`)
MDs and secrets are read without a cache.

**What is hard.** `Reconcile` is some fifteen calls without a transaction; any of them can fail, and the
process can die between two. What it reads may be old. The MD changes while it runs, and the revision
annotation it compares is written by somebody else, later than the template. What is left of a run that
stopped halfway has to tell the next one what to do. Tokens expire while they are handled. The list of
hazards, each at its line, is in `PROJECT.json`.

## The modules

### `OSCReconciler`

The OSC controller. `StartReconcile` .. `CreateSecret` are the calls of `Reconcile` in their order; a
program counter per MD says which one is next, because the work queue never gives one key to two
workers. `cur`, `curOSP` and `src` are the local variables: the MD as it was read, the version of the OSP
as it was read, the OSC that `reconcileSecrets` read back.

| `Reconcile` | actions |
|---|---|
| Get the MD, deletion and finalizer conditions | `StartReconcile` |
| `AddFinalizer` (Update under optimistic locking) | `AddFinalizer` |
| Get the OSP, `checkOSP` | `fetchOSP` |
| `handleOSCAndSecretsRotation` | `CheckRotation`, `RotateOSC`, `DeleteProvisioning`, `DeleteBootstrap`, `DeleteKubelet` |
| `reconcileOperatingSystemConfigs` | `CreateBootstrapKubeconfig`, `CheckOSC`, `generateEdgeScript`, `CreateOSC` |
| `reconcileSecrets`, `ensureCloudConfigSecret` | `ReadBackOSC`, `CheckSecret`, `CreateSecret` |
| `handleMachineDeploymentCleanup` | `deleteOperatingSystemConfig`, `Delete...`, `RemoveFinalizer` |

Around it: `Fail` (any call fails; a lost answer is the call followed by `Fail`), `Restart` (crash, or
another leader), `Sync...` (an informer catches up), `Resync`, `BumpRevision` (machine-controller),
`OtherFinalizersDone`, and users creating, editing, switching the OSP of and deleting MDs and publishing
OSP versions. `CachedReads` says which kinds of objects are read from a cache. A view is any earlier state
of the object, never older than the view before.

What data became: a template is the resourceVersion that wrote it; the annotation hash is the pair of the
annotations that change here, revision and OSP name; an OSC is its rotation annotations (`stamp`) and the
template it was generated from; a secret is its own stamp and the OSC it was rendered from. Whether an MD
is for the edge provider is fixed when it is created. OSPs are published and changed but not deleted here
(module `OSPController` has that). `RejectedOSPs` and `UngeneratableOSPs` are the OSPs that `checkOSP`
refuses and those for which `GenerateOperatingSystemConfig` fails.

### `ConfigLifecycle`

The contract, without any of the mechanism: an owner is guarded by the finalizer before it holds anything
and until it holds nothing; the kubelet kubeconfig is first in and last out; the bootstrap secret comes
only when the provisioning secret is there. `OSCReconciler!ImplementsLifecycle` states the refinement, with
`guarded` = the MDs that exist and carry the finalizer and `held` = the objects that exist for each: the OSC, the two
cloud-config secrets and the kubelet kubeconfig. The edge script secret is state of `OSCReconciler` (`script`) but not
among these, since no cleanup knows of it (finding 4).

### `OSCSync`

`OSCReconciler` with a history variable. `doubt[m]` collects what has gone wrong for an MD since it was last without OSC
and cloud-config secrets: `"stale"`, a Get was answered with an OSC of the past and Reconcile went on with it; `"missed"`,
a Get showed a cloud-config secret that was deleted; `"torn"`, a rotation or a cleanup ended between the Delete of the OSC
and that of the second secret. It restricts no behaviour. What findings 1 and 3 break in general is stated for MDs
without the doubt in question, in every deployment and with failed calls and crashes everywhere else.

### `Bootstrap`

One key's bootstrap token. A call of `CreateBootstrapKubeconfig` is a sequence of API calls; around it
time passes (in quarters of an hour, as what each token has left), the token cleaner deletes expired
tokens, the cache lags, calls fail, and a rotation deletes the kubeconfig secret between two calls. Both
modes, token secrets and the service account's token, and both clients, caching or not, are initial
states of one specification. Seen from `OSCReconciler` all of this is one step that creates the kubeconfig
secret, leaves it or fails.

### `OSPController`

Default OSPs with the webhook in front of every write. An OSP is its version and the rest of its spec. A
release ships its OSPs under its own version; `Deploy` rolls a release out or back. Users create, update
and delete OSPs, with any version the webhook admits.

### `OperatingSystemManager`

`OSPController` extended with the consumer of OSPs: for each OSP an MD whose OSC was generated from it. Both controllers
run in one manager and read OSPs from the same cache (`view`). Of the OSC controller there is what depends on the OSP:
`fetchOSP` (read once, used for the rest of the Reconcile), the comparison of versions, the rotation and the Create; the
rest is in `OSCReconciler`. `retired` is a history variable with the profiles an OSP had before it was deleted or its
version changed; it only serves to state `VersionsSuffice` and `FollowsProfile`.

### `ContainerRuntime`

Pure operators, named after the functions of `pkg/containerruntime`: the two mirror flags and the list of insecure
registries to one configuration (`BuildConfig`), the configuration to `hosts.toml` files by directory
(`buildRegistryHostConfigs`, `RegistryHostConfigs`), a credentials secret to authentication entries (`Config`). A registry
or a mirror is a record of what the code tells apart: scheme, host with port, path and the parameter `kubermatic`.
`NamesInOrder` stands for `sort.Strings`, `PlainNames` for the names that the regular expression of
`-node-registry-mirrors` accepts. Where Go iterates over a map and the order matters, the operator is the set of results.

### `Workers`

The process. `main` validates the flags, exits or builds what all workers share; a worker then makes an OSC from there
being none: kubeconfig from `cluster-info` (`getKubeconfigFromConfigMap`) or, after any error, from the endpoint slices
(`buildKubeconfigFromEndpointSlice`), fetch the registry credentials, store them in the shared configuration, fetch the
token, generate and create. With a worker cluster the cache that serves the credentials secret is limited to the
manager's namespace, so that a secret elsewhere is never found (`Fetched`). A kubeconfig file has its CA as data, or is
`unusable`: `GetCACert` fails. Fetching and storing are two actions, because another worker can run in between. The store is
one word in memory: a reader sees one map or the other. Certificates and kubeconfigs are the name of their cluster; an
OSC is its registry files, logins, kubeconfig, server for the bootstrap script, CA and feature gates. A `cluster-info`
kubeconfig without clusters is an error of the Reconcile (the worker panics and controller-runtime recovers).

### `Generation`

What `OSCReconciler` leaves out: the data. A user's MD goes through the mutation webhook
(`MutateMachineDeployment`), `Reconcile` checks the OSP (`validateMachineDeployment`), rotates, generates the OSC
(`GenerateOperatingSystemConfig`, with every way it can fail), and renders two secrets from the OSC **and** from the
MD's present template (`Generate`). The Deletes of a rotation are a step each (`RotateOSC`, `DeleteProvisioning`,
`DeleteBootstrap`), any of which may fail, and OSCs are read from a lagging cache (`oscView`), as in every deployment;
secrets are read from the API server, as with a worker cluster. In between users edit the MD, its annotations and the OSC
(through its webhook), the machine-controller counts templates, and calls fail. `doubt` is a history variable: since a
rotation last got through, one was cut short, or `reconcileSecrets` read back an OSC of the past. A template is its operating system, provider,
provisioning utility, SSH keys, kubelet version, upgrade on boot, RHEL subscription and whether it asks for a static
address; user data is its format, keys, host name, subscription, upgrade and files. A file has a path, permissions (a
number whose digits are meant in base 8), an encoding and data, which stands for what the template makes; `fileSpec` is
what the user data says of it, with base64, the leading zero in front of three digits and the YAML block of the content,
and `OnNode` is what the node reads: cloud-init strips all newlines at the end of a content that is not base64, Ignition
clips them to one. `/etc/machine-name` is the field `hostname`. Units are copied and left out, but for `transpiles`: for
which of the two secrets the Ignition transpiler has nothing to report on files and units. `operatingSystemSpec` is taken
to decode. Nobody deletes the OSC by hand.

### `MCGeneration`, `MCWorkers`

Templates, annotations and profiles for `Generation`; command lines,
secrets, `cluster-info` and endpoint slices for `Workers`.

### `...Proofs`

The theorems: `OSCReconcilerProofs`, `OSCLifecycleProofs` and `OSCSyncProofs` (each extends the one before) about
`OSCReconciler` and `OSCSync`, then one module each for `Bootstrap`, `OperatingSystemManager` (`ManagerProofs`), `Workers` and
`Generation`.

## The runs

| run | shows |
|---|---|
| `osc_management_worker` | OSPs and OSCs from a lagging cache, MDs and secrets not: finalizer, order (refinement of `ConfigLifecycle`), no half-provisioned MD forgotten, every MD gets its objects, with an OSC that is current, and cleanups end; without doubt, stamps tell the truth, a successful Reconcile leaves OSC and secrets in step with what it read, and the secrets converge |
| `osc_single_cluster` | every read cached, edge MDs too: no OSC, cloud-config or kubeconfig secret outlives the finalizer; configurations become complete and cleanups end although Gets show objects that were just deleted; without doubt, a successful Reconcile leaves everything in step and secrets converge |
| `bootstrap_token` | the token returned is alive, is unique, is in the kubeconfig; duplicates heal |
| `generation` | without doubt, the two secrets belong to the OSC, bring the files of one profile to the node as they were meant, and a fitting MD gets its user data; an OSC that is current can be rendered, unless the transpiler refuses its files; the webhook's default fits where a default can |
| `manager` | no default OSP stays missing or older than the release, nothing changes under its version, an OSC with its OSP's version has its content and OSCs follow their OSPs, unless a version is reissued |
| `workers` | every OSC has the registries that the flags ask for, logins of one content of the secret (in the end the present one), CA and server of the nodes' cluster; OSCs are made whenever what they need is there |
| `osc_partial_rotation`, `osc_edge_rotation`, `osc_stale_rotation`, `osc_edge_cleanup`, `bootstrap_failed_call`, `osp_downgrade` | the findings below |

`EventuallyComplete` says that the objects exist and that the OSC is the current one, for MDs whose OSP can be used; that
the secrets are rendered from this OSC is `Converges`. `DefaultsRestored` says nothing of an OSP that is newer than the
release: the code replaces it, a comment says that it does not (finding 6).

**Bounds.** One MD: two MDs share nothing in the model but OSPs, which neither writes, and the proofs
cover any number. Two OSPs where one is unusable, so that rotation into an unusable OSP, and out of it,
happens. `MaxEdits` 3 and `MaxFaults` 1: create, change, delete (or create, publish, change) with one
failure or crash at any point, which is what every counterexample below needs; the theorems have no
bound. `Bootstrap`: a life of four ticks with a threshold at two, and three token ids, so that an old token
in the kubeconfig, a current one and a duplicate coexist; at most one tick within a call. `OSPController`
and `OperatingSystemManager`: two releases, a default and a custom name, four edits, so that an OSP can be created,
changed, deleted and created again, or changed between two roll-outs. `osc_single_cluster` has two edits: create, and
change or delete. `Generation`: nine templates and seven profiles (two of them by default only), of which three are a
user's, so that each reason to refuse occurs (one is refused by the transpiler, for the bootstrap secret only); two edits,
create and change, before, in the middle of or after the first Reconcile, which is at most one rotation; two failed calls, so that one that
cuts a rotation short is followed by another. `Workers`: two workers, since what one can
see of the others is the shared configuration; two contents of the secret and an unreadable one; one edit and one fault;
eight command lines, of which one has mirrors from both flags, a wildcard, two names in one directory and insecure
registries, one names a credentials secret in another namespace, and five are refused. The systems may stop when nobody
wants anything of them, so deadlock is checked only for `Bootstrap`, where time never stops.

**Fairness.** Weak fairness of a worker's next call (the work queue retries after errors and the workers
run), of the informers, of the manager's periodic resync, of the machine-controller's revision annotation,
of time and the token cleaner; in `Workers`, that Reconcile is called again while there is no OSC (the work queue
repeats a Reconcile that failed), and no more than that for one that rotates. Users and operators owe nothing, and no call has to fail. Failures are
bounded, so liveness says what happens once they stop.

**Every property has a mutant**: a definition with a plausible bug under which TLC finds the property
violated. The mutants stand in the modules next to what they are mutants of.

## Findings

Each is a violation run; TLC's trace is the scenario.

1. `osc_partial_rotation`: `handleOSCAndSecretsRotation` deletes the OSC first and decides by the OSC. When a
   later Delete fails, the next Reconcile finds no OSC, makes a new one and keeps the old secrets for good.
2. `osc_edge_rotation`: `generateEdgeScript` always Creates the script secret and nothing deletes it, so the
   first rotation of an edge MD deletes its configuration and then fails on every retry.
3. `osc_stale_rotation`: after the rotation's deletes the OSC is read through the cache, which may still show
   the deleted one; the new secrets are rendered from it and stamped as current.
4. `osc_edge_cleanup`: the finalizer stands for the deletion of what the controller created; the edge script secret
   is left behind, and an MD created again under the name fails at its Create.
5. `bootstrap_failed_call`: a call that fails between creating a token and updating the kubeconfig leaves the
   expired token in it, and every later call returns early.
6. `osp_downgrade`: the comment says that only a newer OSP replaces one, the code compares with `!=`.

Properties that these would break are stated, in the passing runs, with the condition under which the code keeps them, and
with no other:

| property | finding | condition |
|---|---|---|
| `StampTruthful` | 3 | no `"stale"` in `doubt` |
| `SuccessMeansInSync`, `Converges` | 1, 3 | `doubt` is empty; for `Converges`, no edge MD (2) |
| `SecretsOfOSC`, `Delivered`, `FilesArrive` (that both secrets have the files of one profile) | 1, 3 | no `doubt` |
| `Protected`, `ConfigBacked`, `ImplementsLifecycle`, `CleanupCompletes` | 4 | about the OSC and three secrets, not the edge script |
| `EventuallyComplete` | 2 | no edge MD |
| `KubeletCarriesToken` | 5 | no failed call and no cache |
| `DefaultsRestored` | 6 | not of a newer OSP |

What the models show besides, without a text of the repository that promises otherwise:

- An OSC is compared with its OSP by version only, and the webhook compares an update only with what it replaces. An OSP
  that is deleted and created again, or goes to another version and back, with a version it had before and another
  content, never reaches the MDs that have an OSC of that version (`Reissued`, the condition of `VersionsSuffice` and
  `FollowsProfile`).
- A user's OSP with the name of a default and the version of the next release is kept by that release.
- Registry names that differ only behind the first `/` share a directory, and the last in order wins. An element of
  `-node-registry-mirrors` whose name has a port or a wildcard becomes a mirror of docker.io. An insecure `*` without
  mirrors gets a host entry without a name.
- Two keys of a credentials secret with the same host: map iteration decides, per OSC. A change of the secret rotates
  nothing; it reaches the OSCs made after it, and a worker may still use what another fetched before.
- Several clusters in `cluster-info` are not refused, although a comment in `generateKubeconfig` expects it; an OSC is made,
  and the kubelet and the bootstrap script may use different ones (`JoinsItsCluster` is about the server where there is one
  cluster).
- Nothing checks a profile for what the Ignition transpiler refuses. Its OSC is created, and the rendering of its secrets
  fails on every retry (`Renderable` names this case; the profile `refused` of `MCGeneration` reaches it).
- With a worker cluster, a credentials secret in another namespace than the manager's can never be read.
- An OSP that `checkOSP` refuses stops Reconcile before the rotation; a rotation into one that it accepts and the generation
  refuses takes the old configuration away before it fails.
- Ignition reads permissions of other than three digits in base 10; an encoding `base64`, which a comment in the API types
  gives as example, is declared to cloud-init but, other than `b64`, not applied. `FilesArrive` is for profiles without
  these (`Octal`; the type of `File`).

## The proofs

Every theorem holds for all sets of MDs, OSPs, tokens, workers, templates and profiles and for all bounds on edits and
failures, from the assumptions on the constants, which TLC evaluates in every run (the constants have their types; `None`
is none of the objects), and from what its row names. All safety properties that the passing runs check are proved except
`RegistriesServed`.

| theorem | shows | further hypothesis |
|---|---|---|
| `TypeCorrect` | `Spec => []TypeOK` | |
| `ProtectedAlways` | `Spec => []Protected` | |
| `ConfigBackedAlways` | `Spec => []ConfigBacked` | secrets not cached |
| `NodeCanProvisionAlways` | `Spec => []NodeCanProvision` | secrets and MDs not cached |
| `LifecycleImplemented` | `Spec => ImplementsLifecycle` | secrets not cached |
| `StampTruthfulAlways` | `HSpec => []StampTruthful` | |
| `SuccessMeansInSyncAlways` | `HSpec => SuccessMeansInSync` | |
| `AtMostOneTokenAlways`, `ReturnedTokenLiveAlways`, `KubeletCarriesTokenAlways` | the safety properties of `Bootstrap` | |
| `VersionsSufficeAlways`, `NoChangeUnderVersionAlways` | the safety properties of `OperatingSystemManager` | |
| `CredentialsOfOneVersionAlways`, `JoinsItsClusterAlways` | the invariants of `Workers` | |
| `SecretsOfOSCAlways`, `RenderableAlways` | invariants of `Generation` | |
| `FilesArriveAlways` | `Spec => []FilesArrive` | `Octal`: permissions for Ignition have three digits or are not given |
| `DefaultFitsAlways` | `Spec => DefaultFits` | `AsShipped`: the default profiles are for the OS, utility and provider that `deploy/osps/default` gives them |

**The hypotheses.** With a separate worker cluster `main` gives the controller a client without a cache for MDs and
secrets, and the manager's caching client for OSPs and OSCs: `ConfigBacked`, `NodeCanProvision` and the refinement are
proved for that deployment, whatever the caches of OSPs and OSCs show. In a single cluster they do not hold: after a
rotation the cache may still show the deleted kubeconfig secret, and Reconcile goes on without one until the next event or
resync (TLC finds this with the constants of `osc_single_cluster`). `StampTruthful` and `SuccessMeansInSync` are proved for
every deployment: their condition is on what happened to the MD (`doubt`), not on the caches, so that the theorems say
that the stale Get of finding 3, a secret that a stale Get shows and the interrupted rotation of finding 1 are the only
causes of secrets that do not belong to their OSC. Likewise the theorems about `Generation`. `KubeletCarriesToken` is stated
for as long as no call has failed, since finding 5 begins with one. The instance that TLC checks satisfies `Octal` and `AsShipped` (an `ASSUME` of `MCGeneration`).

### `OSCReconciler`

- `TypeCorrect`: inductive part `TypeInv`. Besides the types, an MD that exists names an OSP, a worker in the middle of
  Reconcile holds an MD that exists, and one that renders secrets holds an OSC.
- `ProtectedAlways`: no object is ever left without the finalizer that gets it deleted. `Protected` is not inductive,
  since the worker acts on an old copy of the MD. `GuardInv` adds, for each MD,
  - `Versions`: copies age in one direction; the worker's copy and the cache are not newer than the object, and
    equal to it when they have its resourceVersion;
  - `Trusted`: a copy that shows the finalizer on an MD that is not being deleted can be trusted, however
    old, because the finalizer is removed only by a worker that saw the deletion, and never before it;
  - `Progress`: at each program counter of the cleanup, what has been deleted so far is still gone;
  - `Owned`: `Protected` for this MD.

  One lemma says that a step for one MD leaves the others alone, one treats the MD's own steps, one for each action, one
  the environment's. The other two modules divide their proofs in the same way.
- `ConfigBackedAlways`: `Backed` adds what the worker relies on: the kubeconfig secret, from when it found or made it to the
  end of Reconcile, and the provisioning secret, when it comes to the bootstrap secret. By `Progress` the kubeconfig is
  deleted only when nothing else is left.
- `NodeCanProvisionAlways`: `Attended` says that an MD with a bootstrap secret and no provisioning secret is being worked on
  or is in the queue. An error keeps it there, a restart lists the MD, which exists by `Protected`, and a Reconcile that
  starts over sees it: this is where the MD must not come from a cache, which could show none.
- `LifecycleImplemented`: a lemma for each abstract step in terms of `Guarded` and `Present` (`GuardStep`, `AcquireStep`,
  `ReleaseStep`, `UnguardStep`, `StutterStep`), then a case for each action, whose preconditions come from `GuardInv` and
  `Backed`.
- `StampTruthfulAlways`: the annotations come from what Reconcile read at its start, the content from an OSC read later.
  `Stamped` says that after `CheckRotation` an OSC that exists has the annotations the worker will write, because it was
  compared or is the worker's own. `StampInv` is this for every MD without the doubt `"stale"`. A step that sets no doubt
  keeps it by one lemma for each action; a step that takes doubt away starts from `Blank`, where there is nothing to be
  wrong (`BlankInSync`).
- `SuccessMeansInSyncAlways`: `Consistent` says that both secrets come from the OSC there is, except between the Deletes of a
  rotation or a cleanup. `SyncInv`, that it holds for every MD without doubt, is kept by the same argument; the case of a
  failure between the Deletes is closed because that sets `"torn"`, which is finding 1 seen from the proof.

### `Bootstrap`

`Inv` adds to the types `NoLonger` (neither the cache nor what the call has listed shows a token with more time than it has
left, and a token that the call has decided on has two quarters of an hour left, or one after a tick), `Alone`
(without a cache there is at most one token, and none where the call is about to create one), `Undisturbed` (the kubeconfig
secret is as the call has read it) and `Carried` (without a cache and failures the kubeconfig has the token there is, except
between the creation of a token and the write of the secret).

### `OperatingSystemManager`

`VersionsSuffice` follows from `Known`: what the cache shows, a worker has read or an OSC was made of is the OSP as it is
or one that is retired. That is inductive because no write changes an OSP under its version, and every other change
retires the old one.

### `Workers`

`Inv` follows the values from the flags to the OSC: `Started` (what `main` leaves in `settings` and `config`, and what the
workers store there: the logins of one content), `Prepared` (so are those that a worker has fetched, and its kubeconfig
leads to the nodes' cluster) and `Delivered` (so does every OSC).

### `Generation`

`OneTemplate` says that a revision, once counted, has one template, so that an OSC with the stamp of the MD was made for the
template that is there; `Each`, that every secret is `UserData` of some OSC that was generated, in its utility, for some
template; `Together`, that without doubt it is that of the present OSC, as is the OSC that a worker renders from. `Each`
survives findings 1 and 3 and gives the part of `FilesArrive` that has no condition; `Together` holds again as soon as a
rotation gets through its Deletes. `Renderable` needs only `OneTemplate`. The lemma
`Deduplicated`, that `deduplicateSSHKeys` returns each text that is not empty once, for lists of any length, is what a loop
invariant would show. Induction over the list is out of the prover's reach, so the operator is defined by the positions at
which texts are first seen and their ranks, and the lemma goes by well-ordering of the positions and the bijection between
them and their ranks. `DefaultFitsAlways` rests on `OnlyTheDefault`: no default profile but the chosen one can fit.

### Model-checked only

- Liveness, which the prover does not do: `EventuallyComplete`, `CleanupCompletes`, `Converges`, `DuplicateHeals`,
  `DefaultsRestored`, `FollowsProfile`, `CredentialsSettle`, `Provisioned`, `Delivered`.
- `RegistriesServed`: what the folds over the flags (`Set`, `Mirrors`) compute for lists of any length needs induction.

## Not modelled

- **Names.** OSCs, secrets and tokens are named by joining the MD's namespace and name with `-`, so that two MDs can share
  them (`a-b`/`c` and `a`/`b-c`; and, with the fallback at 63 characters, any two with one name). The models assume that the
  names of different MDs differ.
- **Text.** What text/template makes of files, systemd units, cloud-provider formats (`pkg/cloudprovider/*`), the edge
  script, kubelet settings, the fixed parts of containerd's configuration.
- **Decoding.** `pkg/providerconfig` decodes JSON with defaults; the decisions that follow from it are in `Generation`.
- **The Ignition transpiler** is a library: which files and units it refuses is a field of the profile (`transpiles`); that a
  key listed twice is refused is modelled.
- **Kubeconfig files that name a CA file** instead of having its data. `GetCACert` then returns an empty CA without an error.
- **No state of their own:** utilities, logging, metrics, the webhook server's registration of its handlers, generated
  deep copies, build files, e2e tests.

Each is listed in `PROJECT.json` with its reason.

## Plan

Done: 1 `OSCReconciler` with `ConfigLifecycle`, 2 `Bootstrap`, 3 `OSPController`, 4 `Generation` with files, 5 proofs of
types and `Protected`, 6 `ContainerRuntime` and `Workers` with the kubeconfig provider and flags, 7
`OperatingSystemManager`, 8 proofs of the safety properties of all components and of the refinement, 9 `OSCSync` and the
rotation of `Generation` call by call, with their proofs for every deployment.

Next: `RegistriesServed` without its folds, that is, from a configuration to the files of an OSC (`buildRegistryHostConfigs`
and `RegistryHostConfigs`, which have none), and that the shared configuration keeps its mirrors whatever the workers do;
what remains true of `ConfigBacked` when secrets are cached.
