----------------------------- MODULE Generation -----------------------------
(***************************************************************************)
(* From a MachineDeployment to the user data of its nodes: the mutation    *)
(* webhook that names a default OSP                                        *)
(* (pkg/admission/machinedeployment/mutation), the checks on the OSP and   *)
(* the generation of the OSC (pkg/controllers/osc, .../osc/resources), the *)
(* webhook in front of OSCs (pkg/admission/operatingsystemconfig) and the  *)
(* rendering of the two cloud-config secrets (pkg/generator).              *)
(*                                                                         *)
(* Module OSCReconciler has the calls of Reconcile one by one and leaves   *)
(* the data out; here is the data, for one MachineDeployment.  Reconcile   *)
(* keeps its calls on the OSC and the two secrets; OSCs are read from a    *)
(* cache, secrets from the API server, as with a separate worker cluster.  *)
(***************************************************************************)
EXTENDS Naturals, Sequences, FiniteSets, SequencesExt

CONSTANTS
  None,
  Templates,              \* machine templates that users write (a bound)
  Annotations,            \* annotations that users write (a bound)
  Profiles,               \* the OSPs: name -> profile
  RegistryHosts,          \* the paths of the hosts.toml files (module ContainerRuntime)
  ExternalCloudProvider,  \* the flag -external-cloud-provider
  MaxEdits,               \* bound: what users do
  MaxFaults               \* bound: calls that fail

OperatingSystems == {"ubuntu", "flatcar", "amzn2", "rockylinux", "rhel"}
Utilities        == {"ignition", "cloud-init"}
SecretKinds      == {"provisioning", "bootstrap"}

\* Providers GetCloudConfig knows; the CRD also admits "fake" and "external".
KnownProviders ==
  {"aws", "azure", "gce", "kubevirt", "openstack", "vsphere", "alibaba", "anexia",
   "digitalocean", "hetzner", "linode", "scaleway", "nutanix", "vmware-cloud-director",
   "opennebula", "edge", "baremetal"}

\* A key as it stands in the template: white space around a text, or nothing but that.
SSHKey == [text : STRING, padded : BOOLEAN]

\* No template here overwrites the cloud-config.  "subscription": of RHEL.
Template == [os : STRING, provider : STRING, utility : STRING, keys : Seq(SSHKey),
             kubelet : {"invalid", "pre-1.29", "1.29"}, static : BOOLEAN,
             distUpgradeOnBoot : BOOLEAN, subscription : STRING]

\* "kubelet": do the annotations with kubelet settings parse?
Annotation == [osp : DOMAIN Profiles \cup {None}, kubelet : BOOLEAN]

\* The digits of permissions are written, and meant, in base 8; 0: none given.  "newlines":
\* how many the content ends with.
File == [path : STRING, permissions : Nat, encoding : {"", "b64"}, data : STRING, newlines : Nat]

\* The CRD lets no OSP be without a utility.  "renders": text/template accepts the files
\* and templates of the profile.  "transpiles": the secrets with files and units that the
\* transpiler for Ignition reports nothing on.  "files" has those for the container
\* runtime, too.
Profile == [os : OperatingSystems, providers : SUBSET STRING, utility : Utilities,
            renders : BOOLEAN, transpiles : SUBSET SecretKinds,
            files : [SecretKinds -> Seq(File)]]

ASSUME GenerationAssumption ==
  /\ \A t \in Templates : t \in Template
  /\ \A a \in Annotations : a \in Annotation
  /\ \A p \in DOMAIN Profiles : Profiles[p] \in Profile
  /\ RegistryHosts \in Seq(STRING)
  /\ ExternalCloudProvider \in BOOLEAN /\ MaxEdits \in Nat /\ MaxFaults \in Nat

-----------------------------------------------------------------------------
(* Decisions on a template.                                                *)

GetProvisioningUtility(os, t) ==
  CASE os # "flatcar"                      -> "cloud-init"
    [] os = "flatcar" /\ t.utility = ""    -> "ignition"
    [] os = "flatcar" /\ t.utility # ""    -> t.utility

ospName == [ubuntu |-> "osp-ubuntu", flatcar |-> "osp-flatcar", amzn2 |-> "osp-amzn2",
            rockylinux |-> "osp-rockylinux", rhel |-> "osp-rhel"]

CloudInitOnAnexia(t) ==
  /\ t.provider = "anexia" /\ t.os = "flatcar"
  /\ GetProvisioningUtility(t.os, t) = "cloud-init"

\* Mutant: the profile for Flatcar with cloud-init is not considered.
MutateByOSOnly(t, a) ==
  CASE a # None                              -> a
    [] a = None /\ t.os \in OperatingSystems -> ospName[t.os]
    [] OTHER                                 -> None

\* The OSP annotation an object is stored with; None: the request is refused.
MutateMachineDeployment(t, a) ==
  CASE a # None                                                    -> a
    [] a = None /\ CloudInitOnAnexia(t)                            -> "osp-flatcar-cloud-init"
    [] a = None /\ ~CloudInitOnAnexia(t) /\ t.os \in OperatingSystems -> ospName[t.os]
    [] OTHER                                                       -> None

validateMachineDeployment(t, p) == p.os = t.os /\ t.provider \in p.providers

\* GetCloudConfig fails for a provider it does not know.
GetCloudConfigSucceeds(t) ==
  ExternalCloudProvider \/ t.kubelet = "1.29" \/ t.provider \in KnownProviders

formatKubeletVersionSucceeds(t) == t.kubelet # "invalid"
getKubeletConfigsSucceeds(o)    == o.kubelet
renderOSPFilesSucceeds(p)       == p.renders

setOperatingSystemConfigSucceeds(t) == t.os \in OperatingSystems

buildFilesDataSucceeds(t) ==
  (t.static => t.os = "flatcar") /\ setOperatingSystemConfigSucceeds(t)

GenerationSucceeds(o, p) ==
  /\ getKubeletConfigsSucceeds(o) /\ GetCloudConfigSucceeds(o.tmpl)
  /\ formatKubeletVersionSucceeds(o.tmpl) /\ buildFilesDataSucceeds(o.tmpl)
  /\ renderOSPFilesSucceeds(p)

\* "data" stands for what the execution of the template makes of it.
populateFilesList(files) ==
  [i \in DOMAIN files |-> [files[i] EXCEPT !.permissions = IF @ = 0 THEN 644 ELSE @]]

injectRegistryHostConfigs(files) ==
  files \o [i \in DOMAIN RegistryHosts |->
              [path |-> RegistryHosts[i], permissions |-> 600, encoding |-> "", data |-> "hosts.toml",
               newlines |-> 1]]

renderOSPFiles(p) ==
  [k \in SecretKinds |->
     IF k = "provisioning" THEN injectRegistryHostConfigs(populateFilesList(p.files[k]))
                           ELSE populateFilesList(p.files[k])]

configureRHELSubscription(t) == IF t.os = "rhel" THEN t.subscription ELSE None

GenerateOperatingSystemConfig(t, p) ==
  [os |-> p.os, provider |-> t.provider, utility |-> p.utility, keys |-> t.keys,
   files |-> renderOSPFiles(p), transpiles |-> p.transpiles, subscription |-> configureRHELSubscription(t)]

-----------------------------------------------------------------------------
(* Rendering.                                                              *)

\* The trimmed keys, each where it is first seen, in this order.
FirstSeen(keys) ==
  {i \in DOMAIN keys : keys[i].text # "" /\ \A j \in 1..(i - 1) : keys[j].text # keys[i].text}

Rank(S, i) == Cardinality({j \in S : j <= i})

deduplicateSSHKeys(keys) ==
  LET first == FirstSeen(keys)
  IN  [n \in 1..Cardinality(first) |-> keys[CHOOSE i \in first : Rank(first, i) = n].text]

\* The transpiler refuses what it has anything to report on: a key that is listed twice, or
\* something in the files and units of the secret.
toIgnitionSucceeds(o, k) == IsInjective(deduplicateSSHKeys(o.keys)) /\ k \in o.transpiles

\* Mutant: the content is encoded for Ignition as well.
FileSpecAlwaysEncoded(f, utility) ==
  [path     |-> f.path, data |-> f.data, newlines |-> f.newlines,
   base64   |-> f.encoding = "b64",
   encoding |-> IF utility = "cloud-init" THEN f.encoding ELSE "",
   block    |-> IF utility = "cloud-init" THEN "strip" ELSE "clip",
   mode     |-> [digits |-> f.permissions, leadingZero |-> f.permissions \in 100..999]]

\* What the user data says of a file: the content, in base64 or not, as a YAML block that
\* is stripped of all newlines at its end ("|-") or clipped to one ("|"), and the text of
\* the permissions, which are YAML, too.  The template for Ignition has no place for an
\* encoding.
fileSpec(f, utility) ==
  [path     |-> f.path, data |-> f.data, newlines |-> f.newlines,
   base64   |-> f.encoding = "b64" /\ utility = "cloud-init",
   encoding |-> IF utility = "cloud-init" THEN f.encoding ELSE "",
   block    |-> IF utility = "cloud-init" THEN "strip" ELSE "clip",
   mode     |-> [digits |-> f.permissions, leadingZero |-> f.permissions \in 100..999]]

MACHINE_NAME == "<MACHINE_NAME>"
MDName       == "name of the MachineDeployment"

\* The name that the user data sets (cloud-init) and writes to /etc/machine-name.  The
\* machine-controller replaces the placeholder; edge machines are not its machines.
hostname(o, utility, k) ==
  LET edge == o.provider = "edge" /\ utility = "cloud-init" IN
  CASE k # "bootstrap" \/ o.provider = "aws"           -> None
    [] k = "bootstrap" /\ edge                          -> MDName
    [] k = "bootstrap" /\ o.provider # "aws" /\ ~edge   -> MACHINE_NAME

\* Subscriptions and upgrades are for cloud-init only.
UserData(o, t, k, utility) ==
  [format |-> utility, keys |-> deduplicateSSHKeys(o.keys), hostname |-> hostname(o, utility, k),
   files |-> [i \in DOMAIN o.files[k] |-> fileSpec(o.files[k][i], utility)],
   subscription |-> IF utility = "cloud-init" THEN o.subscription ELSE None,
   upgrade |-> utility = "cloud-init" /\ t.distUpgradeOnBoot]

\* Mutant: the utility the OSC was made for is not compared.
GenerateAnyUtility(o, t, k) == UserData(o, t, k, GetProvisioningUtility(o.os, t))

\* The user data, None when it cannot be made.
Generate(o, t, k) ==
  LET utility == GetProvisioningUtility(o.os, t) IN
  IF \/ utility # o.utility
     \/ utility = "ignition" /\ ~toIgnitionSucceeds(o, k)
    THEN None
    ELSE UserData(o, t, k, utility)

-----------------------------------------------------------------------------
(* Objects.                                                                *)

\* The names a MachineDeployment can be stored with, whether there is such an OSP or not.
OSPNames == DOMAIN Profiles \cup {"osp-flatcar-cloud-init"} \cup {ospName[os] : os \in OperatingSystems}

MDObj     == [tmpl : Templates, osp : OSPNames, kubelet : BOOLEAN, rev : Nat, synced : BOOLEAN]
OSCSpec   == {GenerateOperatingSystemConfig(t, Profiles[n]) : t \in Templates, n \in DOMAIN Profiles}
OSCObj    == [stamp : {<<>>} \cup (Nat \X OSPNames \X BOOLEAN), spec : OSCSpec]
UserDatum == {UserData(o, t, k, u) : o \in OSCSpec, t \in Templates, k \in SecretKinds, u \in Utilities}

ASSUME NoneAssumption ==
  /\ None \notin {MDName, MACHINE_NAME}
  /\ None \notin OSPNames /\ None \notin MDObj /\ None \notin OSCObj /\ None \notin UserDatum

-----------------------------------------------------------------------------
(* Reconcile.                                                              *)

VARIABLES
  md,              \* the MachineDeployment: its template and its annotations
  osc, oscView,    \* its OSC: rotation annotations and spec; what the cache shows of it
  secret,          \* its two cloud-config secrets
  pc, cur, src,    \* the worker, the MachineDeployment and the OSC's spec that it read
  doubt,           \* history: since a rotation last got through, was one cut short, or
                   \* were secrets to be rendered from an OSC of the past?
  edits, faults

vars == <<md, osc, oscView, secret, pc, cur, src, doubt, edits, faults>>

NoSecrets == [k \in SecretKinds |-> None]

\* Nothing before a user creates the MachineDeployment.
Init ==
  /\ md = None /\ osc = None /\ oscView = None /\ secret = NoSecrets
  /\ pc = "idle" /\ cur = None /\ src = None /\ doubt = FALSE /\ edits = 0 /\ faults = 0

Stamp(o) == <<o.rev, o.osp, o.kubelet>>

\* Where the Deletes of a rotation are under way.
Deleting == {"deleteProvisioning", "deleteBootstrap"}

Return == pc' = "idle" /\ cur' = None /\ src' = None
Error  == Return /\ UNCHANGED <<osc, secret, doubt>>

\* fetchOSP and checkOSP, which return an error and change nothing when the OSP is not
\* there or does not fit; then the Get of the OSC that decides on a rotation.
StartReconcile ==
  /\ pc = "idle" /\ md # None
  /\ md.osp \in DOMAIN Profiles /\ validateMachineDeployment(md.tmpl, Profiles[md.osp])
  /\ cur' = md
  /\ \/ oscView # None /\ oscView.stamp # Stamp(md) /\ pc' = "rotateOSC"
     \/ (oscView # None => oscView.stamp = Stamp(md)) /\ pc' = "osc"
  /\ UNCHANGED <<md, osc, oscView, secret, src, doubt, edits, faults>>

\* Mutant: the rotation leaves the secrets for ensureCloudConfigSecret to update.
RotateKeepsSecrets ==
  /\ pc = "rotateOSC"
  /\ \/ osc # None /\ osc' = None /\ pc' = "osc" /\ UNCHANGED <<secret, cur, src, doubt>>
     \/ osc = None /\ Error
  /\ UNCHANGED <<md, oscView, edits, faults>>

\* The Delete of the OSC fails where a lagging cache has shown one that is gone.
RotateOSC ==
  /\ pc = "rotateOSC"
  /\ \/ osc # None /\ osc' = None /\ pc' = "deleteProvisioning" /\ UNCHANGED <<secret, cur, src, doubt>>
     \/ osc = None /\ Error
  /\ UNCHANGED <<md, oscView, edits, faults>>

DeleteProvisioning ==
  /\ pc = "deleteProvisioning" /\ pc' = "deleteBootstrap"
  /\ secret' = [secret EXCEPT !["provisioning"] = None]
  /\ UNCHANGED <<md, osc, oscView, cur, src, doubt, edits, faults>>

\* The last Delete of this module's objects: nothing of the past is left.
DeleteBootstrap ==
  /\ pc = "deleteBootstrap" /\ pc' = "osc"
  /\ secret' = [secret EXCEPT !["bootstrap"] = None]
  /\ doubt' = FALSE
  /\ UNCHANGED <<md, osc, oscView, cur, src, edits, faults>>

CanGenerate(o) ==
  LET p == Profiles[o.osp] IN
  GetProvisioningUtility(p.os, o.tmpl) = p.utility /\ GenerationSucceeds(o, p)

\* The Create of the generated OSC.
CreateOSC ==
  \/ /\ osc = None
     /\ osc' = [stamp |-> Stamp(cur),
                spec |-> GenerateOperatingSystemConfig(cur.tmpl, Profiles[cur.osp])]
     /\ pc' = "readOSC" /\ UNCHANGED <<secret, cur, src, doubt>>
  \/ osc # None /\ Error

\* Mutant: the utility of the OSP is not compared with that of the MachineDeployment.
ReconcileAnyUtility ==
  /\ pc = "osc"
  /\ \/ oscView # None /\ pc' = "readOSC" /\ UNCHANGED <<osc, secret, cur, src, doubt>>
     \/ oscView = None /\ GenerationSucceeds(cur, Profiles[cur.osp]) /\ CreateOSC
     \/ oscView = None /\ ~GenerationSucceeds(cur, Profiles[cur.osp]) /\ Error
  /\ UNCHANGED <<md, oscView, edits, faults>>

reconcileOperatingSystemConfigs ==
  /\ pc = "osc"
  /\ \/ oscView # None /\ pc' = "readOSC" /\ UNCHANGED <<osc, secret, cur, src, doubt>>
     \/ oscView = None /\ CanGenerate(cur) /\ CreateOSC
     \/ oscView = None /\ ~CanGenerate(cur) /\ Error
  /\ UNCHANGED <<md, oscView, edits, faults>>

\* reconcileSecrets reads the OSC back, again through the cache.
ReadBackOSC ==
  /\ pc = "readOSC"
  /\ \/ /\ oscView # None
        /\ src' = oscView.spec /\ pc' = "provisioning"
        /\ doubt' = (doubt \/ osc = None \/ osc.spec # oscView.spec)
        /\ UNCHANGED <<osc, secret, cur>>
     \/ oscView = None /\ Error
  /\ UNCHANGED <<md, oscView, edits, faults>>

SecretEnsured(k) ==
  \/ k = "provisioning" /\ pc' = "bootstrap" /\ UNCHANGED <<cur, src>>
  \/ k = "bootstrap" /\ Return

\* The secret is rendered from the OSC, but also from the MachineDeployment's template.
ensureCloudConfigSecret(k) ==
  /\ pc = k
  /\ LET data == Generate(src, cur.tmpl, k) IN
     \/ secret[k] # None /\ SecretEnsured(k) /\ UNCHANGED secret
     \/ /\ secret[k] = None /\ data # None
        /\ secret' = [secret EXCEPT ![k] = data]
        /\ SecretEnsured(k)
     \/ secret[k] = None /\ data = None /\ Return /\ UNCHANGED secret
  /\ UNCHANGED <<md, osc, oscView, doubt, edits, faults>>

Step == \/ StartReconcile \/ RotateOSC \/ DeleteProvisioning \/ DeleteBootstrap
        \/ reconcileOperatingSystemConfigs \/ ReadBackOSC
        \/ \E k \in SecretKinds : ensureCloudConfigSecret(k)

\* A call fails, or the process dies.
Fail ==
  /\ pc # "idle" /\ faults < MaxFaults /\ faults' = faults + 1
  /\ Return
  /\ doubt' = (doubt \/ (pc \in Deleting /\ secret # NoSecrets))
  /\ UNCHANGED <<md, osc, oscView, secret, edits>>

SyncOSC ==
  /\ oscView # osc /\ oscView' = osc
  /\ UNCHANGED <<md, osc, secret, pc, cur, src, doubt, edits, faults>>

-----------------------------------------------------------------------------
(* Users and the machine-controller.                                       *)

Edit == edits < MaxEdits /\ edits' = edits + 1

\* A MachineDeployment is created or changed, through the webhook.
Apply(t, a) ==
  /\ Edit
  /\ LET p == MutateMachineDeployment(t, a.osp) IN
     /\ p # None
     /\ \/ /\ md = None
           /\ md' = [tmpl |-> t, osp |-> p, kubelet |-> a.kubelet, rev |-> 0, synced |-> FALSE]
        \/ /\ md # None
           /\ md' = [md EXCEPT !.tmpl = t, !.osp = p, !.kubelet = a.kubelet,
                             !.synced = @ /\ t = md.tmpl]
  /\ UNCHANGED <<osc, oscView, secret, pc, cur, src, doubt, faults>>

BumpRevision ==
  /\ md # None /\ ~md.synced
  /\ md' = [md EXCEPT !.rev = @ + 1, !.synced = TRUE]
  /\ UNCHANGED <<osc, oscView, secret, pc, cur, src, doubt, edits, faults>>

\* The webhook in front of OSCs looks at the spec only.
validateUpdate(new, old) == new.spec = old.spec

\* A user edits the OSC: its annotations or its spec.
UpdateOSC ==
  /\ Edit /\ osc # None
  /\ \E new \in {[osc EXCEPT !.stamp = <<>>], [osc EXCEPT !.spec.keys = <<>>],
                 [osc EXCEPT !.spec.provider = "edge"]} :
       new # osc /\ validateUpdate(new, osc) /\ osc' = new
  /\ UNCHANGED <<md, oscView, secret, pc, cur, src, doubt, faults>>

User == \/ \E t \in Templates, a \in Annotations : Apply(t, a)
        \/ UpdateOSC

Next == Step \/ Fail \/ SyncOSC \/ User \/ BumpRevision

Spec     == Init /\ [][Next]_vars
FairSpec == Spec /\ WF_vars(Step) /\ WF_vars(SyncOSC) /\ WF_vars(BumpRevision)

-----------------------------------------------------------------------------
(* Properties.                                                             *)

KeyTexts(keys) == {keys[i].text : i \in DOMAIN keys} \ {""}

\* The secret is the rendering of this OSC: its format; its keys, each once; a host name
\* only where machine names are used; its subscription.
Renders(k, o) ==
  /\ secret[k].format = o.utility
  /\ ToSet(secret[k].keys) = KeyTexts(o.keys) /\ IsInjective(secret[k].keys)
  /\ secret[k].hostname # None <=> k = "bootstrap" /\ o.provider # "aws"
  /\ secret[k].format = "cloud-init" => secret[k].subscription = o.subscription

\* Outside the Deletes of a rotation, both secrets belong to the one OSC there is, also when
\* the first was rendered before, and the second after, users edited the template, the
\* OSP or the OSC, when calls failed and when the cache lagged: unless a rotation was cut
\* short between its Deletes, or reconcileSecrets read an OSC of the past, since a rotation
\* last got through.
SecretsOfOSC ==
  \A k \in SecretKinds :
    secret[k] # None /\ ~doubt /\ pc \notin Deleting => osc # None /\ Renders(k, osc.spec)

\* A file as the node has it: decoded as the user data says, None where that makes
\* something else of the content.  YAML reads digits without a leading zero in base 10,
\* cloud-init reads a quoted text in base 8.
OnNode(f, format) ==
  [path |-> f.path, content |-> IF f.base64 = (f.encoding = "b64") THEN f.data ELSE None,
   newlines |-> IF f.base64 THEN f.newlines ELSE IF f.block = "strip" THEN 0 ELSE 1,
   mode |-> f.mode.digits, base |-> IF format = "cloud-init" \/ f.mode.leadingZero THEN 8 ELSE 10]

\* Newlines at the end arrive as they are with base64 on cloud-init; of other content
\* cloud-init keeps none, Ignition one.
Newlines(f, u) == IF u = "ignition" THEN 1 ELSE IF f.encoding = "b64" THEN f.newlines ELSE 0

\* The files of a profile as its author means them, up to newlines at the end.
Meant(f, u) == [path |-> f.path, content |-> f.data, newlines |-> Newlines(f, u),
                mode |-> IF f.permissions = 0 THEN 644 ELSE f.permissions, base |-> 8]

HostNewlines(u) == IF u = "ignition" THEN 1 ELSE 0

Meanings(p, k) ==
  {Meant(f, p.utility) : f \in ToSet(p.files[k])} \cup
  IF k = "bootstrap" THEN {}
  ELSE {[path |-> h, content |-> "hosts.toml", newlines |-> HostNewlines(p.utility), mode |-> 600,
         base |-> 8] : h \in ToSet(RegistryHosts)}

\* Permissions of the profile that its format can say in base 8.
Octal(p) ==
  p.utility = "ignition" =>
    \A k \in SecretKinds : \A f \in ToSet(p.files[k]) : f.permissions \in {0} \cup 100..999

\* What the node gets out of a secret is what this profile means.
Arrived(k, p) == {OnNode(f, secret[k].format) : f \in ToSet(secret[k].files)} = Meanings(p, k)

\* Rendered by templates of two formats, as YAML blocks, with permissions as numbers in the
\* OSP and text in the user data, and encoded for one format only, the files that the node
\* gets out of a secret, besides /etc/machine-name, are still those of one profile, and in
\* the provisioning secret those for the registries, too: same content up to newlines at
\* the end, same mode.  Out of both secrets they are those of the same profile, unless a
\* rotation was cut short or an OSC of the past read (doubt).  For profiles that are Octal.
FilesArrive ==
  LET profiles == {Profiles[n] : n \in DOMAIN Profiles} IN
  /\ \A k \in SecretKinds : secret[k] # None => \E p \in profiles : Arrived(k, p)
  /\ ~doubt /\ (\E k \in SecretKinds : secret[k] # None) =>
       \E p \in profiles : \A k \in SecretKinds : secret[k] # None => Arrived(k, p)

\* An OSC that Reconcile takes as current is for the operating system of the
\* MachineDeployment and can be rendered: the checks before its creation leave none over
\* that the generator would refuse on every retry, but for one reason that nothing checks:
\* for Ignition, the transpiler may have something to report on the profile's own files
\* and units.
Renderable ==
  osc # None /\ md.synced /\ osc.stamp = Stamp(md)
    => /\ osc.spec.os = md.tmpl.os
       /\ \A k \in SecretKinds :
            Generate(osc.spec, md.tmpl, k) = None
              => osc.spec.utility = "ignition" /\ k \notin osc.spec.transpiles

\* The MachineDeployment's OSP is one for it.
Fits(o) ==
  /\ o.osp \in DOMAIN Profiles /\ validateMachineDeployment(o.tmpl, Profiles[o.osp])
  /\ CanGenerate(o)

Transpiles(p) == p.utility = "ignition" => p.transpiles = SecretKinds

\* Once users stop, a MachineDeployment with an OSP that fits, and that the transpiler has
\* nothing against, gets the user data of its present template, in the format its template
\* asks for, whatever was tried before: failed calls and lagging caches included, unless
\* they cut a rotation short or had secrets rendered from an OSC of the past (doubt).
Delivered ==
  <>[](md # None /\ Fits(md) /\ Transpiles(Profiles[md.osp]) /\ ~doubt =>
         /\ osc # None /\ osc.spec.keys = md.tmpl.keys /\ osc.spec.provider = md.tmpl.provider
         /\ \A k \in SecretKinds :
              /\ secret[k] # None
              /\ secret[k].format = GetProvisioningUtility(md.tmpl.os, md.tmpl)
              /\ secret[k].format = "cloud-init" =>
                   secret[k].upgrade = md.tmpl.distUpgradeOnBoot)

\* The profiles the webhook chooses from.
DefaultProfiles ==
  DOMAIN Profiles \cap ({"osp-flatcar-cloud-init"} \cup {ospName[os] : os \in OperatingSystems})

\* As in deploy/osps/default: a profile of one of the webhook's names is for the operating
\* system of that name, and of the two for Flatcar one is for Ignition, the other for
\* cloud-init on Anexia.
AsShipped ==
  /\ \A os \in OperatingSystems : ospName[os] \in DOMAIN Profiles => Profiles[ospName[os]].os = os
  /\ "osp-flatcar" \in DOMAIN Profiles => Profiles["osp-flatcar"].utility = "ignition"
  /\ "osp-flatcar-cloud-init" \in DOMAIN Profiles =>
       LET p == Profiles["osp-flatcar-cloud-init"]
       IN  p.os = "flatcar" /\ p.utility = "cloud-init" /\ p.providers = {"anexia"}

\* MutateMachineDeployment knows only names, not profiles.  Still, when a template comes
\* without an annotation and any of the default profiles can serve it, the one the
\* webhook stores does, whatever the MachineDeployment was before.  For profiles that are
\* AsShipped.
DefaultFits ==
  [][\A t \in Templates, a \in Annotations :
       a.osp = None /\ Apply(t, a) /\ (\E p \in DefaultProfiles : Fits([md' EXCEPT !.osp = p]))
       => Fits(md')]_vars
=============================================================================
