----------------------------- MODULE MCGeneration -----------------------------
(* Generation for model checking: templates and OSPs between which the      *)
(* operating system, the provisioning utility, the provider, the keys and   *)
(* the reasons to refuse a template vary.                                    *)
EXTENDS Generation

Key(x)    == [text |-> x, padded |-> FALSE]
Padded(x) == [text |-> x, padded |-> TRUE]

Flatcar == [os |-> "flatcar", provider |-> "aws", utility |-> "",
            keys |-> <<Key("k1"), Padded("k1"), Key("k2"), Padded("")>>,
            kubelet |-> "1.29", static |-> TRUE,
            distUpgradeOnBoot |-> FALSE, subscription |-> ""]

MCTemplates ==
  {Flatcar,
   [Flatcar EXCEPT !.utility = "cloud-init", !.provider = "anexia"],
   [Flatcar EXCEPT !.utility = "cloud-init"],
   [Flatcar EXCEPT !.provider = "fake", !.utility = "cloud-init", !.kubelet = "pre-1.29"],
   [Flatcar EXCEPT !.os = "ubuntu", !.static = FALSE],
   [Flatcar EXCEPT !.os = "ubuntu", !.static = FALSE, !.provider = "edge",
                   !.distUpgradeOnBoot = TRUE],
   [Flatcar EXCEPT !.os = "rhel", !.static = FALSE, !.subscription = "sub"],
   [Flatcar EXCEPT !.os = "ubuntu", !.static = FALSE, !.kubelet = "invalid"],
   [Flatcar EXCEPT !.os = "windows"]}

\* Permissions of four digits where Ignition does not have to read them.
MCFiles(os, u) ==
  [k \in SecretKinds |->
     IF k = "bootstrap"
       THEN <<[path |-> "bootstrap", permissions |-> IF u = "ignition" THEN 755 ELSE 1755,
               encoding |-> "b64", data |-> os, newlines |-> 2]>>
       ELSE <<[path |-> "setup", permissions |-> 0, encoding |-> "", data |-> os, newlines |-> 2]>>]

On(os, ps, u) == [os |-> os, providers |-> ps, utility |-> u, renders |-> TRUE,
                  transpiles |-> SecretKinds,
                  files |-> MCFiles(os, u)]

MCHosts == <<"certs.d/docker.io/hosts.toml">>

\* Four of the shipped profiles, and three of a user's.
MCProfiles ==
  [n \in {"osp-flatcar", "osp-flatcar-cloud-init", "osp-ubuntu", "osp-rhel", "custom", "broken",
         "refused"} |->
     CASE n = "osp-flatcar"            -> On("flatcar", {"aws"}, "ignition")
       [] n = "osp-flatcar-cloud-init" -> On("flatcar", {"anexia"}, "cloud-init")
       [] n = "osp-ubuntu"             -> On("ubuntu", {"aws", "edge"}, "cloud-init")
       [] n = "osp-rhel"               -> On("rhel", {"aws"}, "cloud-init")
       [] n = "custom"                 -> On("flatcar", {"aws", "fake"}, "cloud-init")
       [] n = "broken" -> [On("flatcar", {"aws"}, "ignition") EXCEPT !.renders = FALSE]
       [] n = "refused" ->
            [On("flatcar", {"aws"}, "ignition") EXCEPT !.transpiles = {"provisioning"}]]

\* Named by a user; the other two shipped profiles are reached by default.
MCAnnotations == {[osp |-> p, kubelet |-> TRUE] :
                    p \in {"osp-flatcar", "osp-ubuntu", "custom", "broken", "refused", None}}
                   \cup {[osp |-> "osp-ubuntu", kubelet |-> FALSE]}

\* What FilesArrive and DefaultFits depend on.
ASSUME MCProfilesAssumption == AsShipped /\ \A n \in DOMAIN Profiles : Octal(Profiles[n])
===============================================================================
