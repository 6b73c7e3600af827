------------------------------ MODULE MCWorkers ------------------------------
(* Workers for model checking: command lines and cluster objects.            *)
EXTENDS Workers

Quay     == Host("quay.io")
QuayTeam == URL("", "quay.io", "team")
Local    == Host("registry.local:5000")
Wildcard == Host("*")

\* "*" sorts before letters, "quay.io" before "quay.io/team".
MCNames == <<Wildcard, DockerIO, Quay, QuayTeam, Local>>
MCPlain == {DockerIO, Quay}

Mirror(n, u) == [name |-> n, mirror |-> u]
Overriding(u) == [u EXCEPT !.param = "override_path=true"]
M1 == URL("https", "m1", "v2")
M2 == URL("http", "m2", "")
M3 == Host("m3")
M4 == Host(HTTPHost)

Plain ==
  [namespace |-> TRUE, containerRuntime |-> "containerd", kubernetesCABundle |-> "",
   hostCABundle |-> "", clusterDNS |-> <<TRUE>>,
   featureGates |-> <<[parts |-> 2, name |-> "A", value |-> "true"]>>,
   serviceAccount |-> "", kubeconfig |-> "", workerClusterKubeconfig |-> "", unusable |-> {},
   override |-> "", containerdMirrors |-> <<>>, registryMirrors |-> <<>>,
   insecureRegistries |-> <<>>, credentialsSecret |-> ""]

\* A worker cluster; mirrors for docker.io from both flags, for a wildcard and for two
\* names in one directory; insecure registries with and without mirrors.
Full ==
  [Plain EXCEPT
     !.workerClusterKubeconfig = "worker", !.credentialsSecret = "here",
     !.containerdMirrors = <<Mirror(DockerIO, Overriding(M1)), Mirror(Wildcard, Overriding(M2)),
                             Mirror(Quay, M1), Mirror(QuayTeam, M2)>>,
     !.registryMirrors = <<Mirror(None, M3), Mirror(None, Blank), Mirror(Quay, M3),
                           Mirror(Quay, M4)>>,
     !.insecureRegistries = <<Local, Blank, Quay>>]

MCFlags ==
  {Full,
   [Plain EXCEPT !.kubernetesCABundle = "bundle", !.override = "kind", !.kubeconfig = "management"],
   [Full EXCEPT !.containerdMirrors = <<Mirror(None, M1)>>],
   [Full EXCEPT !.registryMirrors = <<Mirror(Quay, Host(Garbled))>>],
   [Full EXCEPT !.unusable = {"worker"}],
   [Full EXCEPT !.credentialsSecret = "elsewhere"],
   [Plain EXCEPT !.unusable = {""}],
   [Plain EXCEPT !.featureGates = <<[parts |-> 2, name |-> "A", value |-> "maybe"]>>]}

\* Two keys of one host, with a scheme and without.
Logins1 == [k \in {URL("https", "quay.io", "v1"), Quay} |-> IF k = Quay THEN "a" ELSE "b"]
Logins2 == [k \in {Local} |-> "c"]
MCSecrets == {[readable |-> TRUE, auths |-> Logins1], [readable |-> TRUE, auths |-> Logins2],
              [readable |-> FALSE, auths |-> NoLogins]}

Info(e, b, s) == [exists |-> e, broken |-> b, servers |-> s]
MCInfos == {Info(FALSE, FALSE, {}), Info(TRUE, TRUE, {}), Info(TRUE, FALSE, {}),
            Info(TRUE, FALSE, {"s1", "s2"})}

Endpoints(es) == [ports |-> <<"http", "https">>, endpoints |-> es]
Down == [ready |-> FALSE, address |-> "e1"]
Up   == [ready |-> TRUE, address |-> "e2"]
MCSlices == {<<>>, <<[ports |-> <<"http">>, endpoints |-> <<Up>>], Endpoints(<<Down, Up>>)>>}
=============================================================================
