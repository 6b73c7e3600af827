--------------------------- MODULE ContainerRuntime ---------------------------
(***************************************************************************)
(* The container runtime configuration of the nodes (pkg/containerruntime): *)
(* from the flags on mirrors, insecure registries and credentials to the    *)
(* hosts.toml files and the authentication entries of containerd.  Pure     *)
(* operators; module Workers has the process that uses them.                *)
(***************************************************************************)
EXTENDS Naturals, Sequences, SequencesExt

CONSTANTS
  None,
  NamesInOrder,    \* the names of registries, as sort.Strings orders them
  PlainNames       \* those that registryMirrorRegexp accepts: no wildcard, port or path

\* What stands for a registry or a mirror, in the parts the code tells apart: "host"
\* has the port, and "param" is the value of the query parameter "kubermatic".
Text == [scheme : {"", "http", "https"}, host : STRING, path : STRING,
         param : {"", "override_path=true", "override_path=false"}]

URL(s, h, p) == [scheme |-> s, host |-> h, path |-> p, param |-> ""]
Host(h)      == URL("", h, "")
Blank        == Host("")

\* A host that url.Parse refuses, with a scheme or without.
Garbled   == "%zz"
Parses(t) == t.host # Garbled

\* A host that begins like a scheme.
HTTPHost         == "httpd.local"
HasPrefixHTTP(t) == t.scheme # "" \/ t.host = HTTPHost

DockerIO == Host("docker.io")
Upstream == URL("https", "registry-1.docker.io", "")

ASSUME NamesAssumption ==
  /\ IsInjective(NamesInOrder) /\ \A n \in ToSet(NamesInOrder) : n \in Text
  /\ DockerIO \in PlainNames /\ PlainNames \subseteq ToSet(NamesInOrder)

-----------------------------------------------------------------------------
(* Flags.  An element of a list is name=mirror, name None where there is no *)
(* "=" in it.                                                              *)

AddMirror(mirrors, n, u) ==
  [r \in DOMAIN mirrors \cup {n} |->
     IF r # n THEN mirrors[r]
     ELSE Append(IF n \in DOMAIN mirrors THEN mirrors[n] ELSE <<>>, u)]

NoMirrors == [r \in {} |-> <<>>]
NoLogins  == [r \in {} |-> None]

\* -node-containerd-registry-mirrors, which can be repeated; None: refused.
Set(entries) ==
  IF \E i \in DOMAIN entries : entries[i].name = None THEN None
  ELSE FoldLeft(LAMBDA ms, e : AddMirror(ms, e.name, e.mirror), NoMirrors, entries)

\* One element of -node-registry-mirrors.  What the expression does not accept goes to
\* docker.io as it is, the "=" in the middle of a host.
RegistryMirror(e) ==
  LET understood == e.name \in PlainNames
      text  == IF understood \/ e.name = None THEN e.mirror ELSE URL(e.name.scheme, e.name.host, "=")
  IN  [name   |-> IF understood THEN e.name ELSE DockerIO,
       mirror |-> IF HasPrefixHTTP(text) THEN text ELSE [text EXCEPT !.scheme = "https"]]

NotBlank(list) == SelectSeq(list, LAMBDA t : t # Blank)

\* The elements of -node-registry-mirrors.
Asked(flags) ==
  LET given == SelectSeq(flags.registryMirrors, LAMBDA e : e.name # None \/ e.mirror # Blank)
  IN  [i \in DOMAIN given |-> RegistryMirror(given[i])]

\* The mirrors of both flags, by name.
Mirrors(flags) == FoldLeft(LAMBDA ms, e : AddMirror(ms, e.name, e.mirror),
                           Set(flags.containerdMirrors), Asked(flags))

\* The configuration, None when main exits because of it.
BuildConfig(flags) ==
  IF \/ Set(flags.containerdMirrors) = None
     \/ \E i \in DOMAIN Asked(flags) : ~Parses(Asked(flags)[i].mirror)
     \/ flags.credentialsSecret = "malformed"
    THEN None
    ELSE [insecureRegistries  |-> NotBlank(flags.insecureRegistries),
          registryMirrors     |-> Mirrors(flags),
          registryCredentials |-> NoLogins]

-----------------------------------------------------------------------------
(* hosts.toml.                                                             *)

stripKubermaticParam(t) == IF Parses(t) THEN [t EXCEPT !.param = ""] ELSE t

Endpoint(t) == [url |-> stripKubermaticParam(t),
                overridePath |-> Parses(t) /\ t.param = "override_path=true"]

\* Per name: its mirrors, and whether it is insecure.  docker.io is always there.
buildRegistryHostConfigs(cfg) ==
  LET insecure == ToSet(cfg.insecureRegistries)
      mirrors  == cfg.registryMirrors
  IN  [n \in {DockerIO} \cup DOMAIN mirrors \cup insecure |->
         [endpoints |-> IF n \in DOMAIN mirrors
                          THEN [i \in DOMAIN mirrors[n] |-> Endpoint(mirrors[n][i])]
                          ELSE IF n = DockerIO
                            THEN <<[url |-> Upstream, overridePath |-> FALSE]>> ELSE <<>>,
          insecure  |-> n \in insecure]]

\* The text of a name before its first "/", and the directory it makes.
registryHost(n) == CASE n.scheme = ""      -> n.host
                     [] n.scheme = "http"  -> "http:"
                     [] n.scheme = "https" -> "https:"

Directory(n) == IF registryHost(n) \in {"*", "_default"} THEN "_default" ELSE registryHost(n)

Server(n) == CASE Directory(n) = "docker.io" -> Upstream
               [] Directory(n) = "_default"  -> Blank
               [] OTHER                      -> n

\* A self-referencing entry stands for an insecure registry without mirrors.  Of two
\* mirrors with the same URL the later one counts.
HostsToml(n, reg) ==
  LET entry(e) == [overridePath |-> e.overridePath, skipVerify |-> reg.insecure]
      urls     == {reg.endpoints[i].url : i \in DOMAIN reg.endpoints}
      last(u)  == CHOOSE i \in DOMAIN reg.endpoints :
                    /\ reg.endpoints[i].url = u
                    /\ \A j \in DOMAIN reg.endpoints : reg.endpoints[j].url = u => j <= i
  IN  [server |-> Server(n),
       host   |-> IF reg.endpoints = <<>>
                    THEN [u \in {Server(n)} |-> [overridePath |-> FALSE, skipVerify |-> TRUE]]
                    ELSE [u \in urls |-> entry(reg.endpoints[last(u)])]]

\* Names with neither mirrors nor insecure get no file.
Written(configs) == {n \in DOMAIN configs : configs[n].endpoints # <<>> \/ configs[n].insecure}

Position(n) == CHOOSE i \in DOMAIN NamesInOrder : NamesInOrder[i] = n

\* The files by directory, from the configurations by name.  Names are taken in order,
\* and a later one overwrites the file of an earlier one in the same directory.
RegistryHostConfigs(configs) ==
  LET last(d) == CHOOSE n \in Written(configs) :
                   /\ Directory(n) = d
                   /\ \A o \in Written(configs) : Directory(o) = d => Position(o) <= Position(n)
  IN  [d \in {Directory(n) : n \in Written(configs)} |-> HostsToml(last(d), configs[last(d)])]

-----------------------------------------------------------------------------
(* Credentials.  A secret is a map from registries to logins.              *)

\* None: missing, or with something in it that is not JSON.
GetContainerdAuthConfig(secret) == IF secret.readable THEN secret.auths ELSE None

\* url.Parse finds a host only behind a scheme.
AuthKey(t) == IF t.scheme # "" /\ Parses(t) THEN Host(t.host) ELSE t

\* The authentication entries that Config can write: where two keys are the same host,
\* the order of the iteration over the map decides.
Config(credentials) ==
  LET keys      == {AuthKey(t) : t \in DOMAIN credentials}
      logins(k) == {credentials[t] : t \in {c \in DOMAIN credentials : AuthKey(c) = k}}
  IN  {f \in [keys -> UNION {logins(k) : k \in keys}] : \A k \in keys : f[k] \in logins(k)}
===============================================================================
