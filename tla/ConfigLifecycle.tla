--------------------------- MODULE ConfigLifecycle ---------------------------
(***************************************************************************)
(* What the operating-system-config controller promises about the objects  *)
(* it keeps for an owner (a MachineDeployment), whatever happens inside:   *)
(* an owner is guarded by the cleanup finalizer before it holds anything   *)
(* and until it holds nothing; the kubelet kubeconfig is the first thing   *)
(* it gets and the last it loses; and it gets the bootstrap secret, on     *)
(* which machines are started, only when the provisioning secret that      *)
(* those machines fetch is there.                                          *)
(***************************************************************************)
CONSTANT Owner

VARIABLES guarded, held

vars == <<guarded, held>>

Resource == {"osc", "provisioning", "bootstrap", "kubelet"}

\* What must be held already when r is acquired.
Needs(r) == CASE r = "kubelet"   -> {}
              [] r = "bootstrap" -> {"kubelet", "provisioning"}
              [] r \in {"osc", "provisioning"} -> {"kubelet"}

Init == guarded = {} /\ held = [o \in Owner |-> {}]

Guard(o) ==
  /\ o \notin guarded
  /\ guarded' = guarded \cup {o}
  /\ UNCHANGED held

Acquire(o, r) ==
  /\ o \in guarded /\ r \notin held[o] /\ Needs(r) \subseteq held[o]
  /\ held' = [held EXCEPT ![o] = @ \cup {r}]
  /\ UNCHANGED guarded

Release(o, r) ==
  /\ r \in held[o]
  /\ r = "kubelet" => held[o] = {"kubelet"}
  /\ held' = [held EXCEPT ![o] = @ \ {r}]
  /\ UNCHANGED guarded

Unguard(o) ==
  /\ o \in guarded /\ held[o] = {}
  /\ guarded' = guarded \ {o}
  /\ UNCHANGED held

Next == \E o \in Owner : \/ Guard(o) \/ Unguard(o)
                         \/ \E r \in Resource : Acquire(o, r) \/ Release(o, r)

Spec == Init /\ [][Next]_vars
=============================================================================
