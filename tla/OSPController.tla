---------------------------- MODULE OSPController ----------------------------
(***************************************************************************)
(* The operating-system-profile controller                                 *)
(* (pkg/controllers/osp/osp_controller.go), which keeps the OSPs shipped   *)
(* with a release of the operating-system-manager in the cluster, together *)
(* with the admission webhook every write of an OSP passes                 *)
(* (pkg/admission/operatingsystemprofile/validation/validation.go).        *)
(***************************************************************************)
EXTENDS Naturals

CONSTANTS
  Names,          \* names of OSPs in the controller's namespace
  DefaultNames,   \* those that the release ships
  Releases,       \* releases; each ships its OSPs with its own .spec.version
  Shipped,        \* the rest of the spec of a shipped OSP
  UserBodies,     \* the rest of the spec of an OSP that a user writes
  UnitBodies,     \* those of them that declare units without being for Flatcar
  None,
  MaxEdits,       \* bound: what users and operators do
  MaxFaults       \* bound: calls that fail

ASSUME OSPAssumption ==
  /\ DefaultNames \subseteq Names /\ Releases \subseteq Nat /\ Releases # {}
  /\ UnitBodies \subseteq UserBodies /\ Shipped \notin UserBodies
  /\ MaxEdits \in Nat /\ MaxFaults \in Nat

VARIABLES
  disabled,          \* disableDefaultOSPs
  release,           \* the release that runs
  osp, rv,           \* the OSPs in the cluster, and how often each name was written
  view, viewRV,      \* what the manager's cache shows, and as of which write
  queued, pc, curRV, \* work queue and workers; curRV: the write that was read
  edits, faults

vars == <<disabled, release, osp, rv, view, viewRV, queued, pc, curRV, edits, faults>>

\* .spec, the version apart from the rest.
Profile(v, b) == [version |-> v, body |-> b]
OSPObj        == [version : Nat, body : UserBodies \cup {Shipped}]
source        == Profile(release, Shipped)

\* Add: the bootstrapping channel holds one event per default OSP, and the informer's
\* first list brings one per OSP there is.
Bootstrapping == [n \in Names |-> ~disabled /\ (n \in DefaultNames \/ osp[n] # None)]

Init ==
  /\ disabled \in BOOLEAN /\ release \in Releases
  /\ osp = [n \in Names |-> None] /\ view = osp
  /\ rv = [n \in Names |-> 0] /\ viewRV = rv /\ curRV = rv
  /\ queued = Bootstrapping
  /\ pc = [n \in Names |-> "idle"]
  /\ edits = 0 /\ faults = 0

-----------------------------------------------------------------------------
(* The webhook.                                                            *)

validateOperatingSystemProfile(new) == new.body \notin UnitBodies

\* Mutant: the version is not compared.
ValidateUpdateAnyVersion(new, old) == validateOperatingSystemProfile(new)

validateUpdate(new, old) ==
  /\ validateOperatingSystemProfile(new)
  /\ new = old \/ new.version # old.version

-----------------------------------------------------------------------------
(* The controller.                                                         *)

Return(n, again) ==
  /\ pc' = [pc EXCEPT ![n] = "idle"] /\ curRV' = [curRV EXCEPT ![n] = 0]
  /\ queued' = [queued EXCEPT ![n] = @ \/ again]

\* reconcileOSP reads the OSP; the reconciler it hands to EnsureNamedObject replaces
\* the whole spec of one whose version differs.
reconcileOSP(n) ==
  /\ ~disabled /\ pc[n] = "idle" /\ queued[n]
  /\ queued' = [queued EXCEPT ![n] = FALSE]
  /\ \/ /\ n \in DefaultNames /\ view[n] = None
        /\ pc' = [pc EXCEPT ![n] = "create"] /\ UNCHANGED curRV
     \/ /\ n \in DefaultNames /\ view[n] # None /\ view[n].version # release
        /\ pc' = [pc EXCEPT ![n] = "update"] /\ curRV' = [curRV EXCEPT ![n] = viewRV[n]]
     \/ /\ n \notin DefaultNames \/ (view[n] # None /\ view[n].version = release)
        /\ UNCHANGED <<pc, curRV>>
  /\ UNCHANGED <<disabled, release, osp, rv, view, viewRV, edits, faults>>

Write(n, o) ==
  /\ osp' = [osp EXCEPT ![n] = o]
  /\ rv' = [rv EXCEPT ![n] = @ + 1]

CreateDefault(n) ==
  /\ pc[n] = "create"
  /\ \/ /\ osp[n] = None /\ validateOperatingSystemProfile(source)
        /\ Write(n, source) /\ Return(n, FALSE)
     \/ ~(osp[n] = None /\ validateOperatingSystemProfile(source)) /\ Return(n, TRUE)
        /\ UNCHANGED <<osp, rv>>
  /\ UNCHANGED <<disabled, release, view, viewRV, edits, faults>>

\* The Update is refused when the OSP was written after what was read, or by the webhook.
UpdateDefault(n) ==
  /\ pc[n] = "update"
  /\ \/ /\ rv[n] = curRV[n] /\ validateUpdate(source, osp[n])
        /\ Write(n, source) /\ Return(n, FALSE)
     \/ ~(rv[n] = curRV[n] /\ validateUpdate(source, osp[n])) /\ Return(n, TRUE) /\ UNCHANGED <<osp, rv>>
  /\ UNCHANGED <<disabled, release, view, viewRV, edits, faults>>

Step(n) == reconcileOSP(n) \/ CreateDefault(n) \/ UpdateDefault(n)

\* Mutant: Reconcile logs the error and returns none.
FailForgotten(n) ==
  /\ pc[n] # "idle" /\ faults < MaxFaults /\ faults' = faults + 1
  /\ Return(n, FALSE)
  /\ UNCHANGED <<disabled, release, osp, rv, view, viewRV, edits>>

Fail(n) ==
  /\ pc[n] # "idle" /\ faults < MaxFaults /\ faults' = faults + 1
  /\ Return(n, TRUE)
  /\ UNCHANGED <<disabled, release, osp, rv, view, viewRV, edits>>

SyncOSP(n) ==
  /\ viewRV[n] # rv[n]
  /\ view' = [view EXCEPT ![n] = osp[n]] /\ viewRV' = [viewRV EXCEPT ![n] = rv[n]]
  /\ queued' = [queued EXCEPT ![n] = ~disabled]
  /\ UNCHANGED <<disabled, release, osp, rv, pc, curRV, edits, faults>>

-----------------------------------------------------------------------------
(* Users and operators.                                                    *)

Edit == edits < MaxEdits /\ edits' = edits + 1

UserWrites(n, o) ==
  /\ Write(n, o)
  /\ UNCHANGED <<disabled, release, view, viewRV, queued, pc, curRV, faults>>

UserCreate(n, o) ==
  /\ Edit /\ osp[n] = None /\ validateOperatingSystemProfile(o)
  /\ UserWrites(n, o)

UserUpdate(n, o) ==
  /\ Edit /\ osp[n] # None /\ o # osp[n] /\ validateUpdate(o, osp[n])
  /\ UserWrites(n, o)

UserDelete(n) == Edit /\ osp[n] # None /\ UserWrites(n, None)

\* Another release is rolled out, or back: a new process, with a filled cache.
Deploy(r) ==
  /\ Edit /\ r # release /\ release' = r
  /\ view' = osp /\ viewRV' = rv /\ queued' = Bootstrapping
  /\ pc' = [n \in Names |-> "idle"] /\ curRV' = [n \in Names |-> 0]
  /\ UNCHANGED <<disabled, osp, rv, faults>>

User == \/ \E n \in Names, v \in Releases, b \in UserBodies :
             UserCreate(n, Profile(v, b)) \/ UserUpdate(n, Profile(v, b))
        \/ \E n \in Names : UserDelete(n)
        \/ \E r \in Releases : Deploy(r)

Next == User \/ \E n \in Names : Step(n) \/ Fail(n) \/ SyncOSP(n)

Spec     == Init /\ [][Next]_vars
FairSpec == Spec /\ \A n \in Names : WF_vars(Step(n)) /\ WF_vars(SyncOSP(n))

-----------------------------------------------------------------------------
(* Properties.                                                             *)

\* Unless default OSPs are disabled, once users and operators stop, no default OSP is
\* missing or older than the release that runs: deleted, edited, created by a user first,
\* upgraded, a call failed, whatever the cache showed meanwhile.  Of one that is newer
\* see UpdatesAreNewer.
DefaultsRestored ==
  ~disabled => <>[](\A n \in DefaultNames : osp[n] # None /\ osp[n].version >= release)

\* "OperatingSystemProfile is immutable. For updates .spec.version needs to be updated":
\* as long as an OSP exists, neither users nor the controller, whose write may rest
\* on a stale read, change it under the same version.
NoChangeUnderVersion ==
  [][\A n \in Names : osp[n] # None /\ osp'[n] # None /\ osp'[n].version = osp[n].version
                      => osp'[n] = osp[n]]_vars

\* ospReconciler: "only attempt an update if our OSP is newer".
UpdatesAreNewer ==
  [][\A n \in Names : pc[n] = "update" /\ pc'[n] = "idle" /\ osp'[n] # osp[n]
                      => source.version > osp[n].version]_vars
=============================================================================
