------------------------------ MODULE Bootstrap ------------------------------
(***************************************************************************)
(* CreateBootstrapKubeconfig (pkg/bootstrap/kubeconfig.go), called by the  *)
(* reconciler for one key: it finds, extends or creates the bootstrap      *)
(* token of the key and keeps the kubelet bootstrap kubeconfig secret,     *)
(* which carries a token to the nodes.  Tokens expire, and kube-controller-*)
(* manager's token cleaner deletes expired ones.                           *)
(*                                                                         *)
(* Time is counted in quarters of an hour, as what a token has left.  A    *)
(* call is shorter than that, so at most one tick falls into it.           *)
(***************************************************************************)
EXTENDS Naturals, FiniteSets

CONSTANTS
  Ids,        \* token ids (a bound); rand.String repeats none that is still around
  None,       \* no object, no token
  SAToken,    \* the service account's token
  MaxFaults   \* bound: calls that fail

Life      == 4   \* one hour
Threshold == 2   \* 30 minutes

\* A token secret as getSecretIfExists returns it.
ListedToken == [id : Ids, left : 0..Life]

ASSUME BootstrapAssumption ==
  /\ None \notin Ids /\ SAToken \notin Ids \cup {None}
  /\ None \notin 0..Life /\ None \notin ListedToken
  /\ MaxFaults \in Nat

VARIABLES
  cached,      \* is b.client the manager's caching client?
  fromSA,      \* is bootstrapTokenServiceAccountName set?
  tokens,      \* tokens[i]: quarters of an hour left, None when there is no such secret
  kubelet,     \* the token in the kubelet kubeconfig secret, None when it does not exist
  tokensView, kubeletView,                    \* what the cache shows of the two
  pc, listed, seenKubelet, tok, updated,      \* the call in progress
  straddled,                                  \* has a tick fallen into it?
  faults

config == <<cached, fromSA>>
store  == <<tokens, kubelet>>
views  == <<tokensView, kubeletView>>
call   == <<pc, listed, seenKubelet, tok, updated, straddled>>
vars   == <<config, store, views, call, faults>>

Token == Ids \cup {SAToken}
Left  == 0..Life \cup {None}

Init ==
  /\ cached \in BOOLEAN /\ fromSA \in BOOLEAN
  /\ tokens = [i \in Ids |-> None] /\ tokensView = tokens
  /\ kubelet = None /\ kubeletView = None
  /\ pc = "idle" /\ listed = None /\ seenKubelet = None /\ tok = None
  /\ updated = FALSE /\ straddled = FALSE
  /\ faults = 0

ReadTokens  == IF cached THEN tokensView ELSE tokens
ReadKubelet == IF cached THEN kubeletView ELSE kubelet

Existing(ts) == {i \in Ids : ts[i] # None}

-----------------------------------------------------------------------------
(* The call.                                                               *)

InCall == pc \notin {"idle", "done"}

Return(l) == pc' = l /\ listed' = None /\ seenKubelet' = None /\ straddled' = FALSE
Error     == Return("idle") /\ tok' = None /\ updated' = FALSE /\ UNCHANGED store

CreateBootstrapKubeconfig ==
  /\ ~InCall
  /\ pc' = IF fromSA THEN "serviceAccount" ELSE "list"
  /\ tok' = None /\ updated' = FALSE
  /\ UNCHANGED <<config, store, views, listed, seenKubelet, straddled, faults>>

getTokenFromServiceAccount ==
  /\ pc = "serviceAccount"
  /\ tok' = SAToken /\ pc' = "getKubelet"
  /\ UNCHANGED <<config, store, views, listed, seenKubelet, updated, straddled, faults>>

\* Mutant: an expired token does not count as existing.
ListIgnoresExpired ==
  /\ pc = "list"
  /\ LET found == {i \in Existing(ReadTokens) : ReadTokens[i] > 0} IN
     \/ /\ found = {}
        /\ pc' = "createToken"
        /\ UNCHANGED <<store, listed, seenKubelet, tok, updated, straddled>>
     \/ \E i \in found :
          /\ found = {i}
          /\ listed' = [id |-> i, left |-> ReadTokens[i]]
          /\ pc' = "extendToken"
          /\ UNCHANGED <<store, seenKubelet, tok, updated, straddled>>
     \/ /\ Cardinality(found) > 1
        /\ Error
  /\ UNCHANGED <<config, views, faults>>

\* Mutant: of several tokens any one is taken.
ListTakesAny ==
  /\ pc = "list"
  /\ LET found == Existing(ReadTokens) IN
     \/ /\ found = {}
        /\ pc' = "createToken"
        /\ UNCHANGED <<store, listed, seenKubelet, tok, updated, straddled>>
     \/ \E i \in found :
          /\ listed' = [id |-> i, left |-> ReadTokens[i]]
          /\ pc' = "extendToken"
          /\ UNCHANGED <<store, seenKubelet, tok, updated, straddled>>
  /\ UNCHANGED <<config, views, faults>>

getSecretIfExists ==
  /\ pc = "list"
  /\ LET found == Existing(ReadTokens) IN
     \/ /\ found = {}
        /\ pc' = "createToken"
        /\ UNCHANGED <<store, listed, seenKubelet, tok, updated, straddled>>
     \/ \E i \in found :
          /\ found = {i}
          /\ listed' = [id |-> i, left |-> ReadTokens[i]]
          /\ pc' = "extendToken"
          /\ UNCHANGED <<store, seenKubelet, tok, updated, straddled>>
     \/ /\ Cardinality(found) > 1
        /\ Error
  /\ UNCHANGED <<config, views, faults>>

\* Mutant: a token with a quarter of an hour left is not extended.
ExtendTooLate ==
  /\ pc = "extendToken"
  /\ \/ /\ listed.left > 0
        /\ UNCHANGED tokens
     \/ /\ listed.left = 0
        /\ tokens[listed.id] = listed.left
        /\ tokens' = [tokens EXCEPT ![listed.id] = Life]
  /\ tok' = listed.id /\ updated' = TRUE /\ pc' = "getKubelet"
  /\ UNCHANGED <<config, views, kubelet, listed, seenKubelet, straddled, faults>>

\* A token that is close to expiry is extended, under optimistic locking.
updateSecretExpirationAndGetToken ==
  /\ pc = "extendToken"
  /\ \/ /\ \/ /\ listed.left >= Threshold
              /\ UNCHANGED tokens
           \/ /\ listed.left < Threshold
              /\ tokens[listed.id] = listed.left
              /\ tokens' = [tokens EXCEPT ![listed.id] = Life]
        /\ tok' = listed.id /\ updated' = TRUE /\ pc' = "getKubelet"
        /\ UNCHANGED <<kubelet, listed, seenKubelet, straddled>>
     \/ /\ listed.left < Threshold /\ tokens[listed.id] # listed.left
        /\ Error
  /\ UNCHANGED <<config, views, faults>>

Fresh == Ids \ (Existing(tokens) \cup Existing(tokensView) \cup {kubelet, kubeletView})

\* Mutant: a new token is reported as an extended one.
CreateTokenAsUpdated ==
  /\ pc = "createToken"
  /\ \E i \in Fresh :
       /\ tokens' = [tokens EXCEPT ![i] = Life]
       /\ tok' = i
  /\ updated' = TRUE /\ pc' = "getKubelet"
  /\ UNCHANGED <<config, views, kubelet, listed, seenKubelet, straddled, faults>>

\* The bound on ids shows as a Create that fails.
createBootstrapToken ==
  /\ pc = "createToken"
  /\ \/ /\ \E i \in Fresh :
             /\ tokens' = [tokens EXCEPT ![i] = Life]
             /\ tok' = i
        /\ updated' = FALSE /\ pc' = "getKubelet"
        /\ UNCHANGED <<kubelet, listed, seenKubelet, straddled>>
     \/ Fresh = {} /\ Error
  /\ UNCHANGED <<config, views, faults>>

getKubeletSecret ==
  /\ pc = "getKubelet"
  /\ \/ /\ ReadKubelet = None
        /\ pc' = "createKubelet"
        /\ UNCHANGED <<listed, seenKubelet, straddled>>
     \/ /\ ReadKubelet # None /\ updated
        /\ Return("done")
     \/ /\ ReadKubelet # None /\ ~updated
        /\ seenKubelet' = ReadKubelet /\ pc' = "updateKubelet"
        /\ UNCHANGED <<listed, straddled>>
  /\ UNCHANGED <<config, store, views, tok, updated, faults>>

createKubeletSecret ==
  /\ pc = "createKubelet"
  /\ \/ /\ kubelet = None
        /\ kubelet' = tok /\ Return("done")
        /\ UNCHANGED <<tokens, tok, updated>>
     \/ kubelet # None /\ Error
  /\ UNCHANGED <<config, views, faults>>

\* The Update carries the resourceVersion that was read.  A cached version can be old
\* though the content is the same.
updateKubeletSecret ==
  /\ pc = "updateKubelet"
  /\ \/ /\ kubelet = seenKubelet
        /\ kubelet' = tok /\ Return("done")
        /\ UNCHANGED <<tokens, tok, updated>>
     \/ (cached \/ kubelet # seenKubelet) /\ Error
  /\ UNCHANGED <<config, views, faults>>

Step == \/ getTokenFromServiceAccount \/ getSecretIfExists \/ updateSecretExpirationAndGetToken
        \/ createBootstrapToken \/ getKubeletSecret \/ createKubeletSecret \/ updateKubeletSecret

Fail ==
  /\ InCall /\ faults < MaxFaults
  /\ faults' = faults + 1 /\ Error
  /\ UNCHANGED <<config, views>>

-----------------------------------------------------------------------------
(* Around it.                                                              *)

\* Between two calls a rotation or a cleanup deletes the kubeconfig secret.
DeleteKubelet ==
  /\ ~InCall /\ kubelet # None
  /\ kubelet' = None
  /\ UNCHANGED <<config, tokens, views, call, faults>>

Elapse(left) == IF left = None THEN None ELSE IF left = 0 THEN 0 ELSE left - 1

Tick ==
  /\ ~InCall \/ ~straddled
  /\ straddled' = InCall
  /\ tokens' = [i \in Ids |-> Elapse(tokens[i])]
  /\ tokensView' = [i \in Ids |-> Elapse(tokensView[i])]
  /\ listed' = IF listed = None THEN None ELSE [listed EXCEPT !.left = Elapse(@)]
  /\ UNCHANGED <<config, kubelet, kubeletView, pc, seenKubelet, tok, updated, faults>>

CleanToken(i) ==
  /\ tokens[i] = 0
  /\ tokens' = [tokens EXCEPT ![i] = None]
  /\ UNCHANGED <<config, kubelet, views, call, faults>>

\* One informer serves all secrets, so both views advance together.
SyncSecrets ==
  /\ cached /\ (tokensView # tokens \/ kubeletView # kubelet)
  /\ tokensView' = tokens /\ kubeletView' = kubelet
  /\ UNCHANGED <<config, store, call, faults>>

Next == \/ CreateBootstrapKubeconfig \/ Step \/ Fail
        \/ DeleteKubelet \/ Tick \/ SyncSecrets \/ \E i \in Ids : CleanToken(i)

\* A call that has begun goes on, time passes, the cleaner and the informer work.
Fairness == /\ WF_vars(Step) /\ WF_vars(Tick) /\ WF_vars(SyncSecrets)
            /\ \A i \in Ids : WF_vars(CleanToken(i))

Spec     == Init /\ [][Next]_vars
FairSpec == Spec /\ Fairness

-----------------------------------------------------------------------------
(* Properties.                                                             *)

Succeeds == pc # "done" /\ pc' = "done"

\* The token that a successful call returns, and that goes into the OSC, is in the
\* cluster and has not expired: reading the expiry from a stale cache, the cleaner
\* at work in between and a tick in the middle of the call included.
ReturnedTokenLive ==
  [][Succeeds => tok' = SAToken \/ (tok' \in Ids /\ tokens'[tok'] \notin {None, 0})]_vars

\* getSecretIfExists: "expected to find exactly one secret".  Without cache lag there
\* is never a second token for the key, also when a Create's answer is lost.
AtMostOneToken == ~cached => Cardinality(Existing(tokens)) <= 1

\* When no call has failed and no cache lags, a successful call leaves the token it
\* returns in the kubelet kubeconfig secret ("If the expiration time has been
\* updated, then nothing to be done").
KubeletCarriesToken ==
  [][Succeeds /\ ~cached /\ faults' = 0 => kubelet' = tok']_vars

\* A key with several tokens makes every call fail; as nobody extends them, they
\* expire and are cleaned, and calls work again.
DuplicateHeals == Cardinality(Existing(tokens)) > 1 ~> Cardinality(Existing(tokens)) <= 1

\* The same without excusing failed calls: "If the expiration time has been updated,
\* then nothing to be done", so the secret must carry the token already.
KubeletAlwaysCarriesToken == [][Succeeds /\ ~cached => kubelet' = tok']_vars
=============================================================================
