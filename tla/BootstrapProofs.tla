--------------------------- MODULE BootstrapProofs ---------------------------
(* Theorems about Bootstrap, for every set of token ids and every number of *)
(* failed calls.                                                            *)
EXTENDS Bootstrap, FiniteSetTheorems, TLAPS

-----------------------------------------------------------------------------
(* Types, and which local variables are set where.                          *)

Writing == {"getKubelet", "createKubelet", "updateKubelet"}

TypeInv ==
  /\ cached \in BOOLEAN /\ fromSA \in BOOLEAN /\ updated \in BOOLEAN /\ straddled \in BOOLEAN
  /\ tokens \in [Ids -> Left] /\ tokensView \in [Ids -> Left]
  /\ kubelet \in Token \cup {None} /\ kubeletView \in Token \cup {None}
  /\ seenKubelet \in Token \cup {None}
  /\ pc \in {"idle", "done", "serviceAccount", "list", "extendToken", "createToken"} \cup Writing
  /\ listed \in ListedToken \cup {None} /\ tok \in Token \cup {None} /\ faults \in Nat
  /\ pc = "extendToken" => listed # None
  /\ pc \in {"list", "extendToken", "createToken"} => ~fromSA
  /\ pc \in Writing => tok \in (IF fromSA THEN {SAToken} ELSE Ids)
  /\ pc = "serviceAccount" => fromSA
  /\ fromSA => updated = FALSE

-----------------------------------------------------------------------------
(* ReturnedTokenLive.  A cache shows a token with at most the time it has   *)
(* left (tokens are extended, never shortened, and the cleaner deletes one  *)
(* only when the cache shows none left either), and so does what the call   *)
(* has listed.  A token that the call has decided on had two quarters of an *)
(* hour left when no tick had fallen into the call, and one when one had.   *)

AtLeast(i, q) == tokens[i] \in 0..Life /\ tokens[i] >= q

NoLonger ==
  /\ \A i \in Ids : tokensView[i] \in 1..Life => AtLeast(i, tokensView[i])
  /\ pc = "extendToken" /\ listed.left >= 1 => AtLeast(listed.id, listed.left)
  /\ pc \in Writing /\ ~fromSA => AtLeast(tok, IF straddled THEN 1 ELSE 2)

-----------------------------------------------------------------------------
(* AtMostOneToken and KubeletCarriesToken.  Without a cache, a call that    *)
(* creates a token has seen that there is none, and nobody else creates     *)
(* one.                                                                     *)

Alone ==
  ~cached => /\ \A i, j \in Existing(tokens) : i = j
             /\ pc = "createToken" => Existing(tokens) = {}

\* The secret that the call has read, or missed, is as it was.
Undisturbed ==
  ~cached => /\ pc = "createKubelet" => kubelet = None
             /\ pc = "updateKubelet" => kubelet = seenKubelet

\* As long as no call has failed, the kubeconfig has the token of the key whenever both
\* exist, except after a new token was created and before the secret is written.
Carried ==
  ~cached /\ faults = 0 /\ ~fromSA /\ kubelet # None /\ (pc \in Writing => updated)
    => \A i \in Existing(tokens) : kubelet = i

Inv == TypeInv /\ NoLonger /\ Alone /\ Undisturbed /\ Carried

-----------------------------------------------------------------------------
\* A quarter of an hour passes: what a token has left stays in its range.
LEMMA ElapseType == ASSUME NEW l \in Left PROVE Elapse(l) \in Left
BY DEF Elapse, Left, Life

\* A quarter of an hour passes: the object that was listed stays one, with the same id.
LEMMA ElapseListed ==
  ASSUME listed \in ListedToken, TypeInv
  PROVE  /\ [listed EXCEPT !.left = Elapse(@)] \in ListedToken
         /\ [listed EXCEPT !.left = Elapse(@)] = [id |-> listed.id, left |-> Elapse(listed.left)]
<1>1. PICK i \in Ids, l \in 0..Life : listed = [id |-> i, left |-> l]
  BY DEF ListedToken
<1>2. Elapse(l) \in 0..Life
  BY BootstrapAssumption DEF Elapse, Life
<1>. QED  BY <1>1, <1>2 DEF ListedToken

\* The types hold at the start.
LEMMA TypeInit == Init => TypeInv
<1>. SUFFICES ASSUME Init PROVE TypeInv
  OBVIOUS
<1>1. tokens \in [Ids -> Left] /\ tokensView \in [Ids -> Left]
  BY DEF Init, Left
<1>2. updated \in BOOLEAN /\ straddled \in BOOLEAN /\ cached \in BOOLEAN /\ fromSA \in BOOLEAN
  BY DEF Init
<1>. QED  BY <1>1, <1>2 DEF Init, TypeInv, Writing

\* Every step of a call, of the cluster and of time keeps the types.
LEMMA TypeStep == TypeInv /\ [Next]_vars => TypeInv'
<1>. SUFFICES ASSUME TypeInv, [Next]_vars PROVE TypeInv'
  OBVIOUS
<1>. USE DEF vars, config, store, views, call
<1>1. CASE CreateBootstrapKubeconfig
  BY <1>1 DEF CreateBootstrapKubeconfig, TypeInv, Writing, InCall
<1>2. CASE getTokenFromServiceAccount
  BY <1>2 DEF getTokenFromServiceAccount, TypeInv, Writing, Token
<1>3. CASE getSecretIfExists
  <2>1. ReadTokens \in [Ids -> Left]
    BY DEF ReadTokens, TypeInv
  <2>2. \A i \in Existing(ReadTokens) : [id |-> i, left |-> ReadTokens[i]] \in ListedToken
    BY <2>1 DEF Existing, ListedToken, Left
  <2>3. CASE pc' = "extendToken"
    BY <1>3, <2>2, <2>3, BootstrapAssumption DEF getSecretIfExists, TypeInv, Writing, Error, Return
  <2>4. CASE pc' # "extendToken"
    BY <1>3, <2>4 DEF getSecretIfExists, TypeInv, Writing, Error, Return
  <2>. QED  BY <2>3, <2>4
<1>4. CASE updateSecretExpirationAndGetToken
  <2>1. listed \in ListedToken /\ listed.id \in Ids /\ ~fromSA
    BY <1>4 DEF updateSecretExpirationAndGetToken, TypeInv, ListedToken
  <2>2. tokens' \in [Ids -> Left]
    BY <1>4, <2>1 DEF updateSecretExpirationAndGetToken, TypeInv, Left, Life, Error
  <2>3. CASE Error
    BY <1>4, <2>2, <2>3 DEF updateSecretExpirationAndGetToken, TypeInv, Writing, Error, Return
  <2>4. CASE ~Error
    BY <1>4, <2>1, <2>2, <2>4 DEF updateSecretExpirationAndGetToken, TypeInv, Writing, Token
  <2>. QED  BY <2>3, <2>4
<1>5. CASE createBootstrapToken
  <2>1. tokens' \in [Ids -> Left]
    BY <1>5 DEF createBootstrapToken, TypeInv, Left, Life, Error, Fresh
  <2>2. CASE Error
    BY <1>5, <2>1, <2>2 DEF createBootstrapToken, TypeInv, Writing, Error, Return
  <2>3. CASE ~Error
    BY <1>5, <2>1, <2>3 DEF createBootstrapToken, TypeInv, Writing, Token, Fresh
  <2>. QED  BY <2>2, <2>3
<1>6. CASE getKubeletSecret
  BY <1>6 DEF getKubeletSecret, TypeInv, Writing, Return, ReadKubelet
<1>7. CASE createKubeletSecret
  BY <1>7 DEF createKubeletSecret, TypeInv, Writing, Return, Error
<1>8. CASE updateKubeletSecret
  BY <1>8 DEF updateKubeletSecret, TypeInv, Writing, Return, Error
<1>9. CASE Fail
  <2>1. faults' \in Nat
    BY <1>9 DEF Fail, TypeInv
  <2>2. updated' \in BOOLEAN /\ straddled' \in BOOLEAN
    BY <1>9 DEF Fail, Error, Return
  <2>. QED  BY <1>9, <2>1, <2>2 DEF Fail, TypeInv, Writing, Return, Error
<1>10. CASE DeleteKubelet
  BY <1>10 DEF DeleteKubelet, TypeInv
<1>11. CASE Tick
  <2>1. tokens' \in [Ids -> Left] /\ tokensView' \in [Ids -> Left]
    BY <1>11, ElapseType DEF Tick, TypeInv
  <2>2. listed' \in ListedToken \cup {None} /\ (listed # None => listed' # None)
    BY <1>11, ElapseListed, BootstrapAssumption DEF Tick, TypeInv
  <2>. QED  BY <1>11, <2>1, <2>2 DEF Tick, TypeInv, InCall
<1>12. CASE SyncSecrets
  BY <1>12 DEF SyncSecrets, TypeInv
<1>13. ASSUME NEW i \in Ids, CleanToken(i) PROVE TypeInv'
  BY <1>13 DEF CleanToken, TypeInv, Left
<1>14. CASE UNCHANGED vars
  BY <1>14 DEF TypeInv
<1>. QED
  BY <1>1, <1>2, <1>3, <1>4, <1>5, <1>6, <1>7, <1>8, <1>9, <1>10, <1>11, <1>12, <1>13, <1>14
  DEF Next, Step

-----------------------------------------------------------------------------
\* A quarter of an hour passes: a token keeps what it had, less one.
LEMMA ElapseAtLeast ==
  ASSUME TypeInv, Tick, NEW i \in Ids, NEW q \in 1..Life, AtLeast(i, q)
  PROVE  AtLeast(i, q - 1)'
<1>1. tokens[i] \in 0..Life /\ tokens[i] >= q /\ tokens'[i] = Elapse(tokens[i])
  BY DEF AtLeast, Tick
<1>2. tokens'[i] = tokens[i] - 1
  BY <1>1, BootstrapAssumption DEF Elapse, Life
<1>. QED  BY <1>1, <1>2 DEF AtLeast, Life

\* Nobody shortens a token but time, which runs for the token, for the cache and for what
\* the call has listed alike.
LEMMA NoLongerStep == TypeInv /\ NoLonger /\ [Next]_vars => NoLonger'
<1>. SUFFICES ASSUME TypeInv, NoLonger, [Next]_vars PROVE NoLonger'
  OBVIOUS
<1>. USE DEF vars, config, store, views, call
<1>t. TypeInv'
  BY TypeStep
<1>f. ASSUME UNCHANGED <<tokens, tokensView>>, pc' \notin Writing \cup {"extendToken"}
      PROVE  NoLonger'
  BY <1>f DEF NoLonger, AtLeast
<1>1. CASE CreateBootstrapKubeconfig
  BY <1>1, <1>f DEF CreateBootstrapKubeconfig, Writing
<1>2. CASE getTokenFromServiceAccount
  BY <1>2 DEF getTokenFromServiceAccount, NoLonger, AtLeast, TypeInv, Writing
<1>3. CASE getSecretIfExists
  <2>1. CASE pc' # "extendToken"
    BY <1>3, <2>1, <1>f DEF getSecretIfExists, Error, Return, Writing
  <2>2. CASE pc' = "extendToken"
    <3>1. PICK i \in Existing(ReadTokens) : listed' = [id |-> i, left |-> ReadTokens[i]]
      BY <1>3, <2>2 DEF getSecretIfExists, Error, Return
    <3>2. i \in Ids /\ ReadTokens[i] \in 0..Life
      BY DEF Existing, ReadTokens, TypeInv, Left
    <3>3. ReadTokens[i] >= 1 => AtLeast(i, ReadTokens[i])
      <4>1. CASE cached
        BY <3>2, <4>1 DEF NoLonger, ReadTokens, Life
      <4>2. CASE ~cached
        BY <3>2, <4>2 DEF AtLeast, ReadTokens, Life
      <4>. QED  BY <4>1, <4>2
    <3>4. UNCHANGED <<tokens, tokensView>>
      BY <1>3, <2>2 DEF getSecretIfExists, Error, Return
    <3>. QED  BY <2>2, <3>1, <3>3, <3>4 DEF NoLonger, AtLeast, Writing
  <2>. QED  BY <2>1, <2>2
<1>4. CASE updateSecretExpirationAndGetToken
  <2>1. PICK i \in Ids, l \in 0..Life : listed = [id |-> i, left |-> l]
    BY <1>4 DEF updateSecretExpirationAndGetToken, TypeInv, ListedToken
  <2>2. CASE pc' # "getKubelet"
    BY <1>4, <2>2, <1>f DEF updateSecretExpirationAndGetToken, Error, Return, Writing
  <2>3. CASE pc' = "getKubelet" /\ l < Threshold
    <3>1. tokens' = [tokens EXCEPT ![i] = Life] /\ tok' = i /\ tokensView' = tokensView
      BY <1>4, <2>1, <2>3 DEF updateSecretExpirationAndGetToken, Error, Return, Life, Threshold
    <3>2. tokens'[i] = Life /\ \A j \in Ids : j # i => tokens'[j] = tokens[j]
      BY <3>1 DEF TypeInv
    <3>3. AtLeast(i, 2)'
      BY <3>2 DEF AtLeast, Life
    <3>4. \A j \in Ids : tokensView[j] \in 1..Life => AtLeast(j, tokensView[j])'
      BY <3>1, <3>2 DEF NoLonger, AtLeast, Life
    <3>. QED  BY <2>3, <3>1, <3>3, <3>4 DEF NoLonger, AtLeast, Writing
  <2>4. CASE pc' = "getKubelet" /\ l >= Threshold
    <3>1. UNCHANGED <<tokens, tokensView>> /\ tok' = i
      BY <1>4, <2>1, <2>4 DEF updateSecretExpirationAndGetToken, Error, Return, Life, Threshold
    <3>2. AtLeast(i, l)
      BY <1>4, <2>1, <2>4 DEF updateSecretExpirationAndGetToken, NoLonger, Threshold
    <3>3. AtLeast(i, 2)'
      BY <2>4, <3>1, <3>2 DEF AtLeast, Threshold, Life
    <3>. QED  BY <2>4, <3>1, <3>3 DEF NoLonger, AtLeast, Writing
  <2>. QED  BY <2>2, <2>3, <2>4 DEF Threshold, Life
<1>5. CASE createBootstrapToken
  <2>1. CASE Error
    BY <1>5, <2>1, <1>f DEF createBootstrapToken, Error, Return, Writing
  <2>2. CASE ~Error
    <3>1. PICK i \in Fresh : tokens' = [tokens EXCEPT ![i] = Life] /\ tok' = i
      BY <1>5, <2>2 DEF createBootstrapToken
    <3>2. /\ i \in Ids /\ tokens'[i] = Life /\ tokensView' = tokensView
          /\ \A j \in Ids : j # i => tokens'[j] = tokens[j]
      BY <1>5, <3>1 DEF createBootstrapToken, TypeInv, Fresh
    <3>3. AtLeast(i, 2)'
      BY <3>2 DEF AtLeast, Life
    <3>4. \A j \in Ids : tokensView[j] \in 1..Life => AtLeast(j, tokensView[j])'
      BY <3>2 DEF NoLonger, AtLeast, Life
    <3>. QED  BY <1>5, <2>2, <3>1, <3>2, <3>3, <3>4 DEF createBootstrapToken, NoLonger, AtLeast, Writing
  <2>. QED  BY <2>1, <2>2
<1>6. CASE getKubeletSecret
  BY <1>6 DEF getKubeletSecret, Return, NoLonger, AtLeast, Writing
<1>7. CASE createKubeletSecret
  BY <1>7, <1>f DEF createKubeletSecret, Return, Error, Writing
<1>8. CASE updateKubeletSecret
  BY <1>8, <1>f DEF updateKubeletSecret, Return, Error, Writing
<1>9. CASE Fail
  BY <1>9, <1>f DEF Fail, Return, Error, Writing
<1>10. CASE DeleteKubelet
  BY <1>10 DEF DeleteKubelet, NoLonger, AtLeast
<1>11. CASE Tick
  <2>1. ASSUME NEW i \in Ids, tokensView'[i] \in 1..Life PROVE AtLeast(i, tokensView[i])'
    <3>1. tokensView'[i] = Elapse(tokensView[i]) /\ tokensView[i] \in Left
      BY <1>11 DEF Tick, TypeInv
    <3>2. tokensView[i] \in 1..Life /\ tokensView'[i] = tokensView[i] - 1
      BY <2>1, <3>1, BootstrapAssumption DEF Elapse, Left, Life
    <3>3. AtLeast(i, tokensView[i])
      BY <3>2 DEF NoLonger
    <3>. QED  BY <1>11, <3>2, <3>3, ElapseAtLeast DEF AtLeast
  <2>2. ASSUME pc' = "extendToken", listed'.left >= 1 PROVE AtLeast(listed.id, listed.left)'
    <3>1. pc = "extendToken" /\ listed \in ListedToken /\ listed # None
      BY <1>11, <2>2 DEF Tick, TypeInv
    <3>2. listed' = [id |-> listed.id, left |-> Elapse(listed.left)]
      BY <1>11, <3>1, ElapseListed DEF Tick
    <3>3. listed.id \in Ids /\ listed.left \in 0..Life
      BY <3>1 DEF ListedToken
    <3>4. listed.left \in 1..Life /\ listed'.left = listed.left - 1 /\ listed'.id = listed.id
      BY <2>2, <3>2, <3>3, BootstrapAssumption DEF Elapse, Life
    <3>5. AtLeast(listed.id, listed.left)
      BY <3>1, <3>4 DEF NoLonger, Life
    <3>. QED  BY <1>11, <3>3, <3>4, <3>5, ElapseAtLeast DEF AtLeast
  <2>3. ASSUME pc' \in Writing, ~fromSA' PROVE AtLeast(tok, IF straddled THEN 1 ELSE 2)'
    <3>1. pc \in Writing /\ ~fromSA /\ tok' = tok /\ tok \in Ids
      BY <1>11, <2>3 DEF Tick, TypeInv
    <3>2. InCall /\ ~straddled /\ straddled'
      BY <1>11, <3>1 DEF Tick, InCall, Writing
    <3>3. AtLeast(tok, 2)
      BY <3>1, <3>2 DEF NoLonger
    <3>4. AtLeast(tok, 1)'
      <4>1. AtLeast(tok, 2 - 1)'
        BY <1>11, <3>1, <3>3, ElapseAtLeast DEF AtLeast, Life
      <4>. QED  BY <4>1 DEF AtLeast
    <3>. QED  BY <3>2, <3>4
  <2>. QED  BY <2>1, <2>2, <2>3 DEF NoLonger
<1>12. CASE SyncSecrets
  BY <1>12 DEF SyncSecrets, NoLonger, AtLeast, Life
<1>13. ASSUME NEW i \in Ids, CleanToken(i) PROVE NoLonger'
  <2>1. \A j \in Ids : j # i => tokens'[j] = tokens[j]
    BY <1>13 DEF CleanToken, TypeInv
  <2>2. \A j \in Ids : \A q \in 1..Life : AtLeast(j, q) => AtLeast(j, q)'
    BY <1>13, <2>1 DEF CleanToken, AtLeast, Life
  <2>3. \A j \in Ids : tokensView'[j] \in 1..Life => AtLeast(j, tokensView[j])'
    BY <1>13, <2>2 DEF CleanToken, NoLonger, AtLeast
  <2>4. ASSUME pc' = "extendToken", listed'.left >= 1 PROVE AtLeast(listed.id, listed.left)'
    <3>1. listed' = listed /\ listed.id \in Ids /\ listed.left \in 1..Life
      BY <1>13, <2>4 DEF CleanToken, TypeInv, ListedToken, Life
    <3>2. AtLeast(listed.id, listed.left)
      BY <1>13, <2>4, <3>1 DEF CleanToken, NoLonger
    <3>. QED  BY <2>2, <3>1, <3>2 DEF AtLeast
  <2>5. ASSUME pc' \in Writing, ~fromSA' PROVE AtLeast(tok, IF straddled THEN 1 ELSE 2)'
    <3>1. tok' = tok /\ tok \in Ids /\ straddled' = straddled
      BY <1>13, <2>5 DEF CleanToken, TypeInv
    <3>2. AtLeast(tok, IF straddled THEN 1 ELSE 2)
      BY <1>13, <2>5 DEF CleanToken, NoLonger
    <3>. QED  BY <2>2, <3>1, <3>2 DEF AtLeast, Life
  <2>. QED  BY <2>3, <2>4, <2>5 DEF NoLonger
<1>14. CASE UNCHANGED vars
  BY <1>14 DEF NoLonger, AtLeast
<1>. QED
  BY <1>1, <1>2, <1>3, <1>4, <1>5, <1>6, <1>7, <1>8, <1>9, <1>10, <1>11, <1>12, <1>13, <1>14
  DEF Next, Step

-----------------------------------------------------------------------------
\* Time makes no token and removes none.
LEMMA ElapseExisting == ASSUME TypeInv, Tick PROVE Existing(tokens') = Existing(tokens)
<1>1. \A i \in Ids : tokens'[i] = Elapse(tokens[i]) /\ tokens[i] \in Left
  BY DEF Tick, TypeInv
<1>2. \A l \in Left : Elapse(l) = None <=> l = None
  BY BootstrapAssumption DEF Elapse, Left, Life
<1>. QED  BY <1>1, <1>2 DEF Existing

\* Extending a token makes none and removes none.
LEMMA ExtendExisting ==
  ASSUME TypeInv, updateSecretExpirationAndGetToken
  PROVE  Existing(tokens') = Existing(tokens)
<1>1. listed \in ListedToken /\ listed.id \in Ids /\ listed.left # None /\ Life # None
  BY BootstrapAssumption DEF updateSecretExpirationAndGetToken, TypeInv, ListedToken, Life
<1>2. CASE tokens' = tokens
  BY <1>2
<1>3. CASE tokens[listed.id] = listed.left /\ tokens' = [tokens EXCEPT ![listed.id] = Life]
  BY <1>1, <1>3 DEF Existing, TypeInv
<1>. QED  BY <1>2, <1>3 DEF updateSecretExpirationAndGetToken, Error, store

\* The cleaner removes one token.
LEMMA CleanExisting ==
  ASSUME TypeInv, NEW i \in Ids, CleanToken(i)
  PROVE  Existing(tokens') \subseteq Existing(tokens)
BY DEF CleanToken, TypeInv, Existing

\* A created token is in the cluster beside those that were there.
LEMMA CreateExisting ==
  ASSUME TypeInv, createBootstrapToken, ~Error
  PROVE  \E i \in Ids : tok' = i /\ Existing(tokens') = Existing(tokens) \cup {i}
<1>1. PICK i \in Fresh : tokens' = [tokens EXCEPT ![i] = Life] /\ tok' = i
  BY DEF createBootstrapToken
<1>2. i \in Ids /\ Life # None
  BY BootstrapAssumption DEF Fresh, Life
<1>. QED  BY <1>1, <1>2 DEF Existing, TypeInv

\* Without a cache, a call makes a token only where there is none.
LEMMA AloneStep == TypeInv /\ Alone /\ [Next]_vars => Alone'
<1>. SUFFICES ASSUME TypeInv, Alone, [Next]_vars, ~cached'
              PROVE  /\ \A i, j \in Existing(tokens') : i = j
                     /\ pc' = "createToken" => Existing(tokens') = {}
  BY DEF Alone, Existing
<1>. USE DEF vars, config, store, views, call
<1>c. ~cached
  BY DEF Next, Step, CreateBootstrapKubeconfig, getTokenFromServiceAccount, getSecretIfExists,
         updateSecretExpirationAndGetToken, createBootstrapToken, getKubeletSecret,
         createKubeletSecret, updateKubeletSecret, Fail, DeleteKubelet, Tick, SyncSecrets,
         CleanToken
<1>a. /\ \A i, j \in Existing(tokens) : i = j
      /\ pc = "createToken" => Existing(tokens) = {}
  BY <1>c DEF Alone
<1>f. ASSUME UNCHANGED tokens, pc' # "createToken"
      PROVE  /\ \A i, j \in Existing(tokens') : i = j
             /\ pc' = "createToken" => Existing(tokens') = {}
  BY <1>a, <1>f
<1>1. CASE CreateBootstrapKubeconfig
  BY <1>1, <1>f DEF CreateBootstrapKubeconfig
<1>2. CASE getTokenFromServiceAccount
  BY <1>2, <1>f DEF getTokenFromServiceAccount
<1>3. CASE getSecretIfExists
  <2>1. UNCHANGED tokens /\ (pc' = "createToken" => Existing(tokens) = {})
    BY <1>3, <1>c DEF getSecretIfExists, Error, Return, ReadTokens
  <2>. QED  BY <2>1, <1>a
<1>4. CASE updateSecretExpirationAndGetToken
  <2>1. pc' # "createToken"
    BY <1>4 DEF updateSecretExpirationAndGetToken, Error, Return
  <2>. QED  BY <1>4, <1>a, <2>1, ExtendExisting
<1>5. CASE createBootstrapToken
  <2>1. CASE Error
    BY <1>5, <2>1, <1>f DEF Error, Return
  <2>2. CASE ~Error
    <3>1. Existing(tokens) = {} /\ pc' # "createToken"
      BY <1>5, <2>2, <1>a DEF createBootstrapToken
    <3>. QED  BY <1>5, <2>2, <3>1, CreateExisting
  <2>. QED  BY <2>1, <2>2
<1>6. CASE getKubeletSecret
  BY <1>6, <1>f DEF getKubeletSecret, Return
<1>7. CASE createKubeletSecret
  BY <1>7, <1>f DEF createKubeletSecret, Return, Error
<1>8. CASE updateKubeletSecret
  BY <1>8, <1>f DEF updateKubeletSecret, Return, Error
<1>9. CASE Fail
  BY <1>9, <1>f DEF Fail, Return, Error
<1>10. CASE DeleteKubelet
  BY <1>10, <1>a DEF DeleteKubelet
<1>11. CASE Tick
  <2>1. pc' = pc
    BY <1>11 DEF Tick
  <2>. QED  BY <1>11, <1>a, <2>1, ElapseExisting
<1>12. CASE SyncSecrets
  BY <1>12, <1>c DEF SyncSecrets
<1>13. ASSUME NEW i \in Ids, CleanToken(i)
       PROVE  /\ \A k, j \in Existing(tokens') : k = j
              /\ pc' = "createToken" => Existing(tokens') = {}
  <2>1. pc' = pc
    BY <1>13 DEF CleanToken
  <2>. QED  BY <1>13, <1>a, <2>1, CleanExisting
<1>14. CASE UNCHANGED vars
  BY <1>14, <1>a
<1>. QED
  BY <1>1, <1>2, <1>3, <1>4, <1>5, <1>6, <1>7, <1>8, <1>9, <1>10, <1>11, <1>12, <1>13, <1>14
  DEF Next, Step

\* Without a cache, nobody changes the kubeconfig secret between the call's Get and its write.
LEMMA UndisturbedStep == TypeInv /\ Undisturbed /\ [Next]_vars => Undisturbed'
<1>. SUFFICES ASSUME TypeInv, Undisturbed, [Next]_vars PROVE Undisturbed'
  OBVIOUS
<1>. USE DEF vars, config, store, views, call
<1>f. ASSUME pc' \notin {"createKubelet", "updateKubelet"} PROVE Undisturbed'
  BY <1>f DEF Undisturbed
<1>1. CASE CreateBootstrapKubeconfig
  BY <1>1, <1>f DEF CreateBootstrapKubeconfig
<1>2. CASE getTokenFromServiceAccount
  BY <1>2, <1>f DEF getTokenFromServiceAccount
<1>3. CASE getSecretIfExists
  BY <1>3, <1>f DEF getSecretIfExists, Error, Return
<1>4. CASE updateSecretExpirationAndGetToken
  BY <1>4, <1>f DEF updateSecretExpirationAndGetToken, Error, Return
<1>5. CASE createBootstrapToken
  BY <1>5, <1>f DEF createBootstrapToken, Error, Return
<1>6. CASE getKubeletSecret
  BY <1>6 DEF getKubeletSecret, Return, ReadKubelet, Undisturbed
<1>7. CASE createKubeletSecret
  BY <1>7, <1>f DEF createKubeletSecret, Return, Error
<1>8. CASE updateKubeletSecret
  BY <1>8, <1>f DEF updateKubeletSecret, Return, Error
<1>9. CASE Fail
  BY <1>9, <1>f DEF Fail, Return, Error
<1>10. CASE DeleteKubelet
  BY <1>10, <1>f DEF DeleteKubelet, InCall
<1>11. CASE Tick
  BY <1>11 DEF Tick, Undisturbed
<1>12. CASE SyncSecrets
  BY <1>12 DEF SyncSecrets, Undisturbed
<1>13. ASSUME NEW i \in Ids, CleanToken(i) PROVE Undisturbed'
  BY <1>13 DEF CleanToken, Undisturbed
<1>14. CASE UNCHANGED vars
  BY <1>14 DEF Undisturbed
<1>. QED
  BY <1>1, <1>2, <1>3, <1>4, <1>5, <1>6, <1>7, <1>8, <1>9, <1>10, <1>11, <1>12, <1>13, <1>14
  DEF Next, Step

\* The token that a call has decided on is in the cluster.
LEMMA DecidedExists ==
  ASSUME TypeInv, NoLonger, pc \in Writing, ~fromSA
  PROVE  tok \in Existing(tokens)
<1>1. tok \in Ids /\ tokens[tok] \in 0..Life
  BY DEF TypeInv, NoLonger, AtLeast
<1>. QED  BY <1>1, BootstrapAssumption DEF Existing

\* As long as no call fails, the kubeconfig secret follows the token.
LEMMA CarriedStep == Inv /\ [Next]_vars => Carried'
<1>. SUFFICES ASSUME Inv, [Next]_vars, ~cached', faults' = 0, ~fromSA', kubelet' # None,
                     pc' \in Writing => updated', NEW t \in Existing(tokens')
              PROVE  kubelet' = t
  BY DEF Carried, Existing
<1>. USE DEF vars, config, store, views, call
<1>t. TypeInv /\ NoLonger /\ Alone /\ Undisturbed /\ Carried
  BY DEF Inv
<1>c. ~cached /\ ~fromSA
  BY DEF Next, Step, CreateBootstrapKubeconfig, getTokenFromServiceAccount, getSecretIfExists,
         updateSecretExpirationAndGetToken, createBootstrapToken, getKubeletSecret,
         createKubeletSecret, updateKubeletSecret, Fail, DeleteKubelet, Tick, SyncSecrets,
         CleanToken
<1>f. ASSUME kubelet' = kubelet, faults' = faults, pc \in Writing => updated, t \in Existing(tokens)
      PROVE  kubelet' = t
  BY <1>t, <1>c, <1>f DEF Carried
<1>w. ASSUME kubelet' = tok, tokens' = tokens, pc \in Writing
      PROVE  kubelet' = t
  <2>1. tok \in Existing(tokens)
    BY <1>t, <1>c, <1>w, DecidedExists
  <2>. QED  BY <1>t, <1>c, <1>w, <2>1 DEF Alone
<1>1. CASE CreateBootstrapKubeconfig
  BY <1>1, <1>f DEF CreateBootstrapKubeconfig, InCall, Writing
<1>2. CASE getTokenFromServiceAccount
  BY <1>2, <1>t, <1>c DEF getTokenFromServiceAccount, TypeInv
<1>3. CASE getSecretIfExists
  BY <1>3, <1>f DEF getSecretIfExists, Error, Return, Writing
<1>4. CASE updateSecretExpirationAndGetToken
  <2>1. t \in Existing(tokens)
    BY <1>4, <1>t, ExtendExisting
  <2>. QED  BY <1>4, <1>f, <2>1 DEF updateSecretExpirationAndGetToken, Error, Return, Writing
<1>5. CASE createBootstrapToken
  <2>1. CASE Error
    BY <1>5, <1>f, <2>1 DEF createBootstrapToken, Error, Return, Writing
  <2>2. CASE ~Error
    BY <1>5, <2>2 DEF createBootstrapToken, Writing
  <2>. QED  BY <2>1, <2>2
<1>6. CASE getKubeletSecret
  <2>1. kubelet' = kubelet /\ faults' = faults /\ tokens' = tokens /\ updated' = updated
    BY <1>6 DEF getKubeletSecret
  <2>2. updated
    BY <1>6, <1>c, <2>1 DEF getKubeletSecret, Return, ReadKubelet, Writing
  <2>. QED  BY <1>f, <2>1, <2>2
<1>7. CASE createKubeletSecret
  <2>1. kubelet = None
    BY <1>7, <1>t, <1>c DEF createKubeletSecret, Undisturbed
  <2>. QED  BY <1>7, <1>w, <2>1 DEF createKubeletSecret, Writing
<1>8. CASE updateKubeletSecret
  <2>1. kubelet = seenKubelet
    BY <1>8, <1>t, <1>c DEF updateKubeletSecret, Undisturbed
  <2>. QED  BY <1>8, <1>w, <1>c, <2>1 DEF updateKubeletSecret, Writing
<1>9. CASE Fail
  BY <1>9, <1>t DEF Fail, TypeInv
<1>10. CASE DeleteKubelet
  BY <1>10 DEF DeleteKubelet
<1>11. CASE Tick
  <2>1. t \in Existing(tokens)
    BY <1>11, <1>t, ElapseExisting
  <2>. QED  BY <1>11, <1>f, <2>1 DEF Tick
<1>12. CASE SyncSecrets
  BY <1>12, <1>c DEF SyncSecrets
<1>13. ASSUME NEW i \in Ids, CleanToken(i) PROVE kubelet' = t
  <2>1. t \in Existing(tokens)
    BY <1>13, <1>t, CleanExisting
  <2>. QED  BY <1>13, <1>f, <2>1 DEF CleanToken
<1>14. CASE UNCHANGED vars
  BY <1>14, <1>f
<1>. QED
  BY <1>1, <1>2, <1>3, <1>4, <1>5, <1>6, <1>7, <1>8, <1>9, <1>10, <1>11, <1>12, <1>13, <1>14
  DEF Next, Step

-----------------------------------------------------------------------------
\* The whole invariant holds in every reachable state.
LEMMA Invariant == Spec => []Inv
<1>1. Init => Inv
  <2>. SUFFICES ASSUME Init PROVE Inv
    OBVIOUS
  <2>1. Existing(tokens) = {} /\ pc = "idle" /\ kubelet = None
    BY DEF Init, Existing
  <2>2. \A i \in Ids : tokensView[i] \notin 1..Life
    BY BootstrapAssumption DEF Init, Life
  <2>. QED  BY <2>1, <2>2, TypeInit DEF Inv, NoLonger, Alone, Undisturbed, Carried, Writing
<1>2. Inv /\ [Next]_vars => Inv'
  BY TypeStep, NoLongerStep, AloneStep, UndisturbedStep, CarriedStep DEF Inv
<1>. QED  BY <1>1, <1>2, PTL DEF Spec

\* For every set of ids and any number of failed calls: without cache lag a key never has
\* a second bootstrap token, so getSecretIfExists never finds more than it expects.
THEOREM AtMostOneTokenAlways == Spec => []AtMostOneToken
<1>1. Inv => AtMostOneToken
  <2>. SUFFICES ASSUME Inv, ~cached PROVE Cardinality(Existing(tokens)) <= 1
    BY DEF AtMostOneToken
  <2>1. \A i, j \in Existing(tokens) : i = j
    BY DEF Inv, Alone
  <2>2. CASE Existing(tokens) = {}
    BY <2>2, FS_EmptySet
  <2>3. CASE Existing(tokens) # {}
    <3>1. PICK i : Existing(tokens) = {i}
      BY <2>1, <2>3
    <3>. QED  BY <3>1, FS_Singleton
  <2>. QED  BY <2>2, <2>3
<1>. QED  BY <1>1, Invariant, PTL

\* A call that succeeds is at one of its three last steps, and writes no token there.
LEMMA SuccessSteps ==
  ASSUME TypeInv, [Next]_vars, Succeeds
  PROVE  /\ pc \in Writing /\ UNCHANGED <<tokens, tok, updated, cached, fromSA, faults>>
         /\ kubelet' = tok \/ (kubelet' = kubelet /\ updated /\ ReadKubelet # None)
<1>. USE DEF vars, config, store, views, call
<1>1. getKubeletSecret \/ createKubeletSecret \/ updateKubeletSecret
  BY DEF Succeeds, Next, Step, CreateBootstrapKubeconfig, getTokenFromServiceAccount,
         getSecretIfExists, updateSecretExpirationAndGetToken, createBootstrapToken, Fail, Error,
         Return, DeleteKubelet, Tick, SyncSecrets, CleanToken
<1>2. CASE getKubeletSecret
  BY <1>2 DEF Succeeds, getKubeletSecret, Return, Writing
<1>3. CASE createKubeletSecret
  BY <1>3 DEF Succeeds, createKubeletSecret, Error, Return, Writing
<1>4. CASE updateKubeletSecret
  BY <1>4 DEF Succeeds, updateKubeletSecret, Error, Return, Writing
<1>. QED  BY <1>1, <1>2, <1>3, <1>4

\* The token that a successful call returns is in the cluster and has time left, whatever
\* the cache showed and whoever worked in between.
THEOREM ReturnedTokenLiveAlways == Spec => ReturnedTokenLive
<1>1. ASSUME Inv, [Next]_vars, Succeeds
      PROVE  tok' = SAToken \/ (tok' \in Ids /\ tokens'[tok'] \notin {None, 0})
  <2>1. TypeInv /\ NoLonger
    BY <1>1 DEF Inv
  <2>2. pc \in Writing /\ tok' = tok /\ tokens' = tokens
    BY <1>1, <2>1, SuccessSteps
  <2>3. CASE fromSA
    BY <2>1, <2>2, <2>3 DEF TypeInv
  <2>4. CASE ~fromSA
    <3>1. tok \in Ids /\ tokens[tok] \in 0..Life /\ tokens[tok] >= 1
      BY <2>1, <2>2, <2>4 DEF TypeInv, NoLonger, AtLeast, Life
    <3>. QED  BY <2>2, <3>1, BootstrapAssumption DEF Life
  <2>. QED  BY <2>3, <2>4
<1>2. Inv /\ [Next]_vars
        => [Succeeds => tok' = SAToken \/ (tok' \in Ids /\ tokens'[tok'] \notin {None, 0})]_vars
  BY <1>1
<1>. QED  BY <1>2, Invariant, PTL DEF Spec, ReturnedTokenLive

\* While no call fails and no cache lags, a successful call leaves its token in the kubelet
\* kubeconfig secret, the early return after an extension included.
THEOREM KubeletCarriesTokenAlways == Spec => KubeletCarriesToken
<1>1. ASSUME Inv, [Next]_vars, Succeeds, ~cached, faults' = 0
      PROVE  kubelet' = tok'
  <2>1. TypeInv /\ NoLonger /\ Carried
    BY <1>1 DEF Inv
  <2>2. /\ pc \in Writing /\ UNCHANGED <<tok, faults>>
        /\ kubelet' = tok \/ (kubelet' = kubelet /\ updated /\ ReadKubelet # None)
    BY <1>1, <2>1, SuccessSteps
  <2>3. CASE kubelet' = kubelet /\ updated /\ ReadKubelet # None
    <3>1. kubelet # None /\ ~fromSA /\ faults = 0
      BY <1>1, <2>1, <2>2, <2>3 DEF ReadKubelet, TypeInv
    <3>2. tok \in Existing(tokens)
      BY <2>1, <2>2, <3>1, DecidedExists
    <3>. QED  BY <1>1, <2>1, <2>2, <2>3, <3>1, <3>2 DEF Carried
  <2>. QED  BY <2>2, <2>3
<1>2. Inv /\ [Next]_vars
        => [Succeeds /\ ~cached /\ faults' = 0 => kubelet' = tok']_vars
  BY <1>1
<1>. QED  BY <1>2, Invariant, PTL DEF Spec, KubeletCarriesToken
=============================================================================
