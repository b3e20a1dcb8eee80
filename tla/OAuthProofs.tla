------------------------------ MODULE OAuthProofs ------------------------------
(***************************************************************************)
(* OAuthServer for every number of calls, clients and users: what the      *)
(* store binds a token to, that a presented secret is gone, and that the   *)
(* server implements GrantLineage.                                         *)
(***************************************************************************)
EXTENDS OAuthServer, TLAPS

InFlight(e) == epc[e] \in {"access", "refresh"}

\* A secret is stored only after the step of the call that makes it.
StoredByOwner ==
    /\ \A k \in Consents :
          Stored(CodeOf(k)) => Opened(k) /\ store[CodeOf(k)].root = k
    /\ \A e \in Exchanges :
          /\ Stored(AccessOf(e)) => epc[e] \notin {"idle", "take", "access", "refused"}
          /\ Stored(RefreshOf(e)) => epc[e] \in {"respond", "done", "lost"}

\* An entry is bound to the client and the user of a consent that has put its code.
Bound(entry) ==
    /\ Opened(entry.root)
    /\ entry.client = kreq[entry.root].client
    /\ entry.user = kreq[entry.root].user

AllBound ==
    /\ \A s \in Secrets : Stored(s) => Bound(store[s])
    /\ \A e \in Exchanges :
          InFlight(e) => Bound(ebase[e]) /\ ebase[e].client = ereq[e].client

\* What is presented was handed out, so that no call puts it again.
PresentedWasHanded == \A e \in Exchanges : epc[e] # "idle" => Handed(ereq[e].secret)

\* A consent has one holder of its line at most: a live secret or a redemption
\* under way.
OneHolder ==
    \A k \in Consents :
        /\ \A s, t \in LiveOf(k) : s = t
        /\ \A e \in Exchanges : InFlight(e) /\ ebase[e].root = k => LiveOf(k) = {}
        /\ \A d, e \in Exchanges :
              InFlight(d) /\ InFlight(e) /\ ebase[d].root = k /\ ebase[e].root = k => d = e

IInv ==
    /\ TypeOK
    /\ StoredByOwner
    /\ AllBound
    /\ PresentedWasHanded
    /\ PresentedIsGone
    /\ OneHolder
-------------------------------------------------------------------------------
\* The three makers of secrets make distinct ones.
LEMMA SecretsDistinct ==
    /\ \A k \in Consents : CodeOf(k) \in Secrets /\ CodeOf(k).kind = "code" /\ CodeOf(k).of = k
    /\ \A e \in Exchanges :
          /\ AccessOf(e) \in Secrets /\ AccessOf(e).kind = "access" /\ AccessOf(e).of = e
          /\ RefreshOf(e) \in Secrets /\ RefreshOf(e).kind = "refresh" /\ RefreshOf(e).of = e
    /\ \A s \in Secrets :
          \/ s.kind = "code" /\ s.of \in Consents /\ s = CodeOf(s.of)
          \/ s.kind = "access" /\ s.of \in Exchanges /\ s = AccessOf(s.of)
          \/ s.kind = "refresh" /\ s.of \in Exchanges /\ s = RefreshOf(s.of)
BY DEF Secrets, CodeOf, AccessOf, RefreshOf

LEMMA InitIInv == Init => IInv
<1> SUFFICES ASSUME Init PROVE IInv
  OBVIOUS
<1>1. TypeOK
  BY DEF Init, TypeOK, ConsentPc, ExchangePc, BearerPc
<1>2. \A s \in Secrets : ~Stored(s)
  BY DEF Init, Stored
<1>3. StoredByOwner
  BY <1>2, SecretsDistinct DEF StoredByOwner
<1>4. AllBound /\ PresentedWasHanded /\ PresentedIsGone
  BY <1>2 DEF Init, AllBound, InFlight, PresentedWasHanded, PresentedIsGone
<1>5. OneHolder
  BY <1>2 DEF Init, OneHolder, LiveOf, InFlight
<1> QED BY <1>1, <1>3, <1>4, <1>5 DEF IInv

\* Steps that leave the store, the consents and the exchanges alone.
LEMMA QuietIInv ==
    ASSUME IInv, TypeOK', UNCHANGED <<store, kpc, kreq, epc, ereq, ebase>>
    PROVE  IInv'
<1>1. StoredByOwner' /\ AllBound' /\ PresentedWasHanded' /\ PresentedIsGone'
  BY DEF IInv, StoredByOwner, AllBound, Bound, PresentedWasHanded, PresentedIsGone,
         Stored, Handed, Opened, InFlight, LooksUp
<1>2. OneHolder'
  BY DEF IInv, OneHolder, LiveOf, Stored, InFlight
<1> QED BY <1>1, <1>2 DEF IInv

\* Removing a secret from the store disturbs nothing.
LEMMA RemovedIInv ==
    ASSUME IInv, TypeOK', NEW s \in Secrets,
           store' = [store EXCEPT ![s] = Nothing],
           UNCHANGED <<kpc, kreq, epc, ereq, ebase>>
    PROVE  IInv'
<1>1. /\ \A t \in Secrets : Stored(t)' => Stored(t) /\ store'[t] = store[t]
      /\ \A k \in Consents : LiveOf(k)' \subseteq LiveOf(k)
  BY DEF IInv, TypeOK, Stored, LiveOf
<1>2. StoredByOwner' /\ AllBound' /\ PresentedWasHanded'
  BY <1>1, SecretsDistinct
  DEF IInv, StoredByOwner, AllBound, Bound, PresentedWasHanded, Handed, Opened, InFlight
<1>3. PresentedIsGone'
  <2>1. \A e \in Exchanges : epc[e] # "idle" => ereq[e].secret \in Secrets
    BY DEF IInv, TypeOK, ERequest
  <2> QED BY <1>1, <2>1 DEF IInv, PresentedIsGone, LooksUp
<1>4. OneHolder'
  BY <1>1 DEF IInv, OneHolder, InFlight
<1> QED BY <1>2, <1>3, <1>4 DEF IInv

\* A step of a consent that stores nothing.
LEMMA ConsentQuietIInv ==
    ASSUME IInv, TypeOK', NEW k \in Consents,
           UNCHANGED <<store, epc, ereq, ebase>>,
           \A j \in Consents : /\ Opened(j) => Opened(j)' /\ kreq'[j] = kreq[j]
                               /\ kpc[j] = "issued" => kpc'[j] = "issued"
    PROVE  IInv'
<1>1. \A s \in Secrets : Stored(s) => store[s].root \in Consents
  BY DEF IInv, TypeOK, Stored, Entry
<1>2. \A e \in Exchanges : InFlight(e) => ebase[e].root \in Consents
  BY DEF IInv, TypeOK, InFlight, Entry
<1>3. StoredByOwner'
  BY DEF IInv, StoredByOwner, Stored, InFlight
<1>4. AllBound'
  BY <1>1, <1>2 DEF IInv, AllBound, Bound, Stored, InFlight
<1>5. PresentedWasHanded'
  BY SecretsDistinct DEF IInv, TypeOK, ERequest, PresentedWasHanded, Handed
<1>6. PresentedIsGone' /\ OneHolder'
  BY DEF IInv, PresentedIsGone, OneHolder, LiveOf, Stored, InFlight, LooksUp
<1> QED BY <1>3, <1>4, <1>5, <1>6 DEF IInv

LEMMA PutCodeIInv ==
    ASSUME IInv, NEW k \in Consents, PutCode(k)
    PROVE  IInv'
<1> DEFINE new == [client |-> kreq[k].client, user |-> kreq[k].user, root |-> k]
<1>1. /\ kpc[k] = "put" /\ store' = [store EXCEPT ![CodeOf(k)] = new]
      /\ kpc' = [kpc EXCEPT ![k] = "redirect"]
      /\ UNCHANGED <<clients, allowed, expired, kreq, kallowed, epc, ereq, ebase,
                     bpc, bsecret, bentry, bseen>>
  BY DEF PutCode, app, evars, bvars
<1>2. new \in Entry /\ kreq[k] \in KRequest
  BY <1>1 DEF IInv, TypeOK, Entry, KRequest
<1>3. TypeOK'
  BY <1>1, <1>2, SecretsDistinct DEF IInv, TypeOK, ConsentPc
<1>4. /\ \A s \in Secrets : s # CodeOf(k) => store'[s] = store[s]
      /\ store'[CodeOf(k)] = new
  BY <1>1, SecretsDistinct DEF IInv, TypeOK
<1>5. \A j \in Consents : /\ Opened(j) => Opened(j)' /\ j # k
                          /\ kpc[j] = "issued" => kpc'[j] = "issued"
  BY <1>1 DEF IInv, TypeOK, Opened
<1>6. Opened(k)'
  BY <1>1 DEF IInv, TypeOK, Opened
<1>7. StoredByOwner'
  <2>1. \A j \in Consents : Stored(CodeOf(j))' => Opened(j)' /\ store'[CodeOf(j)].root = j
    BY <1>4, <1>5, <1>6, SecretsDistinct DEF IInv, StoredByOwner, Stored
  <2>2. \A e \in Exchanges : /\ Stored(AccessOf(e))' = Stored(AccessOf(e))
                             /\ Stored(RefreshOf(e))' = Stored(RefreshOf(e))
    BY <1>4, SecretsDistinct DEF Stored
  <2> QED BY <1>1, <2>1, <2>2 DEF IInv, StoredByOwner
<1>8. AllBound'
  <2>1. \A s \in Secrets : Stored(s)' => Bound(store[s])'
    <3>1. \A s \in Secrets : Stored(s) => store[s].root \in Consents
      BY DEF IInv, TypeOK, Stored, Entry
    <3>2. \A s \in Secrets : s # CodeOf(k) /\ Stored(s)' => Bound(store[s])'
      BY <1>1, <1>4, <1>5, <3>1 DEF IInv, AllBound, Bound, Stored
    <3>3. Bound(store[CodeOf(k)])'
      BY <1>1, <1>4, <1>6 DEF Bound
    <3> QED BY <3>2, <3>3
  <2>2. \A e \in Exchanges :
          InFlight(e)' => Bound(ebase[e])' /\ (ebase[e].client = ereq[e].client)'
    <3>1. \A e \in Exchanges : InFlight(e) => ebase[e].root \in Consents
      BY DEF IInv, TypeOK, InFlight, Entry
    <3> QED BY <1>1, <1>5, <3>1 DEF IInv, AllBound, Bound, InFlight
  <2> QED BY <2>1, <2>2 DEF AllBound
<1>9. PresentedWasHanded'
  BY <1>1, <1>5, SecretsDistinct DEF IInv, TypeOK, ERequest, PresentedWasHanded, Handed
<1>10. PresentedIsGone'
  \* A secret presented was handed out, and the code of k is not.
  <2>1. \A e \in Exchanges : epc[e] # "idle" => ereq[e].secret # CodeOf(k)
    BY <1>1, SecretsDistinct DEF IInv, PresentedWasHanded, Handed
  <2>2. \A e \in Exchanges : epc[e] # "idle" => ereq[e].secret \in Secrets
    BY DEF IInv, TypeOK, ERequest
  <2> QED BY <1>1, <1>4, <2>1, <2>2 DEF IInv, PresentedIsGone, LooksUp, Stored
<1>11. OneHolder'
  \* Nothing descends from k before its code is put.
  <2>1. ~Opened(k)
    BY <1>1 DEF Opened
  <2>2. LiveOf(k) = {} /\ LiveOf(k)' \subseteq {CodeOf(k)}
    BY <1>4, <2>1 DEF IInv, AllBound, Bound, LiveOf, Stored
  <2>3. \A e \in Exchanges : InFlight(e) => ebase[e].root # k
    BY <2>1 DEF IInv, AllBound, Bound
  <2>4. \A j \in Consents : j # k => LiveOf(j)' = LiveOf(j)
    <3>1. ~Stored(CodeOf(k))
      BY <2>1 DEF IInv, StoredByOwner
    <3> QED BY <1>4, <3>1 DEF LiveOf, Stored
  <2>5. \A e \in Exchanges : InFlight(e)' = InFlight(e) /\ ebase'[e] = ebase[e]
    BY <1>1 DEF InFlight
  <2> QED BY <2>2, <2>3, <2>4, <2>5 DEF IInv, OneHolder
<1> QED BY <1>3, <1>7, <1>8, <1>9, <1>10, <1>11 DEF IInv

LEMMA ConsentStepIInv ==
    ASSUME IInv, NEW k \in Consents, ConsentStep(k)
    PROVE  IInv'
<1> USE DEF app, kvars, evars, bvars
<1>1. ASSUME NEW x \in Clients, NEW u \in Users, BeginConsent(k, x, u)
      PROVE  IInv'
  <2>1. TypeOK'
    BY <1>1 DEF IInv, TypeOK, BeginConsent, KRequest, ConsentPc
  <2>2. \A j \in Consents : /\ Opened(j) => Opened(j)' /\ kreq'[j] = kreq[j]
                            /\ kpc[j] = "issued" => kpc'[j] = "issued"
    BY <1>1 DEF IInv, TypeOK, BeginConsent, Opened
  <2> QED BY <1>1, <2>1, <2>2, ConsentQuietIInv DEF BeginConsent
<1>3. ASSUME NEW x \in Clients, NEW u \in Users, ShowPage(k, x, u)
      PROVE  IInv'
  <2>1. TypeOK'
    BY <1>3 DEF IInv, TypeOK, ShowPage, KRequest, ConsentPc
  <2>2. \A j \in Consents : /\ Opened(j) => Opened(j)' /\ kreq'[j] = kreq[j]
                            /\ kpc[j] = "issued" => kpc'[j] = "issued"
    BY <1>3 DEF IInv, TypeOK, ShowPage, Opened
  <2> QED BY <1>3, <2>1, <2>2, ConsentQuietIInv DEF ShowPage
<1>2. CASE CheckConsent(k) \/ DenyConsent(k) \/ Redirect(k)
  <2>1. TypeOK'
    BY <1>2 DEF IInv, TypeOK, CheckConsent, DenyConsent, Redirect, ConsentPc
  <2>2. \A j \in Consents : /\ Opened(j) => Opened(j)' /\ kreq'[j] = kreq[j]
                            /\ kpc[j] = "issued" => kpc'[j] = "issued"
    BY <1>2 DEF IInv, TypeOK, CheckConsent, DenyConsent, Redirect, Opened
  <2> QED BY <1>2, <2>1, <2>2, ConsentQuietIInv DEF CheckConsent, DenyConsent, Redirect
<1> QED BY <1>1, <1>2, <1>3, PutCodeIInv DEF ConsentStep

\* A step of an exchange that neither stores nor takes, and only drops holders.
LEMMA ExchangeQuietIInv ==
    ASSUME IInv, TypeOK', NEW e \in Exchanges,
           UNCHANGED <<store, kpc, kreq, ereq, ebase>>,
           \A d \in Exchanges \ {e} : epc'[d] = epc[d],
           epc[e] # "idle", epc'[e] # "idle",
           epc[e] = "done" => epc'[e] = "done",
           InFlight(e)' => InFlight(e),
           Stored(AccessOf(e)) => epc'[e] \notin {"idle", "take", "access", "refused"},
           Stored(RefreshOf(e)) => epc'[e] \in {"respond", "done", "lost"},
           epc'[e] \in {"access", "refresh", "respond", "done", "refused", "lost"} /\ LooksUp(e)
              => ~Stored(ereq[e].secret)
    PROVE  IInv'
<1>1. StoredByOwner'
  BY DEF IInv, StoredByOwner, Stored, Opened
<1>2. AllBound'
  BY DEF IInv, AllBound, Bound, Stored, Opened, InFlight
<1>3. PresentedWasHanded'
  <2>1. \A t \in Secrets : Handed(t) => Handed(t)'
    BY SecretsDistinct DEF Handed
  <2>2. \A d \in Exchanges : epc[d] # "idle" => ereq[d].secret \in Secrets
    BY DEF IInv, TypeOK, ERequest
  <2> QED BY <2>1, <2>2 DEF IInv, PresentedWasHanded
<1>4. PresentedIsGone'
  BY DEF IInv, PresentedIsGone, Stored, LooksUp
<1>5. OneHolder'
  BY DEF IInv, OneHolder, LiveOf, Stored, InFlight
<1> QED BY <1>1, <1>2, <1>3, <1>4, <1>5 DEF IInv

LEMMA BeginExchangeIInv ==
    ASSUME IInv, NEW e \in Exchanges, NEW x \in Clients, NEW s \in Secrets,
           NEW g \in Grants, NEW proof \in BOOLEAN,
           BeginExchange(e, x, s, g, proof)
    PROVE  IInv'
<1>1. /\ epc[e] = "idle" /\ Handed(s) /\ epc' = [epc EXCEPT ![e] = "take"]
      /\ ereq' = [ereq EXCEPT ![e] =
                     [client |-> x, secret |-> s, grant |-> g, proof |-> proof]]
      /\ UNCHANGED <<clients, allowed, store, expired, kpc, kreq, kallowed, ebase,
                     bpc, bsecret, bentry, bseen>>
  BY DEF BeginExchange, app, kvars, bvars
<1>2. TypeOK'
  BY <1>1 DEF IInv, TypeOK, ERequest, ExchangePc
<1>3. \A d \in Exchanges : /\ InFlight(d)' <=> InFlight(d)
                           /\ d # e => epc'[d] = epc[d] /\ ereq'[d] = ereq[d]
                           /\ epc[d] = "done" => epc'[d] = "done"
  BY <1>1 DEF IInv, TypeOK, InFlight
<1>4. StoredByOwner'
  <2>1. ~Stored(AccessOf(e)) /\ ~Stored(RefreshOf(e))
    BY <1>1 DEF IInv, StoredByOwner
  <2> QED BY <1>1, <1>3, <2>1 DEF IInv, StoredByOwner, Stored, Opened
<1>5. AllBound'
  BY <1>1, <1>3 DEF IInv, AllBound, Bound, Stored, Opened, InFlight
<1>6. PresentedWasHanded'
  <2>1. ereq'[e].secret = s
    BY <1>1 DEF IInv, TypeOK
  <2>2. \A t \in Secrets : Handed(t) => Handed(t)'
    BY <1>1, <1>3, SecretsDistinct DEF Handed
  <2>3. \A d \in Exchanges : epc[d] # "idle" => ereq[d].secret \in Secrets
    BY DEF IInv, TypeOK, ERequest
  <2> QED BY <1>1, <1>3, <2>1, <2>2, <2>3 DEF IInv, PresentedWasHanded
<1>7. PresentedIsGone'
  <2>1. epc'[e] = "take"
    BY <1>1 DEF IInv, TypeOK
  <2> QED BY <1>1, <1>3, <2>1 DEF IInv, PresentedIsGone, Stored, LooksUp
<1>8. OneHolder'
  BY <1>1, <1>3 DEF IInv, OneHolder, LiveOf, Stored
<1> QED BY <1>2, <1>4, <1>5, <1>6, <1>7, <1>8 DEF IInv

LEMMA TakeIInv ==
    ASSUME IInv, NEW e \in Exchanges, Take(e)
    PROVE  IInv'
<1> DEFINE s == ereq[e].secret
<1>1. /\ epc[e] = "take" /\ Finds(e) /\ store' = [store EXCEPT ![s] = Nothing]
      /\ UNCHANGED <<clients, allowed, expired, kpc, kreq, kallowed, ereq,
                     bpc, bsecret, bentry, bseen>>
  BY DEF Take, app, kvars, bvars
<1>2. \/ /\ Valid(e) /\ epc' = [epc EXCEPT ![e] = "access"]
         /\ ebase' = [ebase EXCEPT ![e] = store[s]]
      \/ epc' = [epc EXCEPT ![e] = "refused"] /\ UNCHANGED ebase
  BY DEF Take
<1>3. /\ s \in Secrets /\ Stored(s) /\ store[s] \in Entry
      /\ ereq[e] \in ERequest
  BY <1>1 DEF IInv, TypeOK, ERequest, Finds, Stored
<1>4. TypeOK'
  BY <1>1, <1>2, <1>3 DEF IInv, TypeOK, ExchangePc
<1>5. /\ ~Stored(s)'
      /\ \A t \in Secrets : t # s => store'[t] = store[t]
      /\ \A t \in Secrets : Stored(t)' => Stored(t) /\ store'[t] = store[t]
      /\ \A k \in Consents : LiveOf(k)' \subseteq LiveOf(k) /\ s \notin LiveOf(k)'
  BY <1>1, <1>3 DEF IInv, TypeOK, Stored, LiveOf
<1>6. \A d \in Exchanges : /\ d # e => epc'[d] = epc[d] /\ ebase'[d] = ebase[d]
                           /\ epc[d] = "done" => epc'[d] = "done"
  BY <1>1, <1>2 DEF IInv, TypeOK
<1>7. epc'[e] \in {"access", "refused"}
  BY <1>2 DEF IInv, TypeOK
<1>8. StoredByOwner'
  <2>1. ~Stored(AccessOf(e)) /\ ~Stored(RefreshOf(e))
    BY <1>1 DEF IInv, StoredByOwner
  <2> QED BY <1>1, <1>5, <1>6, <2>1, SecretsDistinct DEF IInv, StoredByOwner, Opened
<1>9. AllBound'
  <2>1. \A t \in Secrets : Stored(t)' => Bound(store[t])'
    BY <1>1, <1>5 DEF IInv, AllBound, Bound, Opened
  <2>2. InFlight(e)' => Bound(ebase[e])' /\ (ebase[e].client = ereq[e].client)'
    <3>1. CASE Valid(e) /\ ebase' = [ebase EXCEPT ![e] = store[s]]
      <4>1. ebase'[e] = store[s] /\ store[s].client = ereq[e].client
        BY <3>1 DEF IInv, TypeOK, Valid
      <4>2. Bound(store[s])
        BY <1>3 DEF IInv, AllBound
      <4> QED BY <1>1, <4>1, <4>2 DEF Bound, Opened
    <3>2. CASE epc' = [epc EXCEPT ![e] = "refused"]
      BY <3>2 DEF IInv, TypeOK, InFlight
    <3> QED BY <1>2, <3>1, <3>2
  <2>3. \A d \in Exchanges : d # e /\ InFlight(d)' =>
          Bound(ebase[d])' /\ (ebase[d].client = ereq[d].client)'
    BY <1>1, <1>6 DEF IInv, AllBound, Bound, Opened, InFlight
  <2> QED BY <2>1, <2>2, <2>3 DEF AllBound
<1>10. PresentedWasHanded'
  <2>1. \A t \in Secrets : Handed(t) => Handed(t)'
    BY <1>1, <1>6, SecretsDistinct DEF Handed
  <2>2. \A d \in Exchanges : epc[d] # "idle" => ereq[d].secret \in Secrets
    BY DEF IInv, TypeOK, ERequest
  <2> QED BY <1>1, <1>6, <2>1, <2>2 DEF IInv, PresentedWasHanded
<1>11. PresentedIsGone'
  <2>1. \A d \in Exchanges : epc[d] # "idle" => ereq[d].secret \in Secrets
    BY DEF IInv, TypeOK, ERequest
  <2> QED BY <1>1, <1>5, <1>6, <2>1 DEF IInv, PresentedIsGone, LooksUp
<1>12. OneHolder'
  <2>1. \A d \in Exchanges : d # e => InFlight(d)' = InFlight(d)
    BY <1>6 DEF InFlight
  <2>2. CASE epc' = [epc EXCEPT ![e] = "refused"]
    <3>1. ~InFlight(e)'
      BY <2>2 DEF IInv, TypeOK, InFlight
    <3> QED BY <1>5, <1>6, <2>1, <3>1 DEF IInv, OneHolder
  <2>3. CASE Valid(e) /\ ebase' = [ebase EXCEPT ![e] = store[s]]
    \* The secret taken was the one holder of its line.
    <3>1. PICK k \in Consents : k = store[s].root
      BY <1>3 DEF Entry
    <3>2. ebase'[e].root = k /\ s \in LiveOf(k)
      BY <1>3, <2>3, <3>1 DEF IInv, TypeOK, Valid, LiveOf
    <3>3. LiveOf(k)' = {}
      BY <1>5, <3>2 DEF IInv, OneHolder
    <3>4. \A d \in Exchanges : InFlight(d) => ebase[d].root # k
      BY <3>2 DEF IInv, OneHolder
    <3> QED BY <1>5, <1>6, <2>1, <3>2, <3>3, <3>4 DEF IInv, OneHolder
  <2> QED BY <1>2, <2>2, <2>3
<1> QED BY <1>4, <1>8, <1>9, <1>10, <1>11, <1>12 DEF IInv

LEMMA PutAccessIInv ==
    ASSUME IInv, NEW e \in Exchanges, PutAccess(e)
    PROVE  IInv'
<1>1. /\ epc[e] = "access" /\ store' = [store EXCEPT ![AccessOf(e)] = NewEntry(e)]
      /\ epc' = [epc EXCEPT ![e] = "refresh"]
      /\ UNCHANGED <<clients, allowed, expired, kpc, kreq, kallowed, ereq, ebase,
                     bpc, bsecret, bentry, bseen>>
  BY DEF PutAccess, app, kvars, bvars
<1>2. /\ NewEntry(e) \in Entry /\ NewEntry(e) = ebase[e]
  BY <1>1 DEF IInv, TypeOK, NewEntry, Entry, ERequest, AllBound, InFlight
<1>3. TypeOK'
  BY <1>1, <1>2, SecretsDistinct DEF IInv, TypeOK, ExchangePc
<1>4. /\ store'[AccessOf(e)] = ebase[e]
      /\ \A t \in Secrets : t # AccessOf(e) => store'[t] = store[t]
  BY <1>1, <1>2, SecretsDistinct DEF IInv, TypeOK
<1>5. \A d \in Exchanges : /\ d # e => epc'[d] = epc[d]
                           /\ epc[d] = "done" => epc'[d] = "done"
                           /\ InFlight(d)' = InFlight(d)
  BY <1>1 DEF IInv, TypeOK, InFlight
<1>6. epc'[e] = "refresh"
  BY <1>1 DEF IInv, TypeOK
<1>7. StoredByOwner'
  BY <1>1, <1>4, <1>5, <1>6, SecretsDistinct DEF IInv, StoredByOwner, Stored, Opened
<1>8. AllBound'
  <2>1. Bound(ebase[e])
    BY <1>1 DEF IInv, AllBound, InFlight
  <2> QED BY <1>1, <1>4, <1>5, <2>1 DEF IInv, AllBound, Bound, Stored, Opened
<1>9. PresentedWasHanded'
  <2>1. \A t \in Secrets : Handed(t) => Handed(t)'
    BY <1>1, <1>5, SecretsDistinct DEF Handed
  <2>2. \A d \in Exchanges : epc[d] # "idle" => ereq[d].secret \in Secrets
    BY DEF IInv, TypeOK, ERequest
  <2> QED BY <1>1, <1>5, <2>1, <2>2 DEF IInv, PresentedWasHanded
<1>10. PresentedIsGone'
  \* Nobody can have presented a token that no response has carried yet.
  <2>1. \A d \in Exchanges : epc[d] # "idle" => /\ ereq[d].secret \in Secrets
                                                /\ ereq[d].secret # AccessOf(e)
    BY <1>1, SecretsDistinct DEF IInv, TypeOK, ERequest, PresentedWasHanded, Handed
  <2> QED BY <1>1, <1>4, <1>5, <2>1 DEF IInv, PresentedIsGone, Stored, LooksUp
<1>11. OneHolder'
  <2>1. \A k \in Consents : LiveOf(k)' = LiveOf(k)
    BY <1>4, SecretsDistinct DEF LiveOf, Stored
  <2> QED BY <1>1, <1>5, <2>1 DEF IInv, OneHolder
<1> QED BY <1>3, <1>7, <1>8, <1>9, <1>10, <1>11 DEF IInv

LEMMA PutRefreshIInv ==
    ASSUME IInv, NEW e \in Exchanges, PutRefresh(e)
    PROVE  IInv'
<1>1. /\ epc[e] = "refresh" /\ store' = [store EXCEPT ![RefreshOf(e)] = NewEntry(e)]
      /\ epc' = [epc EXCEPT ![e] = "respond"]
      /\ UNCHANGED <<clients, allowed, expired, kpc, kreq, kallowed, ereq, ebase,
                     bpc, bsecret, bentry, bseen>>
  BY DEF PutRefresh, app, kvars, bvars
<1>2. NewEntry(e) \in Entry /\ NewEntry(e) = ebase[e]
  BY <1>1 DEF IInv, TypeOK, NewEntry, Entry, ERequest, AllBound, InFlight
<1>3. TypeOK'
  BY <1>1, <1>2, SecretsDistinct DEF IInv, TypeOK, ExchangePc
<1>4. /\ store'[RefreshOf(e)] = ebase[e]
      /\ \A t \in Secrets : t # RefreshOf(e) => store'[t] = store[t]
  BY <1>1, <1>2, SecretsDistinct DEF IInv, TypeOK
<1>5. \A d \in Exchanges : /\ d # e => epc'[d] = epc[d] /\ InFlight(d)' = InFlight(d)
                           /\ epc[d] = "done" => epc'[d] = "done"
  BY <1>1 DEF IInv, TypeOK, InFlight
<1>6. epc'[e] = "respond" /\ ~InFlight(e)' /\ InFlight(e)
  BY <1>1 DEF IInv, TypeOK, InFlight
<1>7. StoredByOwner'
  BY <1>1, <1>4, <1>5, <1>6, SecretsDistinct DEF IInv, StoredByOwner, Stored, Opened
<1>8. AllBound'
  <2>1. Bound(ebase[e])
    BY <1>6 DEF IInv, AllBound
  <2> QED BY <1>1, <1>4, <1>5, <1>6, <2>1 DEF IInv, AllBound, Bound, Stored, Opened
<1>9. PresentedWasHanded'
  <2>1. \A t \in Secrets : Handed(t) => Handed(t)'
    BY <1>1, <1>5, SecretsDistinct DEF Handed
  <2>2. \A d \in Exchanges : epc[d] # "idle" => ereq[d].secret \in Secrets
    BY DEF IInv, TypeOK, ERequest
  <2> QED BY <1>1, <1>5, <2>1, <2>2 DEF IInv, PresentedWasHanded
<1>10. PresentedIsGone'
  <2>1. \A d \in Exchanges : epc[d] # "idle" => /\ ereq[d].secret \in Secrets
                                                /\ ereq[d].secret # RefreshOf(e)
    BY <1>1, SecretsDistinct DEF IInv, TypeOK, ERequest, PresentedWasHanded, Handed
  <2> QED BY <1>1, <1>4, <1>5, <2>1 DEF IInv, PresentedIsGone, Stored, LooksUp
<1>11. OneHolder'
  \* The redemption hands its line over to the refresh token it stores.
  <2>1. PICK k \in Consents : k = ebase[e].root
    BY <1>1 DEF IInv, TypeOK, Entry
  <2>2. LiveOf(k) = {}
    BY <1>6, <2>1 DEF IInv, OneHolder
  <2>3. LiveOf(k)' \subseteq {RefreshOf(e)}
    BY <1>4, <2>2 DEF LiveOf, Stored
  <2>4. \A d \in Exchanges : InFlight(d)' => ebase[d].root # k
    BY <1>5, <1>6, <2>1 DEF IInv, OneHolder
  <2>5. \A j \in Consents : j # k => LiveOf(j)' = LiveOf(j)
    <3>1. ~Stored(RefreshOf(e))
      BY <1>1 DEF IInv, StoredByOwner
    <3> QED BY <1>4, <2>1, <3>1 DEF LiveOf, Stored
  <2> QED BY <1>1, <1>5, <1>6, <2>3, <2>4, <2>5 DEF IInv, OneHolder
<1> QED BY <1>3, <1>7, <1>8, <1>9, <1>10, <1>11 DEF IInv

LEMMA ExchangeStepIInv ==
    ASSUME IInv, NEW e \in Exchanges, ExchangeStep(e)
    PROVE  IInv'
<1> USE DEF app, kvars, evars, bvars
<1>1. ASSUME NEW x \in Clients, NEW s \in Secrets, NEW g \in Grants, NEW proof \in BOOLEAN,
             BeginExchange(e, x, s, g, proof)
      PROVE  IInv'
  BY <1>1, BeginExchangeIInv
<1>2. CASE TakeNothing(e) \/ Respond(e) \/ FailExchange(e)
  <2>1. TypeOK'
    BY <1>2 DEF IInv, TypeOK, TakeNothing, Respond, FailExchange, ExchangePc
  <2>2. UNCHANGED <<store, kpc, kreq, ereq, ebase>>
    BY <1>2 DEF TakeNothing, Respond, FailExchange
  <2>3. /\ \A d \in Exchanges \ {e} : epc'[d] = epc[d]
        /\ epc[e] # "idle" /\ epc'[e] # "idle" /\ epc[e] # "done"
        /\ ~InFlight(e)'
    BY <1>2 DEF IInv, TypeOK, TakeNothing, Respond, FailExchange, InFlight
  <2>4. /\ Stored(AccessOf(e)) => epc'[e] \notin {"idle", "take", "access", "refused"}
        /\ Stored(RefreshOf(e)) => epc'[e] \in {"respond", "done", "lost"}
    BY <1>2 DEF IInv, TypeOK, StoredByOwner, TakeNothing, Respond, FailExchange
  <2>5. epc'[e] \in {"access", "refresh", "respond", "done", "refused", "lost"} /\ LooksUp(e)
           => ~Stored(ereq[e].secret)
    BY <1>2 DEF IInv, TypeOK, PresentedIsGone, Finds, TakeNothing, Respond, FailExchange
  <2> QED BY <2>1, <2>2, <2>3, <2>4, <2>5, ExchangeQuietIInv
<1> QED BY <1>1, <1>2, TakeIInv, PutAccessIInv, PutRefreshIInv DEF ExchangeStep

LEMMA BearerStepIInv ==
    ASSUME IInv, NEW b \in Bearers, BearerStep(b)
    PROVE  IInv'
<1> USE DEF app, kvars, evars, bvars
<1>1. UNCHANGED <<clients, allowed, store, expired, kpc, kreq, kallowed, epc, ereq, ebase>>
  BY DEF BearerStep, BeginBearer, ReadToken, CheckUser, RefuseBearer
<1>2. ASSUME NEW s \in Secrets, BeginBearer(b, s) PROVE TypeOK'
  BY <1>2 DEF IInv, TypeOK, BeginBearer, BearerPc
<1>3. ASSUME ReadToken(b) PROVE TypeOK'
  <2>1. bsecret[b] \in Secrets /\ store[bsecret[b]] \in Entry
    BY <1>3 DEF IInv, TypeOK, ReadToken, LiveAccess, Stored
  <2>2. /\ bpc' = [bpc EXCEPT ![b] = "user"]
        /\ bentry' = [bentry EXCEPT ![b] = store[bsecret[b]]]
        /\ UNCHANGED <<bsecret, bseen>>
    BY <1>3 DEF ReadToken
  <2>3. /\ bpc' \in [Bearers -> BearerPc]
        /\ bentry' \in [Bearers -> Entry \cup {Nothing}]
    BY <2>1, <2>2 DEF IInv, TypeOK, BearerPc
  <2>4. \A c \in Bearers : /\ bpc'[c] # "idle" => bsecret'[c] \in Secrets
                           /\ bpc'[c] \in {"user", "granted"} => bentry'[c] \in Entry
    BY <2>1, <2>2 DEF IInv, TypeOK
  <2> QED BY <1>1, <2>2, <2>3, <2>4 DEF IInv, TypeOK
<1>4. ASSUME CheckUser(b) \/ RefuseBearer(b) PROVE TypeOK'
  <2>1. /\ UNCHANGED <<bsecret, bentry, bseen>>
        /\ bpc[b] \in {"token", "user"}
        /\ \E end \in {"granted", "refused"} : bpc' = [bpc EXCEPT ![b] = end]
        /\ bpc[b] = "token" => bpc' = [bpc EXCEPT ![b] = "refused"]
    BY <1>4 DEF CheckUser, RefuseBearer
  <2>2. /\ bpc' \in [Bearers -> BearerPc]
        /\ \A c \in Bearers : /\ bpc'[c] # "idle" => bpc[c] # "idle"
                              /\ bpc'[c] \in {"user", "granted"} => bpc[c] \in {"user", "granted"}
    BY <2>1 DEF IInv, TypeOK, BearerPc
  <2> QED BY <1>1, <2>1, <2>2 DEF IInv, TypeOK
<1> QED BY <1>1, <1>2, <1>3, <1>4, QuietIInv DEF BearerStep

LEMMA NextIInv == IInv /\ [Next]_vars => IInv'
<1> SUFFICES ASSUME IInv, [Next]_vars PROVE IInv'
  OBVIOUS
<1> USE DEF app, kvars, evars, bvars
<1>1. ASSUME NEW x \in Clients, Register(x) PROVE IInv'
  <2>1. TypeOK'
    BY <1>1 DEF IInv, TypeOK, Register
  <2> QED BY <1>1, <2>1, QuietIInv DEF Register
<1>2. ASSUME NEW users \in SUBSET Users, SetAllowed(users) PROVE IInv'
  <2>1. TypeOK'
    BY <1>2 DEF IInv, TypeOK, SetAllowed
  <2> QED BY <1>2, <2>1, QuietIInv DEF SetAllowed
<1>3. ASSUME NEW s \in Secrets, Expire(s) PROVE IInv'
  <2>1. TypeOK'
    BY <1>3 DEF IInv, TypeOK, Expire
  <2> QED BY <1>3, <2>1, QuietIInv DEF Expire
<1>4. ASSUME NEW s \in Secrets, Sweep(s) PROVE IInv'
  <2>1. TypeOK'
    BY <1>4 DEF IInv, TypeOK, Sweep
  <2> QED BY <1>4, <2>1, RemovedIInv DEF Sweep
<1>5. ASSUME NEW b \in Bearers, BearerStep(b) PROVE IInv'
  BY <1>5, BearerStepIInv
<1>6. CASE UNCHANGED vars
  <2>1. TypeOK'
    BY <1>6 DEF IInv, TypeOK, vars
  <2> QED BY <1>6, <2>1, QuietIInv DEF vars
<1> QED BY <1>1, <1>2, <1>3, <1>4, <1>5, <1>6, ConsentStepIInv, ExchangeStepIInv
        DEF Next, Environment

LEMMA SpecIInv == Spec => []IInv
BY InitIInv, NextIInv, PTL DEF Spec

-------------------------------------------------------------------------------
(* Refinement: each step is a step of GrantLineage at one consent, or a stutter. *)

\* The requests that have stored their refresh token.
Renewed(e) == epc[e] \in {"respond", "done", "lost"}

\* A step that changes neither what is opened, nor the live secrets, nor the
\* redemptions under way, is a stutter of the lineage.
LEMMA LineStutter ==
    ASSUME \A k \in Consents : /\ Opened(k)' = Opened(k) /\ LiveOf(k)' = LiveOf(k)
                               /\ OwedTo(k)' = OwedTo(k),
           \A e \in Exchanges : Renewed(e)' = Renewed(e)
    PROVE  UNCHANGED Lineage!lineage
<1>1. \A k \in Consents : PhaseOf(k)' = PhaseOf(k)
  BY DEF PhaseOf
<1>2. UsedSecrets' = UsedSecrets
  BY DEF UsedSecrets, Renewed
<1> QED BY <1>1, <1>2 DEF Lineage!lineage

\* A step that concerns the line of one consent only.
LEMMA LineAt ==
    ASSUME NEW k \in Consents,
           \A j \in Consents \ {k} : /\ Opened(j)' = Opened(j) /\ LiveOf(j)' = LiveOf(j)
                                     /\ OwedTo(j)' = OwedTo(j)
    PROVE  /\ [j \in Consents |-> PhaseOf(j)]'
                = [[j \in Consents |-> PhaseOf(j)] EXCEPT ![k] = PhaseOf(k)']
           /\ [j \in Consents |-> LiveOf(j)]'
                = [[j \in Consents |-> LiveOf(j)] EXCEPT ![k] = LiveOf(k)']
<1>1. \A j \in Consents \ {k} : PhaseOf(j)' = PhaseOf(j)
  BY DEF PhaseOf
<1> QED BY <1>1

LEMMA InitLine == Init => Lineage!LineInit
<1> SUFFICES ASSUME Init PROVE Lineage!LineInit
  OBVIOUS
<1>1. \A k \in Consents : ~Opened(k) /\ LiveOf(k) = {}
  BY DEF Init, Opened, LiveOf, Stored
<1>2. \A k \in Consents : PhaseOf(k) = "new"
  BY <1>1 DEF PhaseOf
<1>3. UsedSecrets = {}
  BY <1>1 DEF Init, UsedSecrets
<1> QED BY <1>1, <1>2, <1>3 DEF Lineage!LineInit

\* Putting the code opens the line of the consent.
LEMMA PutCodeLine ==
    ASSUME IInv, NEW k \in Consents, PutCode(k)
    PROVE  Lineage!Open(k)
<1> DEFINE new == [client |-> kreq[k].client, user |-> kreq[k].user, root |-> k]
<1>1. /\ kpc[k] = "put" /\ store' = [store EXCEPT ![CodeOf(k)] = new]
      /\ kpc' = [kpc EXCEPT ![k] = "redirect"] /\ UNCHANGED <<epc, ereq, ebase>>
  BY DEF PutCode, evars
<1>2. new \in Entry
  BY <1>1 DEF IInv, TypeOK, Entry, KRequest
<1>3. /\ store'[CodeOf(k)] = new
      /\ \A s \in Secrets : s # CodeOf(k) => store'[s] = store[s]
  BY <1>1, SecretsDistinct DEF IInv, TypeOK
<1>4. /\ ~Opened(k) /\ Opened(k)'
      /\ \A j \in Consents \ {k} : Opened(j)' = Opened(j)
  BY <1>1 DEF IInv, TypeOK, Opened
<1>5. ~Stored(CodeOf(k)) /\ LiveOf(k) = {}
  BY <1>4 DEF IInv, StoredByOwner, AllBound, Bound, LiveOf
<1>6. LiveOf(k)' = {CodeOf(k)}
  BY <1>2, <1>3, <1>5, SecretsDistinct, NothingAssumption DEF LiveOf, Stored
<1>7. \A j \in Consents \ {k} : LiveOf(j)' = LiveOf(j) /\ OwedTo(j)' = OwedTo(j)
  BY <1>1, <1>3, <1>5 DEF LiveOf, Stored, OwedTo
<1>8. PhaseOf(k) = "new" /\ PhaseOf(k)' = "live"
  BY <1>4, <1>6 DEF PhaseOf
<1>9. CodeOf(k) \in Secrets \ UsedSecrets /\ UsedSecrets' = UsedSecrets \cup {CodeOf(k)}
  BY <1>1, <1>4, SecretsDistinct DEF UsedSecrets
<1> QED BY <1>4, <1>6, <1>7, <1>8, <1>9, LineAt DEF Lineage!Open, Lineage!Issue

\* Putting the refresh token renews the line.
LEMMA PutRefreshLine ==
    ASSUME IInv, IInv', NEW e \in Exchanges, PutRefresh(e)
    PROVE  \E k \in Consents : Lineage!Renew(k)
<1>1. /\ epc[e] = "refresh" /\ store' = [store EXCEPT ![RefreshOf(e)] = NewEntry(e)]
      /\ epc' = [epc EXCEPT ![e] = "respond"]
      /\ UNCHANGED <<kpc, kreq, ereq, ebase>>
  BY DEF PutRefresh, kvars
<1>2. NewEntry(e) \in Entry /\ NewEntry(e) = ebase[e]
  BY <1>1 DEF IInv, TypeOK, NewEntry, Entry, ERequest, AllBound, InFlight
<1>3. /\ store'[RefreshOf(e)] = ebase[e]
      /\ \A t \in Secrets : t # RefreshOf(e) => store'[t] = store[t]
  BY <1>1, <1>2, SecretsDistinct DEF IInv, TypeOK
<1>4. PICK k \in Consents : k = ebase[e].root
  BY <1>2 DEF Entry
<1>5. InFlight(e) /\ ~InFlight(e)' /\ Opened(k)
  BY <1>1, <1>4 DEF IInv, TypeOK, InFlight, AllBound, Bound
<1>6. \A j \in Consents : Opened(j)' = Opened(j)
  BY <1>1 DEF Opened
<1>7. LiveOf(k) = {} /\ ~Stored(RefreshOf(e))
  BY <1>1, <1>4, <1>5 DEF IInv, OneHolder, StoredByOwner
<1>8. LiveOf(k)' = {RefreshOf(e)}
  BY <1>2, <1>3, <1>4, <1>7, SecretsDistinct, NothingAssumption DEF LiveOf, Stored
<1>9. \A j \in Consents \ {k} : LiveOf(j)' = LiveOf(j) /\ OwedTo(j)' = OwedTo(j)
  <2>1. \A d \in Exchanges \ {e} : epc'[d] = epc[d]
    BY <1>1 DEF IInv, TypeOK
  <2> QED BY <1>1, <1>3, <1>4, <1>5, <1>7, <2>1 DEF LiveOf, Stored, OwedTo, InFlight
<1>10. PhaseOf(k) = "owed" /\ PhaseOf(k)' = "live"
  BY <1>4, <1>5, <1>6, <1>7, <1>8 DEF PhaseOf, OwedTo, InFlight
<1>11. /\ RefreshOf(e) \in Secrets \ UsedSecrets
       /\ UsedSecrets' = UsedSecrets \cup {RefreshOf(e)}
  <2>1. \A d \in Exchanges : Renewed(d)' <=> Renewed(d) \/ d = e
    BY <1>1 DEF IInv, TypeOK, Renewed
  <2>2. ~Renewed(e)
    BY <1>1 DEF Renewed
  <2> QED BY <1>6, <2>1, <2>2, SecretsDistinct DEF UsedSecrets, Renewed
<1> QED BY <1>6, <1>8, <1>9, <1>10, <1>11, LineAt DEF Lineage!Renew, Lineage!Issue

\* Removing a secret closes its line, redeems it or, for an access token, is no
\* event of a line at all.
LEMMA RemovedLine ==
    ASSUME IInv, NEW s \in Secrets, Stored(s),
           store' = [store EXCEPT ![s] = Nothing],
           NEW k \in Consents, k = store[s].root, s.kind # "access"
    PROVE  /\ LiveOf(k) # {} /\ LiveOf(k)' = {}
           /\ \A j \in Consents \ {k} : LiveOf(j)' = LiveOf(j)
           /\ ~OwedTo(k) /\ Opened(k)
<1>1. /\ ~Stored(s)'
      /\ \A t \in Secrets : t # s => store'[t] = store[t]
  BY DEF IInv, TypeOK, Stored
<1>2. s \in LiveOf(k)
  BY DEF LiveOf
<1>3. LiveOf(k)' = {}
  BY <1>1, <1>2 DEF IInv, OneHolder, LiveOf, Stored
<1>4. \A j \in Consents \ {k} : LiveOf(j)' = LiveOf(j)
  BY <1>1 DEF LiveOf, Stored
<1>5. ~OwedTo(k)
  BY <1>2 DEF IInv, OneHolder, OwedTo, InFlight
<1>6. Opened(k)
  BY DEF IInv, AllBound, Bound
<1> QED BY <1>2, <1>3, <1>4, <1>5, <1>6

LEMMA RemovedAccess ==
    ASSUME IInv, NEW s \in Secrets, s.kind = "access",
           store' = [store EXCEPT ![s] = Nothing]
    PROVE  \A k \in Consents : LiveOf(k)' = LiveOf(k)
BY DEF IInv, TypeOK, LiveOf, Stored

LEMMA SweepLine ==
    ASSUME IInv, NEW s \in Secrets, Sweep(s)
    PROVE  (\E k \in Consents : Lineage!Close(k)) \/ UNCHANGED Lineage!lineage
<1>1. /\ Stored(s) /\ store' = [store EXCEPT ![s] = Nothing]
      /\ UNCHANGED <<kpc, epc, ebase>>
  BY DEF Sweep, kvars, evars
<1>2. /\ \A j \in Consents : Opened(j)' = Opened(j) /\ OwedTo(j)' = OwedTo(j)
      /\ \A e \in Exchanges : Renewed(e)' = Renewed(e)
  BY <1>1 DEF Opened, OwedTo, Renewed
<1>3. CASE s.kind = "access"
  BY <1>1, <1>2, <1>3, RemovedAccess, LineStutter
<1>4. CASE s.kind # "access"
  <2>1. PICK k \in Consents : k = store[s].root
    BY <1>1 DEF IInv, TypeOK, Stored, Entry
  <2>2. /\ LiveOf(k) # {} /\ LiveOf(k)' = {}
        /\ \A j \in Consents \ {k} : LiveOf(j)' = LiveOf(j)
        /\ ~OwedTo(k) /\ Opened(k)
    BY <1>1, <1>4, <2>1, RemovedLine
  <2>3. PhaseOf(k) = "live" /\ PhaseOf(k)' = "closed"
    BY <1>2, <2>2 DEF PhaseOf
  <2>4. UsedSecrets' = UsedSecrets
    BY <1>2 DEF UsedSecrets, Renewed
  <2>5. Lineage!Close(k)
    BY <1>2, <2>2, <2>3, <2>4, LineAt DEF Lineage!Close
  <2> QED BY <2>5
<1> QED BY <1>3, <1>4

\* Taking a valid secret redeems its line; taking one that fails a check closes it.
LEMMA TakeLine ==
    ASSUME IInv, NEW e \in Exchanges, Take(e)
    PROVE  \/ \E k \in Consents : Lineage!Redeem(k) \/ Lineage!Close(k)
           \/ UNCHANGED Lineage!lineage
<1>0. PICK s \in Secrets : s = ereq[e].secret
  BY DEF IInv, TypeOK, ERequest, Take
<1>1. /\ epc[e] = "take" /\ Stored(s) /\ store' = [store EXCEPT ![s] = Nothing]
      /\ UNCHANGED kpc
  BY <1>0 DEF Take, Finds, kvars
<1>2. \/ /\ s.kind # "access" /\ epc' = [epc EXCEPT ![e] = "access"]
         /\ ebase' = [ebase EXCEPT ![e] = store[s]]
      \/ epc' = [epc EXCEPT ![e] = "refused"] /\ UNCHANGED ebase
  BY <1>0 DEF Take, Valid
<1>3. /\ \A d \in Exchanges \ {e} : epc'[d] = epc[d] /\ ebase'[d] = ebase[d]
      /\ ~InFlight(e)
  BY <1>1, <1>2 DEF IInv, TypeOK, InFlight
<1>4. /\ \A j \in Consents : Opened(j)' = Opened(j)
      /\ \A d \in Exchanges : Renewed(d)' = Renewed(d)
      /\ UsedSecrets' = UsedSecrets
  <2>1. \A j \in Consents : Opened(j)' = Opened(j)
    BY <1>1 DEF Opened
  <2>2. \A d \in Exchanges : Renewed(d)' = Renewed(d)
    BY <1>1, <1>2 DEF IInv, TypeOK, Renewed
  <2> QED BY <2>1, <2>2 DEF UsedSecrets, Renewed
<1>5. CASE epc' = [epc EXCEPT ![e] = "refused"] /\ UNCHANGED ebase
  <2>1. \A j \in Consents : OwedTo(j)' = OwedTo(j)
    BY <1>1, <1>3, <1>5 DEF IInv, TypeOK, OwedTo
  <2>2. CASE s.kind = "access"
    BY <1>1, <1>4, <2>1, <2>2, RemovedAccess, LineStutter
  <2>3. CASE s.kind # "access"
    <3>1. PICK k \in Consents : k = store[s].root
      BY <1>1 DEF IInv, TypeOK, Stored, Entry
    <3>2. /\ LiveOf(k) # {} /\ LiveOf(k)' = {}
          /\ \A j \in Consents \ {k} : LiveOf(j)' = LiveOf(j)
          /\ ~OwedTo(k) /\ Opened(k)
      BY <1>1, <2>3, <3>1, RemovedLine
    <3>3. PhaseOf(k) = "live" /\ PhaseOf(k)' = "closed"
      BY <1>4, <2>1, <3>2 DEF PhaseOf
    <3>4. Lineage!Close(k)
      BY <1>4, <2>1, <3>2, <3>3, LineAt DEF Lineage!Close
    <3> QED BY <3>4
  <2> QED BY <2>2, <2>3
<1>6. CASE /\ s.kind # "access" /\ epc' = [epc EXCEPT ![e] = "access"]
           /\ ebase' = [ebase EXCEPT ![e] = store[s]]
  <2>1. PICK k \in Consents : k = store[s].root
    BY <1>1 DEF IInv, TypeOK, Stored, Entry
  <2>2. /\ LiveOf(k) # {} /\ LiveOf(k)' = {}
        /\ \A j \in Consents \ {k} : LiveOf(j)' = LiveOf(j)
        /\ ~OwedTo(k) /\ Opened(k)
    BY <1>1, <1>6, <2>1, RemovedLine
  <2>3. epc'[e] = "access" /\ ebase'[e].root = k
    BY <1>6, <2>1 DEF IInv, TypeOK
  <2>4. OwedTo(k)' /\ \A j \in Consents \ {k} : OwedTo(j)' = OwedTo(j)
    BY <1>3, <2>3 DEF OwedTo, InFlight
  <2>5. PhaseOf(k) = "live" /\ PhaseOf(k)' = "owed"
    BY <1>4, <2>2, <2>4 DEF PhaseOf
  <2>6. Lineage!Redeem(k)
    BY <1>4, <2>2, <2>4, <2>5, LineAt DEF Lineage!Redeem
  <2> QED BY <2>6
<1> QED BY <1>2, <1>5, <1>6

\* A redemption that dies before its refresh token is stored closes the line.
LEMMA FailExchangeLine ==
    ASSUME IInv, NEW e \in Exchanges, FailExchange(e)
    PROVE  (\E k \in Consents : Lineage!Close(k)) \/ UNCHANGED Lineage!lineage
<1>1. /\ epc[e] \in {"take", "access", "refresh"} /\ epc' = [epc EXCEPT ![e] = "failed"]
      /\ UNCHANGED <<store, kpc, ebase>>
  BY DEF FailExchange, kvars, evars
<1>2. /\ \A d \in Exchanges \ {e} : epc'[d] = epc[d]
      /\ epc'[e] = "failed"
  BY <1>1 DEF IInv, TypeOK
<1>3. /\ \A j \in Consents : Opened(j)' = Opened(j) /\ LiveOf(j)' = LiveOf(j)
      /\ \A d \in Exchanges : Renewed(d)' = Renewed(d)
  BY <1>1, <1>2 DEF Opened, LiveOf, Stored, Renewed
<1>4. CASE ~InFlight(e)
  <2>1. \A j \in Consents : OwedTo(j)' = OwedTo(j)
    BY <1>1, <1>2, <1>4 DEF OwedTo, InFlight
  <2> QED BY <1>3, <2>1, LineStutter
<1>5. CASE InFlight(e)
  <2>1. PICK k \in Consents : k = ebase[e].root
    BY <1>5 DEF IInv, TypeOK, InFlight, Entry
  <2>2. LiveOf(k) = {} /\ Opened(k) /\ OwedTo(k)
    BY <1>5, <2>1 DEF IInv, OneHolder, AllBound, Bound, OwedTo, InFlight
  <2>3. ~OwedTo(k)' /\ \A j \in Consents \ {k} : OwedTo(j)' = OwedTo(j)
    BY <1>1, <1>2, <1>5, <2>1 DEF IInv, OneHolder, OwedTo, InFlight
  <2>4. PhaseOf(k) = "owed" /\ PhaseOf(k)' = "closed"
    BY <1>3, <2>2, <2>3 DEF PhaseOf
  <2>5. UsedSecrets' = UsedSecrets
    BY <1>3 DEF UsedSecrets, Renewed
  <2>6. Lineage!Close(k)
    BY <1>3, <2>2, <2>3, <2>4, <2>5, LineAt DEF Lineage!Close
  <2> QED BY <2>6
<1> QED BY <1>4, <1>5

LEMMA NextLine ==
    IInv /\ IInv' /\ [Next]_vars => [Lineage!LineNext]_(Lineage!lineage)
<1> SUFFICES ASSUME IInv, IInv', [Next]_vars
             PROVE  Lineage!LineNext \/ UNCHANGED Lineage!lineage
  OBVIOUS
<1> USE DEF app, kvars, evars, bvars
<1>1. ASSUME UNCHANGED <<store, kpc, epc, ebase>>
      PROVE  UNCHANGED Lineage!lineage
  <2>1. \A k \in Consents : /\ Opened(k)' = Opened(k) /\ LiveOf(k)' = LiveOf(k)
                            /\ OwedTo(k)' = OwedTo(k)
    BY <1>1 DEF Opened, LiveOf, Stored, OwedTo
  <2>2. \A e \in Exchanges : Renewed(e)' = Renewed(e)
    BY <1>1 DEF Renewed
  <2> QED BY <2>1, <2>2, LineStutter
<1>2. CASE Environment
  <2>1. ASSUME NEW s \in Secrets, Sweep(s)
        PROVE  Lineage!LineNext \/ UNCHANGED Lineage!lineage
    BY <2>1, SweepLine DEF Lineage!LineNext
  <2>2. CASE \/ \E x \in Clients : Register(x)
             \/ \E users \in SUBSET Users : SetAllowed(users)
             \/ \E s \in Secrets : Expire(s)
    BY <1>1, <2>2 DEF Register, SetAllowed, Expire
  <2> QED BY <1>2, <2>1, <2>2 DEF Environment
<1>3. ASSUME NEW k \in Consents, ConsentStep(k)
      PROVE  Lineage!LineNext \/ UNCHANGED Lineage!lineage
  <2>1. CASE PutCode(k)
    BY <2>1, PutCodeLine DEF Lineage!LineNext
  <2>2. CASE \/ \E x \in Clients, u \in Users : ShowPage(k, x, u) \/ BeginConsent(k, x, u)
             \/ CheckConsent(k) \/ DenyConsent(k) \/ Redirect(k)
    <3>1. \A j \in Consents : Opened(j)' = Opened(j)
      BY <2>2 DEF IInv, TypeOK, Opened, ShowPage, BeginConsent, CheckConsent,
                      DenyConsent, Redirect
    <3>2. UNCHANGED <<store, epc, ebase>>
      BY <2>2 DEF ShowPage, BeginConsent, CheckConsent, DenyConsent, Redirect
    <3>3. /\ \A j \in Consents : LiveOf(j)' = LiveOf(j) /\ OwedTo(j)' = OwedTo(j)
          /\ \A e \in Exchanges : Renewed(e)' = Renewed(e)
      BY <3>2 DEF LiveOf, Stored, OwedTo, Renewed
    <3> QED BY <3>1, <3>3, LineStutter
  <2> QED BY <1>3, <2>1, <2>2 DEF ConsentStep
<1>4. ASSUME NEW e \in Exchanges, ExchangeStep(e)
      PROVE  Lineage!LineNext \/ UNCHANGED Lineage!lineage
  <2>1. CASE Take(e)
    BY <2>1, TakeLine DEF Lineage!LineNext
  <2>2. CASE PutRefresh(e)
    BY <2>2, PutRefreshLine DEF Lineage!LineNext
  <2>3. CASE FailExchange(e)
    BY <2>3, FailExchangeLine DEF Lineage!LineNext
  <2>4. CASE \/ \E x \in Clients, s \in Secrets, g \in Grants, proof \in BOOLEAN :
                  BeginExchange(e, x, s, g, proof)
             \/ TakeNothing(e) \/ Respond(e)
    <3>1. /\ UNCHANGED <<store, kpc, ebase>>
          /\ \A d \in Exchanges : epc'[d] \in {"access", "refresh"} <=> epc[d] \in {"access", "refresh"}
          /\ \A d \in Exchanges : Renewed(d)' = Renewed(d)
      BY <2>4 DEF IInv, TypeOK, BeginExchange, TakeNothing, Respond, Renewed
    <3>2. \A j \in Consents : /\ Opened(j)' = Opened(j) /\ LiveOf(j)' = LiveOf(j)
                              /\ OwedTo(j)' = OwedTo(j)
      BY <3>1 DEF Opened, LiveOf, Stored, OwedTo
    <3> QED BY <3>1, <3>2, LineStutter
  <2>5. CASE PutAccess(e)
    <3>1. /\ epc[e] = "access" /\ store' = [store EXCEPT ![AccessOf(e)] = NewEntry(e)]
          /\ epc' = [epc EXCEPT ![e] = "refresh"] /\ UNCHANGED <<kpc, ebase>>
      BY <2>5 DEF PutAccess
    <3>2. \A k \in Consents : LiveOf(k)' = LiveOf(k)
      BY <3>1, SecretsDistinct DEF IInv, TypeOK, LiveOf, Stored
    <3>3. /\ \A d \in Exchanges : epc'[d] \in {"access", "refresh"} <=> epc[d] \in {"access", "refresh"}
          /\ \A d \in Exchanges : Renewed(d)' = Renewed(d)
      BY <3>1 DEF IInv, TypeOK, Renewed
    <3>4. \A j \in Consents : Opened(j)' = Opened(j) /\ OwedTo(j)' = OwedTo(j)
      BY <3>1, <3>3 DEF Opened, OwedTo
    <3> QED BY <3>2, <3>3, <3>4, LineStutter
  <2> QED BY <1>4, <2>1, <2>2, <2>3, <2>4, <2>5 DEF ExchangeStep
<1>5. ASSUME NEW b \in Bearers, BearerStep(b)
      PROVE  UNCHANGED Lineage!lineage
  BY <1>1, <1>5 DEF BearerStep, BeginBearer, ReadToken, CheckUser, RefuseBearer
<1>6. CASE UNCHANGED vars
  BY <1>1, <1>6 DEF vars
<1> QED BY <1>2, <1>3, <1>4, <1>5, <1>6 DEF Next
-------------------------------------------------------------------------------
\* Every variable of the model has its type.
THEOREM OAuthTypeOK == Spec => []TypeOK
<1>1. IInv => TypeOK
  BY DEF IInv
<1> QED BY <1>1, SpecIInv, PTL

\* Codes and tokens stay bound to the client and user of their consent.
THEOREM OAuthTokensBound == Spec => []TokensBound
<1>1. IInv => TokensBound
  BY DEF IInv, AllBound, Bound, TokensBound
<1> QED BY <1>1, SpecIInv, PTL

\* A secret that reached its lookup is never in the store again.
THEOREM OAuthPresentedIsGone == Spec => []PresentedIsGone
<1>1. IInv => PresentedIsGone
  BY DEF IInv
<1> QED BY <1>1, SpecIInv, PTL

\* What the histories of a request under way know of its user.
AllowedSeen ==
    /\ \A b \in Bearers :
          /\ bpc[b] \in {"token", "user"} => allowed \subseteq bseen[b]
          /\ bpc[b] = "granted" => bentry[b].user \in bseen[b]
    /\ \A k \in Consents :
          /\ kpc[k] = "check" /\ kreq[k].user \in allowed => kallowed[k]
          /\ kpc[k] \in {"put", "redirect", "issued", "lost"} => kallowed[k]

LEMMA NextAllowedSeen ==
    ASSUME IInv, AllowedSeen, [Next]_vars PROVE AllowedSeen'
<1> USE DEF app, kvars, evars, bvars
<1>1. ASSUME UNCHANGED <<allowed, kpc, kreq, kallowed, bpc, bentry, bseen>>
      PROVE  AllowedSeen'
  BY <1>1 DEF AllowedSeen
<1>2. CASE Environment
  <2>1. ASSUME NEW users \in SUBSET Users, SetAllowed(users) PROVE AllowedSeen'
    BY <2>1 DEF AllowedSeen, SetAllowed
  <2> QED BY <1>1, <1>2, <2>1 DEF Environment, Register, Expire, Sweep
<1>3. ASSUME NEW k \in Consents, ConsentStep(k) PROVE AllowedSeen'
  <2>1. ASSUME NEW x \in Clients, NEW u \in Users, ShowPage(k, x, u) \/ BeginConsent(k, x, u)
        PROVE  AllowedSeen'
    <3>1. \A j \in Consents \ {k} : kpc'[j] = kpc[j] /\ kreq'[j] = kreq[j] /\ kallowed'[j] = kallowed[j]
      BY <2>1 DEF IInv, TypeOK, ShowPage, BeginConsent
    <3>2. /\ kpc'[k] \in {"shown", "check"} /\ kreq'[k].user = u
          /\ kpc'[k] = "check" => kallowed'[k] = (u \in allowed)
      BY <2>1 DEF IInv, TypeOK, ShowPage, BeginConsent
    <3>3. UNCHANGED <<allowed, bpc, bentry, bseen>>
      BY <2>1 DEF ShowPage, BeginConsent
    <3> QED BY <3>1, <3>2, <3>3 DEF AllowedSeen
  <2>2. CASE CheckConsent(k) \/ DenyConsent(k) \/ PutCode(k) \/ Redirect(k)
    BY <2>2 DEF IInv, TypeOK, AllowedSeen, CheckConsent, DenyConsent, PutCode, Redirect
  <2> QED BY <1>3, <2>1, <2>2 DEF ConsentStep
<1>4. ASSUME NEW e \in Exchanges, ExchangeStep(e) PROVE AllowedSeen'
  BY <1>1, <1>4 DEF ExchangeStep, BeginExchange, TakeNothing, Take, PutAccess, PutRefresh,
                    Respond, FailExchange
<1>5. ASSUME NEW b \in Bearers, BearerStep(b) PROVE AllowedSeen'
  BY <1>5 DEF IInv, TypeOK, AllowedSeen, BearerStep, BeginBearer, ReadToken, CheckUser, RefuseBearer
<1>6. CASE UNCHANGED vars
  BY <1>1, <1>6 DEF vars
<1> QED BY <1>2, <1>3, <1>4, <1>5, <1>6 DEF Next

\* Removing a user takes effect on every bearer request and every consent that
\* starts afterwards.
THEOREM OAuthGrantedWasAllowed == Spec => []GrantedWasAllowed
<1>1. Init => AllowedSeen
  BY DEF Init, AllowedSeen
<1>2. IInv /\ AllowedSeen /\ [Next]_vars => AllowedSeen'
  BY NextAllowedSeen
<1>3. AllowedSeen => GrantedWasAllowed
  BY DEF AllowedSeen, GrantedWasAllowed, Opened
<1> QED BY <1>1, <1>2, <1>3, SpecIInv, PTL DEF Spec

\* The OAuth server implements the line of one live secret per consent, with
\* no secret redeemed twice.
THEOREM OAuthImplementsLineage == Spec => ImplementsLineage
<1>1. Spec => [][Lineage!LineNext]_(Lineage!lineage)
  BY SpecIInv, NextLine, PTL DEF Spec
<1> QED BY <1>1, InitLine, PTL DEF Spec, ImplementsLineage, Lineage!LineSpec
================================================================================
