----------------------------- MODULE ProviderProofs -----------------------------
(***************************************************************************)
(* The components whose other half a provider keeps: the token vault, the  *)
(* payments, and the campaigns of jobs that post.  They share no state.    *)
(*                                                                         *)
(* TokenVault is type correct and HealthyIsGood holds for every set of     *)
(* calls, whatever overlaps, fails or dies.  The strengthening is that a   *)
(* token set on its way to the store is known to the call that carries it  *)
(* alone, so nothing can have spent it.  Of calls that do not overlap and  *)
(* do not fail, with the history of MCTokenVault, no account is cut off    *)
(* and no tokens are lost.                                                 *)
(*                                                                         *)
(* Payments, for every number of checkouts and sellers, and every price:   *)
(* what the application is told names the payment it is about.             *)
(*                                                                         *)
(* Campaign, for every number of jobs, workers and attempts and all posts: *)
(* a post is repeated only for a reason, and a cancel holds.  The counting *)
(* goes through the runs: each has a reason, and makes a post public once  *)
(* at most.                                                                *)
(***************************************************************************)
EXTENDS MCTokenVault, Payments, Campaign, FiniteSetTheorems, WellFoundedInduction, TLAPS

\* A call that has read a record keeps it, as healthy as it was.
ReadsHealthy ==
    \A c \in Calls :
        /\ pc[c] \in {"refresh", "store", "mark"} => rec[c] # NoRecord
        /\ rec[c] # NoRecord => rec[c].health = "ok"

Carries(c) == pc[c] \in {"put", "store"}

\* What a call carries to the store is a usable token set that is nowhere else.
CarriesItsOwn ==
    \A c \in Calls : Carries(c) =>
        /\ got[c] \in 1 .. issued
        /\ ~Dead(got[c])
        /\ store # NoRecord => store.tokens # got[c]
        /\ \A d \in Calls :
            /\ rec[d] # NoRecord => rec[d].tokens # got[c]
            /\ d # c /\ Carries(d) => got[d] # got[c]

\* What is stored or has been read was issued.
WasIssued ==
    /\ store # NoRecord => store.tokens \in 1 .. issued
    /\ \A c \in Calls : rec[c] # NoRecord => rec[c].tokens \in 1 .. issued

IInv == TypeOK /\ ReadsHealthy /\ WasIssued /\ CarriesItsOwn /\ HealthyIsGood

LEMMA InitIInv == Init => IInv
  BY MaxTokensAssumption DEF Init, IInv, TypeOK, Pc, NoToken, ReadsHealthy, WasIssued,
     CarriesItsOwn, Carries, HealthyIsGood

-------------------------------------------------------------------------------
\* Every step has its type.
LEMMA NextTypeOK == IInv /\ [Next]_vars => TypeOK'
<1> SUFFICES ASSUME IInv, [Next]_vars PROVE TypeOK'
  OBVIOUS
<1> USE MaxTokensAssumption, NoRecordAssumption
<1> USE DEF IInv, TypeOK, Tokens, Pc, NoToken, provider, Goto
<1>1. CASE UNCHANGED vars
  BY <1>1 DEF vars
<1>2. CASE Ages
  BY <1>2 DEF Ages, Age
<1>3. ASSUME NEW c \in Calls, Begin(c) PROVE TypeOK'
  BY <1>3 DEF Begin
<1>4. ASSUME NEW c \in Calls, Authorise(c) PROVE TypeOK'
  <2>1. /\ issued' = issued + 1 /\ issued' \in 0 .. MaxTokens
        /\ 1 .. issued \subseteq 1 .. issued' /\ issued' \in 1 .. issued'
    BY <1>4 DEF Authorise
  <2>2. good' \subseteq 1 .. issued' /\ bare' \subseteq 1 .. issued'
    BY <1>4, <2>1 DEF Authorise
  <2>3. stale' \subseteq 1 .. issued' /\ got' \in [Calls -> {0} \cup 1 .. issued']
    BY <1>4, <2>1 DEF Authorise
  <2>4. store' = store /\ rec' = rec /\ pc' \in [Calls -> Pc]
    BY <1>4 DEF Authorise
  <2> QED BY <2>1, <2>2, <2>3, <2>4
<1>5. ASSUME NEW c \in Calls, Put(c) PROVE TypeOK'
  <2>1. got[c] \in Tokens
    BY <1>5 DEF Put, CarriesItsOwn, Carries
  <2> QED BY <1>5, <2>1 DEF Put, Record
<1>6. ASSUME NEW c \in Calls, Delete(c) PROVE TypeOK'
  BY <1>6 DEF Delete
<1>7. ASSUME NEW c \in Calls, GetMissing(c) \/ GetReauth(c) \/ GetStale(c) PROVE TypeOK'
  BY <1>7 DEF GetMissing, GetReauth, GetStale
<1>8. ASSUME NEW c \in Calls, GetFresh(c) PROVE TypeOK'
  BY <1>8 DEF GetFresh, WasIssued
<1>9. ASSUME NEW c \in Calls, Refresh(c) \/ RefreshLost(c) PROVE TypeOK'
  <2>1. /\ issued' = issued + 1 /\ issued' \in 0 .. MaxTokens
        /\ 1 .. issued \subseteq 1 .. issued' /\ issued' \in 1 .. issued'
    BY <1>9 DEF Refresh, RefreshLost, Rotate
  <2>2. good' \subseteq 1 .. issued' /\ bare' \subseteq 1 .. issued'
    BY <1>9, <2>1 DEF Refresh, RefreshLost, Rotate
  <2>3. stale' \subseteq 1 .. issued' /\ got' \in [Calls -> {0} \cup 1 .. issued']
    BY <1>9, <2>1 DEF Refresh, RefreshLost, Rotate
  <2>4. store' = store /\ rec' = rec /\ pc' \in [Calls -> Pc]
    BY <1>9 DEF Refresh, RefreshLost, Rotate
  <2> QED BY <2>1, <2>2, <2>3, <2>4
<1>10. ASSUME NEW c \in Calls, RefreshRefused(c) \/ RefreshFails(c) \/ Throw(c)
       PROVE TypeOK'
  BY <1>10 DEF RefreshRefused, RefreshFails, Throw
<1>11. ASSUME NEW c \in Calls, StoreNext(c) \/ StoreFails(c) PROVE TypeOK'
  <2>1. got[c] \in Tokens
    BY <1>11 DEF StoreNext, StoreFails, CarriesItsOwn, Carries
  <2>2. [tokens |-> got[c], health |-> "ok"] \in Record
    BY <2>1 DEF Record
  <2>3. store' \in Record \cup {NoRecord} /\ pc' \in [Calls -> Pc]
    BY <1>11, <2>2 DEF StoreNext, StoreFails
  <2>4. UNCHANGED <<issued, good, bare, stale, rec, got>>
    BY <1>11 DEF StoreNext, StoreFails
  <2> QED BY <2>3, <2>4
<1>12. ASSUME NEW c \in Calls, Mark(c) PROVE TypeOK'
  <2>1. rec[c].tokens \in Tokens
    BY <1>12 DEF Mark, ReadsHealthy, Record
  <2> QED BY <1>12, <2>1 DEF Mark, Record
<1> QED
  BY <1>1, <1>2, <1>3, <1>4, <1>5, <1>6, <1>7, <1>8, <1>9, <1>10, <1>11, <1>12
     DEF Next, Works, Breaks

\* What is read, stored or carried stays known, healthy and private.
LEMMA NextCarries ==
    IInv /\ [Next]_vars => ReadsHealthy' /\ WasIssued' /\ CarriesItsOwn'
<1> SUFFICES ASSUME IInv, [Next]_vars
             PROVE  ReadsHealthy' /\ WasIssued' /\ CarriesItsOwn'
  OBVIOUS
<1> DEFINE Goal == ReadsHealthy' /\ WasIssued' /\ CarriesItsOwn'
<1> USE MaxTokensAssumption, NoRecordAssumption
<1> USE DEF IInv, TypeOK, Tokens, NoToken, provider, Goto, ReadsHealthy, WasIssued,
            CarriesItsOwn, Carries, Dead, Record
<1>1. CASE UNCHANGED vars
  BY <1>1 DEF vars
<1>2. CASE Ages
  BY <1>2 DEF Ages, Age
<1>3. ASSUME NEW c \in Calls, Begin(c) PROVE Goal
  BY <1>3 DEF Begin
<1>4. ASSUME NEW c \in Calls, Authorise(c) PROVE Goal
  BY <1>4 DEF Authorise
<1>5. ASSUME NEW c \in Calls, Put(c) PROVE Goal
  BY <1>5 DEF Put
<1>6. ASSUME NEW c \in Calls, Delete(c) PROVE Goal
  BY <1>6 DEF Delete
<1>7. ASSUME NEW c \in Calls, GetMissing(c) \/ GetReauth(c) \/ GetStale(c) PROVE Goal
  BY <1>7 DEF GetMissing, GetReauth, GetStale
<1>8. ASSUME NEW c \in Calls, GetFresh(c) PROVE Goal
  BY <1>8 DEF GetFresh
<1>9. ASSUME NEW c \in Calls, Refresh(c) PROVE Goal
  BY <1>9 DEF Refresh, Rotate
<1>10. ASSUME NEW c \in Calls, RefreshLost(c) PROVE Goal
  BY <1>10 DEF RefreshLost, Rotate
<1>11. ASSUME NEW c \in Calls, RefreshRefused(c) \/ RefreshFails(c) \/ Throw(c)
       PROVE Goal
  BY <1>11 DEF RefreshRefused, RefreshFails, Throw
<1>12. ASSUME NEW c \in Calls, StoreNext(c) \/ StoreFails(c) PROVE Goal
  BY <1>12 DEF StoreNext, StoreFails
<1>13. ASSUME NEW c \in Calls, Mark(c) PROVE Goal
  BY <1>13 DEF Mark
<1> QED
  BY <1>1, <1>2, <1>3, <1>4, <1>5, <1>6, <1>7, <1>8, <1>9, <1>10, <1>11, <1>12, <1>13
     DEF Next, Works, Breaks

\* A refresh that spends the stored tokens is still on its way, and a put makes
\* healthy only what nothing has spent.
LEMMA NextHealthy == IInv /\ [Next]_vars => HealthyIsGood'
<1> SUFFICES ASSUME IInv, [Next]_vars PROVE HealthyIsGood'
  OBVIOUS
<1> USE NoRecordAssumption
<1> USE DEF IInv, TypeOK, provider, Goto, HealthyIsGood, Dead
<1>1. CASE UNCHANGED vars
  BY <1>1 DEF vars
<1>2. CASE Ages
  BY <1>2 DEF Ages, Age
<1>3. ASSUME NEW c \in Calls, Begin(c) \/ Authorise(c) PROVE HealthyIsGood'
  BY <1>3 DEF Begin, Authorise
<1>4. ASSUME NEW c \in Calls, Put(c) \/ StoreNext(c) \/ StoreFails(c)
      PROVE HealthyIsGood'
  BY <1>4 DEF Put, StoreNext, StoreFails, CarriesItsOwn, Carries
<1>5. ASSUME NEW c \in Calls, Delete(c) \/ Mark(c) PROVE HealthyIsGood'
  BY <1>5 DEF Delete, Mark
<1>6. ASSUME NEW c \in Calls,
             GetMissing(c) \/ GetReauth(c) \/ GetFresh(c) \/ GetStale(c)
      PROVE HealthyIsGood'
  BY <1>6 DEF GetMissing, GetReauth, GetFresh, GetStale
<1>7. ASSUME NEW c \in Calls, Refresh(c) \/ RefreshLost(c) PROVE HealthyIsGood'
  <2>1. rec[c] \in Record /\ rec[c].health = "ok" /\ rec' = rec /\ store' = store
        /\ pc'[c] \in {"store", "mark"}
    BY <1>7 DEF Refresh, RefreshLost, Rotate, ReadsHealthy
  <2>2. CASE store # NoRecord /\ store.health = "ok" /\ store.tokens = rec[c].tokens
    <3>1. rec[c] = store
      BY <2>1, <2>2 DEF Record
    <3> QED BY <2>1, <3>1
  <2>3. CASE ~(store # NoRecord /\ store.health = "ok" /\ store.tokens = rec[c].tokens)
    BY <1>7, <2>3 DEF Refresh, RefreshLost, Rotate
  <2> QED BY <2>2, <2>3
<1>8. ASSUME NEW c \in Calls, RefreshRefused(c) \/ RefreshFails(c) \/ Throw(c)
      PROVE HealthyIsGood'
  BY <1>8 DEF RefreshRefused, RefreshFails, Throw
<1> QED
  BY <1>1, <1>2, <1>3, <1>4, <1>5, <1>6, <1>7, <1>8 DEF Next, Works, Breaks

LEMMA SpecIInv == Spec => []IInv
<1>1. IInv /\ [Next]_vars => IInv'
  BY NextTypeOK, NextCarries, NextHealthy DEF IInv
<1> QED BY InitIInv, <1>1, PTL DEF Spec

-------------------------------------------------------------------------------
\* Every record, control point and token set the vault handles has its type.
THEOREM VaultTypeOK == Spec => []TypeOK
<1>1. IInv => TypeOK
  BY DEF IInv
<1> QED BY SpecIInv, <1>1, PTL

\* accessToken never stores spent tokens as healthy: a healthy record whose
\* tokens the provider has spent has its refresh in flight, or died in it.
THEOREM VaultHealthyIsGood == Spec => []HealthyIsGood
<1>1. IInv => HealthyIsGood
  BY DEF IInv
<1> QED BY SpecIInv, <1>1, PTL
-------------------------------------------------------------------------------
(* Calls that do not overlap, of a provider and a store that do not fail. *)

Calm == ~broken /\ ~overlapped

OneActive == ~overlapped => \A c, d \in Active : c = d

ThrownIsBroken == ~broken => \A c \in Calls : pc[c] # "thrown"

\* The active call works on the record that is stored, with tokens the provider
\* accepts, and carries the newest.
WorksOnStored ==
    Calm => \A c \in Calls :
        /\ pc[c] \in {"refresh", "mark"} => rec[c] = store
        /\ pc[c] = "refresh" => rec[c].tokens \in good
        /\ pc[c] = "mark" => rec[c].tokens \in bare
        /\ Carries(c) => got[c] = issued

NewestStored ==
    Calm /\ store # NoRecord /\ (\A c \in Calls : ~Carries(c)) =>
        \A t \in good : t <= store.tokens

\* The inductive invariant of the calls one after another.
AloneInv ==
    /\ IInv /\ broken \in BOOLEAN /\ overlapped \in BOOLEAN
    /\ OneActive /\ ThrownIsBroken /\ WorksOnStored /\ NewestStored /\ CutOffOnlyByOverlap

LEMMA WorksKeepsAlive ==
    ASSUME AloneInv, NEW c \in Calls, Works(c), ~broken
    PROVE  \A d \in Calls : pc'[d] # "thrown"
  BY DEF AloneInv, IInv, TypeOK, ThrownIsBroken, Works, Begin, Authorise, Put, Delete,
     GetMissing, GetReauth, GetFresh, GetStale, Refresh, Rotate, RefreshRefused, StoreNext,
     Mark, Goto

\* A step of the one active call.
LEMMA WorksAlone ==
    ASSUME AloneInv, NEW c \in Calls, Works(c), ~broken, ~overlapped, ~broken', ~overlapped',
           \A e, d \in Active' : e = d
    PROVE  WorksOnStored' /\ NewestStored' /\ CutOffOnlyByOverlap'
<1> USE DEF AloneInv, IInv, TypeOK, Goto, provider, WorksOnStored, NewestStored,
            CutOffOnlyByOverlap, CutOff, Calm, Carries
<1>1. \A d \in Calls : pc[d] \notin {"idle", "done", "reauth", "missing", "thrown"} /\ pc[c] # "idle" => d = c
  BY DEF OneActive, Active, Ended, Works, Authorise, Put, Delete,
     GetMissing, GetReauth, GetFresh, GetStale, Refresh, Rotate, RefreshRefused, StoreNext, Mark, Begin
<1>2. CASE Begin(c)
  BY <1>2 DEF Begin
<1>3. CASE Authorise(c)
  BY <1>1, <1>3 DEF Authorise
<1>4. CASE Put(c) \/ StoreNext(c)
  <2>1. /\ got[c] = issued /\ store' = [tokens |-> got[c], health |-> "ok"]
        /\ UNCHANGED <<good, bare, issued, rec, got>> /\ pc[c] # "idle"
        /\ \A d \in Calls : pc'[d] = IF d = c THEN "done" ELSE pc[d]
    BY <1>4 DEF Put, StoreNext
  <2>2. WorksOnStored' /\ CutOffOnlyByOverlap'
    BY <1>1, <2>1
  <2>3. store'.tokens = issued /\ good' \subseteq 1 .. issued
    BY <2>1
  <2>4. NewestStored'
    BY <2>3
  <2> QED BY <2>2, <2>4
<1>5. CASE Delete(c)
  BY <1>1, <1>5 DEF Delete
<1>6. CASE GetMissing(c) \/ GetReauth(c) \/ GetFresh(c)
  BY <1>1, <1>6 DEF GetMissing, GetReauth, GetFresh
<1>7. CASE GetStale(c)
  <2>1. store.tokens \in good \/ store.tokens \in bare
    BY <1>1, <1>7 DEF GetStale, HealthyIsGood, Dead, ThrownIsBroken
  <2> QED BY <1>1, <1>7, <2>1 DEF GetStale
<1>8. CASE Refresh(c)
  BY <1>1, <1>8 DEF Refresh, Rotate
<1>9. CASE RefreshRefused(c)
  BY <1>1, <1>9 DEF RefreshRefused
<1>10. CASE Mark(c)
  BY <1>1, <1>10 DEF Mark, ReadsHealthy
<1> QED BY <1>2, <1>3, <1>4, <1>5, <1>6, <1>7, <1>8, <1>9, <1>10 DEF Works

LEMMA StepAlone == AloneInv /\ [MCNext]_<<vars, broken, overlapped>> => AloneInv'
<1> SUFFICES ASSUME AloneInv, [MCNext]_<<vars, broken, overlapped>> PROVE AloneInv'
  OBVIOUS
<1>1. CASE UNCHANGED <<vars, broken, overlapped>>
  <2>1. IInv'
    BY <1>1, NextTypeOK, NextCarries, NextHealthy DEF AloneInv, IInv
  <2> QED BY <1>1, <2>1 DEF vars, AloneInv, OneActive, ThrownIsBroken, WorksOnStored,
             NewestStored, CutOffOnlyByOverlap, CutOff, Calm, Active, Carries
<1>2. CASE MCNext
  <2>1. /\ Next
        /\ broken' \in BOOLEAN /\ (~broken' => ~broken /\ (Ages \/ \E c \in Calls : Works(c)))
    <3>1. CASE (Ages \/ \E c \in Calls : Works(c)) /\ UNCHANGED broken
      BY <3>1 DEF Next, AloneInv
    <3>2. CASE (\E c \in Calls : Breaks(c)) /\ broken' = TRUE
      BY <3>2 DEF Next
    <3> QED BY <1>2, <3>1, <3>2 DEF MCNext
  <2>2. /\ overlapped' \in BOOLEAN
        /\ ~overlapped' => ~overlapped /\ \A c, d \in Active' : c = d
    <3>1. CASE overlapped
      BY <1>2, <3>1 DEF MCNext
    <3>2. CASE ~overlapped
      BY <1>2, <3>2 DEF MCNext
    <3> QED BY <3>1, <3>2
  <2>3. IInv'
    BY <2>1, NextTypeOK, NextCarries, NextHealthy DEF AloneInv, IInv
  <2>4. OneActive'
    BY <2>2 DEF OneActive
  <2>5. CASE broken' \/ overlapped'
    <3>1. ThrownIsBroken'
      BY <2>1, WorksKeepsAlive DEF AloneInv, ThrownIsBroken, Ages, Age
    <3> QED BY <2>1, <2>2, <2>3, <2>4, <2>5, <3>1
        DEF AloneInv, WorksOnStored, NewestStored, CutOffOnlyByOverlap, CutOff, Calm
  <2>6. CASE ~broken' /\ ~overlapped'
    <3>1. CASE Ages
      BY <2>1, <2>2, <2>3, <2>4, <2>6, <3>1 DEF Ages, Age, AloneInv, ThrownIsBroken, WorksOnStored,
         NewestStored, CutOffOnlyByOverlap, CutOff, Calm, Carries, provider
    <3>2. ASSUME NEW c \in Calls, Works(c)
          PROVE  ThrownIsBroken' /\ WorksOnStored' /\ NewestStored' /\ CutOffOnlyByOverlap'
      BY <2>1, <2>2, <2>6, <3>2, WorksKeepsAlive, WorksAlone DEF ThrownIsBroken
    <3> QED BY <2>1, <2>2, <2>3, <2>4, <2>6, <3>1, <3>2 DEF AloneInv
  <2> QED BY <2>1, <2>2, <2>5, <2>6
<1> QED BY <1>1, <1>2

LEMMA AloneIInv == MCSpec => []AloneInv
<1>1. MCInit => AloneInv
  BY InitIInv DEF MCInit, Init, AloneInv, OneActive, Active, Ended, ThrownIsBroken, WorksOnStored,
     NewestStored, CutOffOnlyByOverlap, CutOff, Calm, Carries
<1> QED BY <1>1, StepAlone, PTL DEF MCSpec

\* accessToken of calls one after another never marks an account whose tokens
\* the provider would refresh, as long as the provider and the store answer.
THEOREM VaultCutOffOnlyByOverlap == MCSpec => []CutOffOnlyByOverlap
<1>1. AloneInv => CutOffOnlyByOverlap
  BY DEF AloneInv
<1> QED BY <1>1, AloneIInv, PTL

\* Nor does it lose the tokens of a rotation: the newest usable are stored.
THEOREM VaultNewestKept == MCSpec => []NewestKept
<1>1. AloneInv => NewestKept
  BY DEF AloneInv, NewestStored, NewestKept, Calm, Carries, Active, Ended
<1> QED BY <1>1, AloneIInv, PTL
-------------------------------------------------------------------------------
(* Payments. *)

\* Event e is a report on checkout c, made on the account its payment is made on.
About(e, c) ==
    /\ sessions[c] # Null /\ e.account = sessions[c].owner
    /\ \/ /\ e.type = "checkout.session.completed" /\ sessions[c].state = "paid"
          /\ e.id = <<"session", c>> /\ e.intent = <<"intent", c>>
          /\ e.metadata = c /\ e.amount = Price
       \/ /\ e.type = "checkout.session.expired"
          /\ e.id = <<"session", c>> /\ e.intent \in {Null, <<"intent", c>>}
          /\ e.metadata = c
       \/ /\ e.type = "payment_intent.payment_failed"
          /\ e.id = <<"intent", c>> /\ e.intent = Null
          /\ e.metadata = c \/ ~sessions[c].tagged
       \/ e.type = "charge.refunded" /\ e.intent = <<"intent", c>>

\* Stripe reports on checkouts it knows, or something else.
Reported == \A e \in events : e.type = "other" \/ \E c \in Checkouts : About(e, c)

\* What the application was told is what some event says.
Told == \A m \in inbox : \E e \in events : e.type # "other" /\ m = Parsed(e)

\* Only the payment of a checkout with no seller goes untagged.
Tagged ==
    \A c \in Checkouts : sessions[c] # Null /\ ~sessions[c].tagged =>
        sessions[c].owner = Null /\ sessions[c].transfer = Null

\* The inductive invariant.
PaymentsIInv == PaymentsTypeOK /\ Reported /\ Told /\ Tagged
-------------------------------------------------------------------------------
LEMMA InitPayments == PaymentsInit => PaymentsIInv
  BY DEF PaymentsInit, PaymentsIInv, PaymentsTypeOK, Reported, Told, Tagged

\* What a session says of its payment stays.
SessionsKeep ==
    \A c \in Checkouts : sessions[c] # Null =>
        /\ sessions'[c] # Null
        /\ sessions'[c].owner = sessions[c].owner
        /\ sessions'[c].tagged = sessions[c].tagged
        /\ sessions[c].state = "paid" => sessions'[c].state = "paid"

\* A report stays true of its checkout.
LEMMA AboutStays ==
    ASSUME SessionsKeep, NEW e, NEW c \in Checkouts, About(e, c)
    PROVE  About(e, c)'
  BY DEF SessionsKeep, About

\* A step that keeps the sessions and adds one event about a checkout.
LEMMA OneMoreReport ==
    ASSUME PaymentsIInv, SessionsKeep, NEW e, NEW c \in Checkouts,
           events' = events \cup {e}, e.type = "other" \/ About(e, c)', UNCHANGED inbox
    PROVE  Reported' /\ Told'
<1>1. Reported'
  BY AboutStays DEF PaymentsIInv, Reported
<1>2. Told'
  BY DEF PaymentsIInv, Told, Parsed, PaymentId
<1> QED BY <1>1, <1>2

\* parseWebhook of any event but an unknown one is a message of the inbox's type.
LEMMA ParsedType ==
    ASSUME NEW e \in StripeEvent
    PROVE  Parsed(e) \in PaymentEvent
<1>1. PaymentId(e) \in ObjectId
  BY DEF PaymentId, StripeEvent
<1>2. Parsed(e).type \in {"checkout.completed", "checkout.failed", "charge.refunded"}
  BY DEF Parsed
<1> QED BY <1>1, <1>2 DEF Parsed, PaymentEvent, StripeEvent

LEMMA NewSessionType ==
    ASSUME NEW i \in Input, Accepts(i)
    PROVE  /\ NewSession(i) \in Session
           /\ ~NewSession(i).tagged => NewSession(i).owner = Null /\ NewSession(i).transfer = Null
<1>1. i.seller \in Owners /\ i.direct \in BOOLEAN /\ 0 \in 0 .. Price
  BY PaymentsAssumption DEF Input
<1>2. CASE i.seller = Null
  BY <1>1, <1>2 DEF NewSession, Session, Owners
<1>3. CASE i.seller # Null
  BY <1>1, <1>3 DEF NewSession, Session, Owners
<1> QED BY <1>2, <1>3

LEMMA NextPayments == PaymentsIInv /\ [PaymentsNext]_paymentsVars => PaymentsIInv'
<1> SUFFICES ASSUME PaymentsIInv, [PaymentsNext]_paymentsVars PROVE PaymentsIInv'
  OBVIOUS
<1> USE PaymentsAssumption, PlaceholderAssumption
<1>1. CASE UNCHANGED paymentsVars
  BY <1>1 DEF paymentsVars, PaymentsIInv, PaymentsTypeOK, Reported, Told, Tagged, About, Parsed, PaymentId
<1>2. ASSUME NEW c \in Checkouts, NEW i \in Input, CreateCheckout(c, i) PROVE PaymentsIInv'
  <2>1. PaymentsTypeOK' /\ Tagged' /\ SessionsKeep
    BY <1>2, NewSessionType DEF CreateCheckout, PaymentsIInv, PaymentsTypeOK, Tagged, SessionsKeep
  <2>2. Reported' /\ Told'
    BY <1>2, <2>1, AboutStays DEF CreateCheckout, PaymentsIInv, Reported, Told, Parsed, PaymentId
  <2> QED BY <2>1, <2>2 DEF PaymentsIInv
<1>3. ASSUME NEW c \in Checkouts, Decline(c) PROVE PaymentsIInv'
  <2>1. sessions[c] \in Session
    BY <1>3 DEF Decline, Open, PaymentsIInv, PaymentsTypeOK
  <2>2. sessions' \in [Checkouts -> Session \cup {Null}] /\ Tagged' /\ SessionsKeep
    BY <1>3, <2>1 DEF Decline, Open, PaymentsIInv, PaymentsTypeOK, Tagged, SessionsKeep, Session
  <2>0. PICK e : e = [type |-> "payment_intent.payment_failed", account |-> sessions[c].owner,
                      id |-> <<"intent", c>>, intent |-> Null,
                      metadata |-> IF sessions[c].tagged THEN c ELSE Null, amount |-> 0]
    OBVIOUS
  <2>3. events' = events \cup {e} /\ UNCHANGED <<connectSecret, accounts, inbox>>
    BY <1>3, <2>0 DEF Decline, Report
  <2>4. e \in StripeEvent
    BY <2>1, <2>0 DEF StripeEvent, ObjectId, Session
  <2>5. About(e, c)'
    BY <2>1, <2>2, <2>0, <1>3 DEF About, SessionsKeep, Decline, Open
  <2>6. PaymentsTypeOK'
    BY <2>2, <2>3, <2>4 DEF PaymentsIInv, PaymentsTypeOK
  <2>7. Reported' /\ Told'
    BY <2>2, <2>3, <2>5, OneMoreReport
  <2> QED BY <2>2, <2>6, <2>7 DEF PaymentsIInv
<1>4. ASSUME NEW c \in Checkouts, Pay(c) PROVE PaymentsIInv'
  <2>1. sessions[c] \in Session
    BY <1>4 DEF Pay, Open, PaymentsIInv, PaymentsTypeOK
  <2>2. sessions' \in [Checkouts -> Session \cup {Null}] /\ Tagged' /\ SessionsKeep
        /\ sessions'[c].state = "paid"
    BY <1>4, <2>1 DEF Pay, Open, PaymentsIInv, PaymentsTypeOK, Tagged, SessionsKeep, Session
  <2>0. PICK e : e = [type |-> "checkout.session.completed", account |-> sessions[c].owner,
                      id |-> <<"session", c>>, intent |-> <<"intent", c>>,
                      metadata |-> c, amount |-> Price]
    OBVIOUS
  <2>3. events' = events \cup {e} /\ UNCHANGED <<connectSecret, accounts, inbox>>
    BY <1>4, <2>0 DEF Pay, Report
  <2>4. e \in StripeEvent
    BY <2>1, <2>0 DEF StripeEvent, ObjectId, Session
  <2>5. About(e, c)'
    BY <2>1, <2>2, <2>0, <1>4 DEF About, SessionsKeep, Pay, Open
  <2>6. PaymentsTypeOK'
    BY <2>2, <2>3, <2>4 DEF PaymentsIInv, PaymentsTypeOK
  <2>7. Reported' /\ Told'
    BY <2>2, <2>3, <2>5, OneMoreReport
  <2> QED BY <2>2, <2>6, <2>7 DEF PaymentsIInv
<1>5. ASSUME NEW c \in Checkouts, Expire(c) PROVE PaymentsIInv'
  <2>1. sessions[c] \in Session
    BY <1>5 DEF Expire, Open, PaymentsIInv, PaymentsTypeOK
  <2>2. sessions' \in [Checkouts -> Session \cup {Null}] /\ Tagged' /\ SessionsKeep
    BY <1>5, <2>1 DEF Expire, Open, PaymentsIInv, PaymentsTypeOK, Tagged, SessionsKeep, Session
  <2>0. PICK e : e = [type |-> "checkout.session.expired", account |-> sessions[c].owner,
                      id |-> <<"session", c>>,
                      intent |-> IF sessions[c].tried THEN <<"intent", c>> ELSE Null,
                      metadata |-> c, amount |-> 0]
    OBVIOUS
  <2>3. events' = events \cup {e} /\ UNCHANGED <<connectSecret, accounts, inbox>>
    BY <1>5, <2>0 DEF Expire, Report
  <2>4. e \in StripeEvent
    BY <2>1, <2>0 DEF StripeEvent, ObjectId, Session
  <2>5. About(e, c)'
    BY <2>1, <2>2, <2>0, <1>5 DEF About, SessionsKeep, Expire, Open
  <2>6. PaymentsTypeOK'
    BY <2>2, <2>3, <2>4 DEF PaymentsIInv, PaymentsTypeOK
  <2>7. Reported' /\ Told'
    BY <2>2, <2>3, <2>5, OneMoreReport
  <2> QED BY <2>2, <2>6, <2>7 DEF PaymentsIInv
<1>6. ASSUME NEW m \in inbox, NEW cents \in 1 .. Price, Refund(m, cents) PROVE PaymentsIInv'
  <2>1. PICK c \in Checkouts :
            /\ Finds(c, m.paymentId, m.connectedAccountId)
            /\ sessions[c].refunded + cents <= Price
            /\ sessions' = [sessions EXCEPT ![c].refunded = @ + cents]
            /\ events' = events \cup {Charge(c)}
    BY <1>6 DEF Refund
  <2>0. PICK e : e = Charge(c)
    OBVIOUS
  <2>2. sessions[c] \in Session
    BY <2>1 DEF Finds, PaymentsIInv, PaymentsTypeOK
  <2>3. /\ sessions'[c] \in Session /\ sessions'[c].refunded \in 0 .. Price
        /\ sessions'[c].owner = sessions[c].owner
    BY <2>1, <2>2 DEF Session, PaymentsIInv, PaymentsTypeOK
  <2>4. sessions' \in [Checkouts -> Session \cup {Null}] /\ Tagged' /\ SessionsKeep
    BY <2>1, <2>2, <2>3 DEF PaymentsIInv, PaymentsTypeOK, Tagged, SessionsKeep, Session
  <2>5. e \in StripeEvent
    BY <2>2, <2>3, <2>0 DEF Charge, StripeEvent, ObjectId, Session
  <2>6. About(e, c)'
    BY <2>2, <2>3, <2>4, <2>0, <2>1 DEF About, Charge, SessionsKeep, Finds
  <2>7. PaymentsTypeOK'
    BY <1>6, <2>1, <2>4, <2>5, <2>0 DEF Refund, PaymentsIInv, PaymentsTypeOK
  <2>8. Reported' /\ Told'
    BY <1>6, <2>1, <2>4, <2>6, <2>0, OneMoreReport DEF Refund
  <2> QED BY <2>4, <2>7, <2>8 DEF PaymentsIInv
<1>7. ASSUME NEW e \in events, Webhook(e) PROVE PaymentsIInv'
  <2>1. PaymentsTypeOK'
    BY <1>7, ParsedType DEF Webhook, PaymentsIInv, PaymentsTypeOK
  <2>2. Reported' /\ Tagged' /\ Told'
    BY <1>7 DEF Webhook, PaymentsIInv, Reported, Tagged, Told, About, Parsed, PaymentId
  <2> QED BY <2>1, <2>2 DEF PaymentsIInv
<1>8. ASSUME NEW s \in Sellers, Onboard(s) PROVE PaymentsIInv'
  BY <1>8 DEF Onboard, PaymentsIInv, PaymentsTypeOK, Reported, Told, Tagged, About, Parsed, PaymentId
<1>9. ASSUME NEW s \in Sellers, Review(s) PROVE PaymentsIInv'
  <2> DEFINE e == [type |-> "other", account |-> s, id |-> <<"account", s>>, intent |-> Null,
                   metadata |-> Null, amount |-> 0]
  <2>1. events' = events \cup {e} /\ UNCHANGED <<connectSecret, sessions, inbox>>
    BY <1>9 DEF Review
  <2>2. e \in StripeEvent
    BY DEF StripeEvent, ObjectId, Owners
  <2>3. PaymentsTypeOK'
    BY <1>9, <2>1, <2>2 DEF Review, PaymentsIInv, PaymentsTypeOK
  <2>4. Reported' /\ Told' /\ Tagged'
    BY <2>1 DEF PaymentsIInv, Reported, Told, Tagged, About, Parsed, PaymentId
  <2> QED BY <2>3, <2>4 DEF PaymentsIInv
<1> QED
  BY <1>1, <1>2, <1>3, <1>4, <1>5, <1>6, <1>7, <1>8, <1>9 DEF PaymentsNext

LEMMA PaymentsInvariant == PaymentsSpec => []PaymentsIInv
  BY InitPayments, NextPayments, PTL DEF PaymentsSpec

\* A refund was asked for with the message of a completion.
RefundsAsked ==
    \A e \in events : e.type = "charge.refunded" =>
        \E d \in inbox : /\ d.type = "checkout.completed"
                         /\ d.paymentId = e.intent /\ d.connectedAccountId = e.account

LEMMA NextRefundsAsked == RefundsAsked /\ [PaymentsNext]_paymentsVars => RefundsAsked'
<1> SUFFICES ASSUME RefundsAsked, [PaymentsNext]_paymentsVars PROVE RefundsAsked'
  OBVIOUS
<1>1. ASSUME inbox \subseteq inbox', NEW x, x.type # "charge.refunded", events' \subseteq events \cup {x}
      PROVE  RefundsAsked'
  BY <1>1 DEF RefundsAsked
<1>2. CASE UNCHANGED <<events, inbox>>
  BY <1>2 DEF RefundsAsked
<1>3. ASSUME NEW c \in Checkouts, Decline(c) \/ Pay(c) \/ Expire(c) PROVE RefundsAsked'
  <2>1. PICK x : x.type # "charge.refunded" /\ events' = events \cup {x}
    <3>1. CASE Decline(c)
      <4>1. PICK y : y = [type |-> "payment_intent.payment_failed", account |-> sessions[c].owner,
                          id |-> <<"intent", c>>, intent |-> Null,
                          metadata |-> IF sessions[c].tagged THEN c ELSE Null, amount |-> 0]
        OBVIOUS
      <4>2. events' = events \cup {y}
        BY <3>1, <4>1 DEF Decline, Report
      <4> QED BY <4>1, <4>2
    <3>2. CASE Pay(c)
      BY <3>2 DEF Pay, Report
    <3>3. CASE Expire(c)
      <4>1. PICK y : y = [type |-> "checkout.session.expired", account |-> sessions[c].owner,
                          id |-> <<"session", c>>,
                          intent |-> IF sessions[c].tried THEN <<"intent", c>> ELSE Null,
                          metadata |-> c, amount |-> 0]
        OBVIOUS
      <4>2. events' = events \cup {y}
        BY <3>3, <4>1 DEF Expire, Report
      <4> QED BY <4>1, <4>2
    <3> QED BY <1>3, <3>1, <3>2, <3>3
  <2>2. inbox' = inbox
    BY <1>3 DEF Decline, Pay, Expire
  <2> QED BY <1>1, <2>1, <2>2
<1>4. ASSUME NEW m \in inbox, NEW cents \in 1 .. Price, Refund(m, cents) PROVE RefundsAsked'
  <2>1. PICK c \in Checkouts : Finds(c, m.paymentId, m.connectedAccountId) /\ events' = events \cup {Charge(c)}
    BY <1>4 DEF Refund
  <2>2. m.type = "checkout.completed" /\ inbox' = inbox
    BY <1>4 DEF Refund
  <2>3. Charge(c).intent = m.paymentId /\ Charge(c).account = m.connectedAccountId
    BY <2>1 DEF Charge, Finds
  <2> QED BY <2>1, <2>2, <2>3 DEF RefundsAsked
<1>5. ASSUME NEW e \in events, Webhook(e) PROVE RefundsAsked'
  BY <1>5 DEF Webhook, RefundsAsked
<1>6. ASSUME NEW s \in Sellers, Review(s) PROVE RefundsAsked'
  <2>1. PICK x : x.type # "charge.refunded" /\ events' = events \cup {x}
    BY <1>6 DEF Review
  <2>2. inbox' = inbox
    BY <1>6 DEF Review
  <2> QED BY <1>1, <2>1, <2>2
<1> QED
  BY <1>2, <1>3, <1>4, <1>5, <1>6 DEF PaymentsNext, paymentsVars, CreateCheckout, Onboard

LEMMA PaymentsRefundsAsked == PaymentsSpec => []RefundsAsked
<1>1. PaymentsInit => RefundsAsked
  BY DEF PaymentsInit, RefundsAsked
<1> QED BY <1>1, NextRefundsAsked, PTL DEF PaymentsSpec
-------------------------------------------------------------------------------
\* Every session, event and message has its type.
THEOREM PaymentsTyped == PaymentsSpec => []PaymentsTypeOK
<1>1. PaymentsIInv => PaymentsTypeOK
  BY DEF PaymentsIInv
<1> QED BY <1>1, PaymentsInvariant, PTL

\* However events are delivered, a refund of what a completed checkout reported
\* finds the payment, on the account it was made on.
THEOREM PaymentsRefundsFindPayment == PaymentsSpec => []RefundsFindPayment
<1>1. ASSUME PaymentsIInv PROVE RefundsFindPayment
  <2> SUFFICES ASSUME NEW m \in inbox, m.type = "checkout.completed"
               PROVE  /\ \E c \in Checkouts : Finds(c, m.paymentId, m.connectedAccountId)
                      /\ m.amount = Price
    BY DEF RefundsFindPayment
  <2>1. PICK e \in events : e.type # "other" /\ m = Parsed(e)
    BY <1>1 DEF PaymentsIInv, Told
  <2>2. e.type = "checkout.session.completed"
    BY <2>1 DEF Parsed
  <2>3. PICK c \in Checkouts : About(e, c)
    BY <1>1, <2>1 DEF PaymentsIInv, Reported
  <2>4. e.intent = <<"intent", c>> /\ <<"intent", c>> # Null
    BY <2>2, <2>3, PlaceholderAssumption DEF About, ObjectId
  <2>5. m.paymentId = <<"intent", c>> /\ m.connectedAccountId = e.account /\ m.amount = e.amount
    BY <2>1, <2>4 DEF Parsed, PaymentId
  <2> QED BY <2>2, <2>3, <2>5 DEF About, Finds
<1> QED BY <1>1, PaymentsInvariant, PTL

\* What the application is told can be attributed, save a declined payment of a
\* checkout with no seller.
THEOREM PaymentsAttributed == PaymentsSpec => []Attributed
<1>1. ASSUME PaymentsIInv, RefundsAsked PROVE Attributed
  <2> SUFFICES ASSUME NEW m \in inbox
               PROVE  \/ m.paymentId[2] = m.metadata
                      \/ /\ m.type = "charge.refunded"
                         /\ \E d \in inbox : /\ d.type = "checkout.completed"
                                             /\ d.paymentId = m.paymentId
                                             /\ d.connectedAccountId = m.connectedAccountId
                      \/ /\ m.type = "checkout.failed" /\ m.paymentId[1] = "intent"
                         /\ LET s == sessions[m.paymentId[2]] IN s.owner = Null /\ s.transfer = Null
    BY DEF Attributed
  <2>1. PICK e \in events : e.type # "other" /\ m = Parsed(e)
    BY <1>1 DEF PaymentsIInv, Told
  <2>2. PICK c \in Checkouts : About(e, c)
    BY <1>1, <2>1 DEF PaymentsIInv, Reported
  <2>3. <<"intent", c>> # Null
    BY PlaceholderAssumption DEF ObjectId
  <2>4. m.paymentId = PaymentId(e) /\ m.metadata = e.metadata /\ m.connectedAccountId = e.account
    BY <2>1 DEF Parsed
  <2>5. CASE e.type = "charge.refunded"
    <3>1. m.type = "charge.refunded" /\ m.paymentId = e.intent
      BY <2>1, <2>2, <2>3, <2>4, <2>5 DEF Parsed, About, PaymentId
    <3> QED BY <1>1, <2>4, <2>5, <3>1 DEF RefundsAsked
  <2>6. CASE e.type = "payment_intent.payment_failed"
    <3>1. m.type = "checkout.failed" /\ m.paymentId = <<"intent", c>>
      BY <2>1, <2>2, <2>4, <2>6 DEF Parsed, About, PaymentId
    <3>2. sessions[c] # Null /\ (e.metadata = c \/ ~sessions[c].tagged)
      BY <2>2, <2>6 DEF About
    <3>3. CASE e.metadata = c
      BY <2>4, <3>1, <3>3
    <3>4. CASE ~sessions[c].tagged
      <4>1. sessions[c].owner = Null /\ sessions[c].transfer = Null
        BY <1>1, <3>2, <3>4 DEF PaymentsIInv, Tagged
      <4> QED BY <3>1, <4>1
    <3> QED BY <3>2, <3>3, <3>4
  <2>7. CASE e.type \in {"checkout.session.completed", "checkout.session.expired"}
    BY <2>2, <2>3, <2>4, <2>7 DEF About, PaymentId
  <2> QED BY <2>2, <2>5, <2>6, <2>7 DEF About
<1> QED BY <1>1, PaymentsInvariant, PaymentsRefundsAsked, PTL
-------------------------------------------------------------------------------
(* Campaign. *)

\* An id that was not given out yet names nothing.
Unused ==
    \A j \in Ids : j > seq =>
        jobs[j] = None /\ queue[j] = None /\ runs[j] = 0 /\ j \notin schedules

\* In memory a worker runs what is in the map, and nothing is at AWS.
InMemory ==
    backend = "memory" =>
        /\ schedules = {}
        /\ \A j \in Ids : queue[j] = None
        /\ \A w \in Workers : running[w] # None => Known(running[w])
        /\ \A w \in Workers : \A j \in due[w] : Known(j)

\* A schedule that still exists never ran, and was not cancelled.
NotFired ==
    \A j \in schedules : runs[j] = 0 /\ queue[j] = None /\ Status(j) # "cancelled"

\* The next run of a job is owed to it: it is not under way, or not any more.
Owed(j) ==
    \/ backend = "memory" /\ Status(j) = "scheduled"
    \/ backend = "aws" /\ queue[j] # None /\ ~UnderWay(j)

\* Every run but one has a reason, and where one more is owed, that one too.
RunsExplained ==
    \A j \in Ids :
        /\ runs[j] <= 1 + failures[j] + overlaps[j]
        /\ Owed(j) => runs[j] <= failures[j] + overlaps[j]

\* The flights of job j that may still make post p public.
Unsent(j, p) == {f \in flights : f.batch[1] = j /\ f.post = p /\ f.at \in Sending}

\* A run makes a post public once at most, now or later.
Counted ==
    \A j \in Ids, p \in Post :
        /\ IsFiniteSet(Unsent(j, p))
        /\ posted[j][p] + Cardinality(Unsent(j, p)) <= runs[j]

\* The inductive invariant.
CampaignIInv ==
    CampaignTypeOK /\ Unused /\ InMemory /\ NotFired /\ RunsExplained /\ Counted
-------------------------------------------------------------------------------
\* The ids are positive naturals, and none is the placeholder.
LEMMA IdsAreNat == Ids \subseteq Nat \ {0} /\ None \notin Ids
  BY JobsAssumption, NoneAssumption DEF Ids, Backends

\* The least of a set of naturals is one of them.
LEMMA MinIsMember ==
    ASSUME NEW S \in SUBSET Nat, S # {}
    PROVE  Min(S) \in S
<1>1. PICK x \in S : \A y \in S : ~ (<<y, x>> \in OpToRel(<, Nat))
  BY NatLessThanWellFounded, WFMin
<1>2. \A y \in S : x <= y
  <2> SUFFICES ASSUME NEW y \in S, ~(x <= y) PROVE FALSE
    OBVIOUS
  <2>1. y < x /\ x \in Nat /\ y \in Nat
    OBVIOUS
  <2>2. <<y, x>> \in OpToRel(<, Nat)
    BY <2>1 DEF OpToRel
  <2> QED BY <1>1, <2>2
<1> QED BY <1>2 DEF Min

LEMMA InitCampaign == CampaignInit => CampaignIInv
<1> SUFFICES ASSUME CampaignInit PROVE CampaignIInv
  OBVIOUS
<1> USE DEF CampaignInit, JobsInit
<1>1. CampaignTypeOK
  <2>1. JobsTypeOK
    BY JobsAssumption, IdsAreNat DEF JobsTypeOK
  <2>2. posted \in [Ids -> [Post -> Nat]]
    OBVIOUS
  <2> QED BY <2>1, <2>2 DEF CampaignTypeOK
<1>2. Unused /\ InMemory /\ NotFired
  BY DEF Unused, InMemory, NotFired
<1>3. RunsExplained
  BY DEF RunsExplained, Owed, Status, Known
<1>4. Counted
  <2>1. \A j \in Ids, p \in Post : Unsent(j, p) = {}
    BY DEF Unsent
  <2>2. \A j \in Ids, p \in Post : IsFiniteSet(Unsent(j, p)) /\ Cardinality(Unsent(j, p)) = 0
    BY <2>1, FS_EmptySet
  <2>3. \A j \in Ids, p \in Post : posted[j][p] = 0 /\ runs[j] = 0
    OBVIOUS
  <2> QED BY <2>2, <2>3 DEF Counted
<1> QED BY <1>1, <1>2, <1>3, <1>4 DEF CampaignIInv

-------------------------------------------------------------------------------
\* A worker goes to the next job of its list, or rests.
LEMMA NextDueIs ==
    ASSUME NEW w, NEW now, NEW list \in SUBSET Ids, NextDue(w, now, list)
    PROVE  \/ /\ list = {} /\ jobs' = now /\ runs' = runs
              /\ running' = [running EXCEPT ![w] = None] /\ due' = [due EXCEPT ![w] = {}]
           \/ \E j \in list :
                  /\ jobs' = [now EXCEPT ![j] = [status |-> "running", attempts |-> @.attempts + 1]]
                  /\ running' = [running EXCEPT ![w] = j]
                  /\ due' = [due EXCEPT ![w] = list \ {j}]
                  /\ runs' = [runs EXCEPT ![j] = @ + 1]
<1>1. CASE list = {}
  BY <1>1 DEF NextDue
<1>2. CASE list # {}
  <2>1. Min(list) \in list
    BY <1>2, IdsAreNat, MinIsMember
  <2> QED BY <1>2, <2>1 DEF NextDue
<1> QED BY <1>1, <1>2

\* What a worker that starts job j, in memory, leaves in the map.
LEMMA NextDueType ==
    ASSUME NEW w \in Workers, NEW now \in [Ids -> Job \cup {None}], NEW list \in SUBSET Ids,
           \A j \in list : now[j] # None,
           JobsTypeOK, UNCHANGED <<backend, seq, schedules, queue>>, NextDue(w, now, list)
    PROVE  JobsTypeOK'
<1> USE DEF JobsTypeOK
<1>1. ASSUME jobs' = now, runs' = runs, running' = [running EXCEPT ![w] = None],
             due' = [due EXCEPT ![w] = {}]
      PROVE  JobsTypeOK'
  BY <1>1
<1>2. ASSUME NEW j \in list,
             jobs' = [now EXCEPT ![j] = [status |-> "running", attempts |-> @.attempts + 1]],
             running' = [running EXCEPT ![w] = j], due' = [due EXCEPT ![w] = list \ {j}],
             runs' = [runs EXCEPT ![j] = @ + 1]
      PROVE  JobsTypeOK'
  <2>1. now[j] \in Job
    OBVIOUS
  <2> HIDE DEF JobsTypeOK
  <2>2. [status |-> "running", attempts |-> now[j].attempts + 1] \in Job
    BY <2>1 DEF Job
  <2> USE DEF JobsTypeOK
  <2>3. jobs' \in [Ids -> Job \cup {None}]
    BY <1>2, <2>2
  <2>4. runs' \in [Ids -> Nat] /\ running' \in [Workers -> Ids \cup {None}]
        /\ due' \in [Workers -> SUBSET Ids]
    BY <1>2
  <2> QED BY <2>3, <2>4
<1> QED BY <1>1, <1>2, NextDueIs

\* A job that ends, in memory.
Ending(w, ok) ==
    [jobs EXCEPT ![running[w]].status = IF ok THEN "succeeded" ELSE AfterFailure(running[w])]

LEMMA EndingType ==
    ASSUME CampaignIInv, backend = "memory", NEW w \in Workers, NEW ok \in BOOLEAN, running[w] # None
    PROVE  /\ running[w] \in Ids /\ jobs[running[w]] \in Job
           /\ Ending(w, ok) \in [Ids -> Job \cup {None}]
           /\ \A j \in Ids : (Ending(w, ok)[j] # None <=> Known(j))
           /\ \A j \in Ids : j # running[w] => Ending(w, ok)[j] = jobs[j]
<1>1. running[w] \in Ids /\ jobs[running[w]] \in Job /\ jobs \in [Ids -> Job \cup {None}]
  BY DEF CampaignIInv, CampaignTypeOK, JobsTypeOK, InMemory, Known
<1>2. PICK s \in {"succeeded", "failed", "scheduled"} :
          s = IF ok THEN "succeeded" ELSE AfterFailure(running[w])
  BY DEF AfterFailure
<1>3. [jobs[running[w]] EXCEPT !.status = s] \in Job
  BY <1>1 DEF Job
<1>4. Ending(w, ok) = [jobs EXCEPT ![running[w]].status = s]
  BY <1>2 DEF Ending
<1> QED BY <1>1, <1>3, <1>4, NoneAssumption DEF Known

\* Every step of the schedulers and workers has its type.
LEMMA StepJobsType ==
    ASSUME CampaignIInv,
           Asked \/ Restart \/ (\E j \in Ids : Service(j))
           \/ (\E w \in Workers : Starts(w) \/ \E ok \in BOOLEAN : Ends(w, ok))
    PROVE  JobsTypeOK'
<1>0. JobsTypeOK
  BY DEF CampaignIInv, CampaignTypeOK
<1>1. CASE Schedule \/ ScheduleAt
  <2>1. seq \in Nat /\ seq + 1 <= MaxJobs[backend] => seq + 1 \in Ids /\ seq + 1 \in 0 .. MaxJobs[backend]
    BY <1>0, JobsAssumption DEF JobsTypeOK, Ids
  <2>2. New \in Job
    BY DEF New, Job
  <2> QED BY <1>0, <1>1, <2>1, <2>2, JobsAssumption DEF Schedule, ScheduleAt, NextId, JobsTypeOK
<1>2. ASSUME NEW j \in Ids, Cancel(j) \/ CancelAt(j) PROVE JobsTypeOK'
  <2>1. jobs[j] \in Job
    BY <1>0, <1>2 DEF JobsTypeOK, Cancel, CancelAt, Status, Known
  <2>2. [jobs[j] EXCEPT !.status = "cancelled"] \in Job
    BY <2>1 DEF Job
  <2> QED BY <1>0, <1>2, <2>2 DEF JobsTypeOK, Cancel, CancelAt
<1>3. CASE Restart
  BY <1>0, <1>3 DEF Restart, JobsTypeOK
<1>4. ASSUME NEW j \in Ids, Service(j) PROVE JobsTypeOK'
  <2>1. CASE Fire(j)
    <3>1. [receives |-> 0, visible |-> TRUE] \in Message
      BY JobsAssumption DEF Message
    <3> QED BY <1>0, <2>1, <3>1 DEF Fire, JobsTypeOK
  <2>2. CASE Reappear(j)
    <3>1. queue[j] \in Message
      BY <1>0, <2>2 DEF Reappear, JobsTypeOK
    <3>2. [queue[j] EXCEPT !.visible = TRUE] \in Message
      BY <3>1 DEF Message
    <3> QED BY <1>0, <2>2, <3>2 DEF Reappear, JobsTypeOK
  <2>3. CASE Bury(j)
    BY <1>0, <2>3 DEF Bury, JobsTypeOK
  <2> QED BY <1>4, <2>1, <2>2, <2>3 DEF Service
<1>5. ASSUME NEW w \in Workers, ProcessDue(w) PROVE JobsTypeOK'
  <2>1. PICK list \in SUBSET Scheduled : NextDue(w, jobs, list)
    BY <1>5 DEF ProcessDue
  <2>2. list \in SUBSET Ids /\ \A j \in list : jobs[j] # None
    BY DEF Scheduled, Status, Known
  <2> QED BY <1>0, <1>5, <2>1, <2>2, NextDueType DEF ProcessDue, JobsTypeOK
<1>6. ASSUME NEW w \in Workers, NEW j \in Ids, Receive(w, j) PROVE JobsTypeOK'
  <2>1. queue[j] \in Message /\ queue[j].receives < MaxAttempts
    BY <1>0, <1>6 DEF Receive, JobsTypeOK
  <2>2. [receives |-> queue[j].receives + 1, visible |-> FALSE] \in Message
    BY <2>1, JobsAssumption DEF Message
  <2> QED BY <1>0, <1>6, <2>2 DEF Receive, JobsTypeOK
<1>7. ASSUME NEW w \in Workers, NEW ok \in BOOLEAN, EndDue(w, ok) PROVE JobsTypeOK'
  <2>1. NextDue(w, Ending(w, ok), due[w]) /\ backend = "memory" /\ running[w] # None
        /\ UNCHANGED <<backend, seq, schedules, queue>>
    BY <1>7 DEF EndDue, Ending
  <2>2. due[w] \in SUBSET Ids /\ \A j \in due[w] : Known(j)
    BY <1>0, <2>1 DEF JobsTypeOK, CampaignIInv, InMemory
  <2> QED BY <1>0, <2>1, <2>2, EndingType, NextDueType
<1>8. ASSUME NEW w \in Workers, NEW ok \in BOOLEAN, EndMessage(w, ok) PROVE JobsTypeOK'
  BY <1>0, <1>8 DEF EndMessage, JobsTypeOK
<1> QED BY <1>1, <1>2, <1>3, <1>4, <1>5, <1>6, <1>7, <1>8 DEF Asked, Starts, Ends

\* A worker begins a run of job j.
Runs(w, j) == running' = [running EXCEPT ![w] = j] /\ runs' = [runs EXCEPT ![j] = @ + 1]

\* A worker that had none starts a job: in memory one that is scheduled, at AWS
\* one that has a message.
LEMMA StartsIs ==
    ASSUME CampaignIInv, NEW w \in Workers, Starts(w)
    PROVE  /\ running[w] = None /\ UNCHANGED <<backend, seq, schedules>>
           /\ \E j \in Ids :
                /\ Runs(w, j)
                /\ \/ /\ backend = "memory" /\ Status(j) = "scheduled" /\ queue' = queue
                      /\ jobs'[j] # None /\ jobs'[j].status = "running"
                      /\ \A k \in Ids : k # j => jobs'[k] = jobs[k]
                      /\ \E d \in SUBSET Scheduled : due' = [due EXCEPT ![w] = d]
                   \/ /\ backend = "aws" /\ queue[j] # None /\ queue'[j] # None
                      /\ \A k \in Ids : k # j => queue'[k] = queue[k]
                      /\ UNCHANGED <<jobs, due>>
<1>0. JobsTypeOK
  BY DEF CampaignIInv, CampaignTypeOK
<1>1. CASE ProcessDue(w)
  <2>1. PICK list \in SUBSET Scheduled : list # {} /\ NextDue(w, jobs, list)
    BY <1>1 DEF ProcessDue
  <2>2. list \in SUBSET Ids
    BY DEF Scheduled
  <2>3. PICK j \in list : /\ jobs' = [jobs EXCEPT ![j] = [status |-> "running", attempts |-> @.attempts + 1]]
                          /\ Runs(w, j) /\ due' = [due EXCEPT ![w] = list \ {j}]
    BY <2>1, <2>2, NextDueIs DEF Runs
  <2>4. Status(j) = "scheduled" /\ jobs[j] \in Job /\ j \in Ids
    BY <1>0 DEF Scheduled, Status, Known, JobsTypeOK
  <2>5. jobs'[j] = [status |-> "running", attempts |-> jobs[j].attempts + 1] /\ jobs'[j] \in Job
    BY <1>0, <2>3, <2>4 DEF JobsTypeOK, Job
  <2>6. jobs'[j] # None /\ \A k \in Ids : k # j => jobs'[k] = jobs[k]
    BY <1>0, <2>3, <2>5, NoneAssumption DEF JobsTypeOK
  <2>7. due' = [due EXCEPT ![w] = list \ {j}] /\ list \ {j} \in SUBSET Scheduled
    BY <2>3
  <2>8. jobs'[j].status = "running"
    BY <2>5
  <2>9. /\ running[w] = None /\ UNCHANGED <<backend, seq, schedules>>
        /\ backend = "memory" /\ queue' = queue
    BY <1>1 DEF ProcessDue
  <2> QED BY <2>3, <2>4, <2>6, <2>7, <2>8, <2>9
<1>2. ASSUME NEW j \in Ids, Receive(w, j)
      PROVE  /\ running[w] = None /\ UNCHANGED <<backend, seq, schedules>> /\ Runs(w, j)
             /\ backend = "aws" /\ queue[j] # None /\ queue'[j] # None
             /\ \A k \in Ids : k # j => queue'[k] = queue[k]
             /\ UNCHANGED <<jobs, due>>
  <2>1. [receives |-> queue[j].receives + 1, visible |-> FALSE] \in Message
    BY <1>0, <1>2, JobsAssumption DEF Receive, JobsTypeOK, Message
  <2>2. queue'[j] # None
    BY <1>0, <1>2, <2>1, NoneAssumption DEF Receive, JobsTypeOK
  <2> QED BY <1>0, <1>2, <2>2 DEF Receive, JobsTypeOK, Runs
<1> QED BY <1>1, <1>2 DEF Starts

\* A worker ends its job; in memory it may go to the next at once.
LEMMA EndsIs ==
    ASSUME CampaignIInv, NEW w \in Workers, NEW ok \in BOOLEAN, Ends(w, ok)
    PROVE  /\ running[w] \in Ids /\ UNCHANGED <<backend, seq, schedules>>
           /\ \/ /\ backend = "memory" /\ queue' = queue
                 /\ \E d \in SUBSET due[w] : due' = [due EXCEPT ![w] = d]
                 /\ \/ /\ running' = [running EXCEPT ![w] = None] /\ runs' = runs
                       /\ jobs' = Ending(w, ok)
                    \/ \E j \in due[w] :
                          /\ Runs(w, j) /\ jobs'[j] # None /\ jobs'[j].status = "running"
                          /\ \A k \in Ids : k # j => jobs'[k] = Ending(w, ok)[k]
              \/ /\ backend = "aws" /\ running' = [running EXCEPT ![w] = None]
                 /\ queue' = IF ok THEN [queue EXCEPT ![running[w]] = None] ELSE queue
                 /\ UNCHANGED <<jobs, due, runs>>
<1>0. JobsTypeOK
  BY DEF CampaignIInv, CampaignTypeOK
<1>1. CASE EndDue(w, ok)
  <2>1. /\ backend = "memory" /\ running[w] # None /\ NextDue(w, Ending(w, ok), due[w])
        /\ UNCHANGED <<backend, seq, schedules, queue>>
    BY <1>1 DEF EndDue, Ending
  <2>2. due[w] \in SUBSET Ids /\ \A j \in due[w] : Known(j)
    BY <1>0, <2>1 DEF JobsTypeOK, CampaignIInv, InMemory
  <2>3. CASE due[w] = {} /\ jobs' = Ending(w, ok) /\ runs' = runs
             /\ running' = [running EXCEPT ![w] = None] /\ due' = [due EXCEPT ![w] = {}]
    BY <2>1, <2>3, EndingType
  <2>4. ASSUME NEW j \in due[w], Runs(w, j), due' = [due EXCEPT ![w] = due[w] \ {j}],
               jobs' = [Ending(w, ok) EXCEPT ![j] = [status |-> "running", attempts |-> @.attempts + 1]]
        PROVE  /\ jobs'[j] # None /\ jobs'[j].status = "running"
               /\ \A k \in Ids : k # j => jobs'[k] = Ending(w, ok)[k]
    <3>1. Ending(w, ok) \in [Ids -> Job \cup {None}] /\ Ending(w, ok)[j] # None /\ j \in Ids
      BY <2>1, <2>2, EndingType
    <3>2. Ending(w, ok)[j] \in Job
      BY <3>1
    <3>3. jobs'[j] = [status |-> "running", attempts |-> Ending(w, ok)[j].attempts + 1]
      BY <2>4, <3>1
    <3>4. jobs'[j] \in Job
      BY <3>2, <3>3 DEF Job
    <3> QED BY <2>4, <3>1, <3>3, <3>4, NoneAssumption
  <2> QED BY <2>1, <2>2, <2>3, <2>4, EndingType, NextDueIs DEF Runs
<1>2. CASE EndMessage(w, ok)
  BY <1>0, <1>2 DEF EndMessage, JobsTypeOK
<1> QED BY <1>1, <1>2 DEF Ends

Shape == Unused /\ InMemory /\ NotFired

\* What is asked of the schedulers, and what AWS does, keeps ids, memory and
\* schedules as they should be, and starts nothing.
LEMMA ServiceShape ==
    ASSUME CampaignIInv, Asked \/ Restart \/ \E j \in Ids : Service(j)
    PROVE  Shape' /\ UNCHANGED <<backend, running, due, runs>>
<1>0. JobsTypeOK /\ Shape
  BY DEF CampaignIInv, CampaignTypeOK, Shape
<1>1. CASE Schedule \/ ScheduleAt
  <2>1. UNCHANGED <<backend, queue, running, due, runs>>
    BY <1>1 DEF Schedule, ScheduleAt
  <2>2. /\ seq' = seq + 1 /\ seq' \in Ids /\ seq \in Nat
        /\ jobs[seq'] = None /\ queue[seq'] = None /\ runs[seq'] = 0
    BY <1>0, <1>1, JobsAssumption DEF Schedule, ScheduleAt, NextId, JobsTypeOK, Ids, Shape, Unused
  <2>3. /\ \A j \in Ids : j # seq' => jobs'[j] = jobs[j]
        /\ \A j \in schedules' : j \in schedules \/ j = seq'
        /\ \A j \in Ids : Known(j) => jobs'[j] # None
        /\ jobs'[seq'] # None => jobs'[seq'].status # "cancelled"
        /\ backend = "memory" => schedules' = schedules
    <3>1. New \in Job /\ New # None /\ New.status # "cancelled"
      BY NoneAssumption DEF New, Job
    <3>2. jobs' = jobs \/ jobs' = [jobs EXCEPT ![seq'] = New]
      BY <1>1 DEF Schedule, ScheduleAt
    <3>3. /\ \A j \in schedules' : j \in schedules \/ j = seq'
          /\ backend = "memory" => schedules' = schedules
      BY <1>1 DEF Schedule, ScheduleAt
    <3> QED BY <1>0, <2>2, <3>1, <3>2, <3>3 DEF JobsTypeOK, Known
  <2>4. Unused'
    BY <1>0, <2>1, <2>2, <2>3, IdsAreNat DEF Shape, Unused, JobsTypeOK
  <2>5. InMemory'
    BY <1>0, <2>1, <2>3 DEF Shape, InMemory, Known, JobsTypeOK
  <2>6. NotFired'
    BY <1>0, <2>1, <2>2, <2>3 DEF Shape, NotFired, Status, Known, JobsTypeOK
  <2> QED BY <2>1, <2>4, <2>5, <2>6 DEF Shape
<1>2. ASSUME NEW j \in Ids, Cancel(j) \/ CancelAt(j) PROVE Shape' /\ UNCHANGED <<backend, running, due, runs>>
  <2>1. UNCHANGED <<backend, seq, queue, running, due, runs>> /\ schedules' \subseteq schedules
    BY <1>2 DEF Cancel, CancelAt
  <2>2. Known(j)
    BY <1>2 DEF Cancel, CancelAt, Status
  <2>3. \/ jobs' = jobs
        \/ /\ jobs' = [jobs EXCEPT ![j].status = "cancelled"]
           /\ backend = "memory" \/ j \notin schedules'
    BY <1>2 DEF Cancel, CancelAt
  <2>4. jobs[j] \in Job /\ [jobs[j] EXCEPT !.status = "cancelled"] \in Job
    BY <1>0, <2>2 DEF JobsTypeOK, Known, Job
  <2>5. /\ \A k \in Ids : k # j => jobs'[k] = jobs[k]
        /\ jobs'[j] # None
        /\ j \in schedules' => jobs' = jobs \/ backend = "memory"
    BY <1>0, <2>2, <2>3, <2>4, NoneAssumption DEF JobsTypeOK, Known
  <2>6. Unused'
    BY <1>0, <2>1, <2>2, <2>5 DEF Shape, Unused, Known
  <2>7. InMemory'
    BY <1>0, <2>1, <2>2, <2>5 DEF Shape, InMemory, Known, JobsTypeOK
  <2>8. NotFired'
    BY <1>0, <2>1, <2>2, <2>5 DEF Shape, NotFired, InMemory, Status, Known, JobsTypeOK
  <2> QED BY <2>1, <2>6, <2>7, <2>8 DEF Shape
<1>3. CASE Restart
  BY <1>0, <1>3 DEF Restart, Shape, Unused, InMemory, NotFired, Status, Known, JobsTypeOK
<1>4. ASSUME NEW j \in Ids, Service(j) PROVE Shape' /\ UNCHANGED <<backend, running, due, runs>>
  <2>1. /\ UNCHANGED <<backend, seq, jobs, running, due, runs>> /\ schedules' \subseteq schedules
        /\ \A k \in Ids : k # j => queue'[k] = queue[k]
        /\ j \in schedules \/ queue[j] # None
        /\ j \notin schedules'
    BY <1>0, <1>4 DEF Service, Fire, Reappear, Bury, JobsTypeOK, Shape, NotFired
  <2>2. backend = "aws" /\ ~(j > seq)
    BY <1>0, <2>1 DEF Shape, Unused, InMemory, JobsTypeOK, Backends
  <2>3. Unused' /\ InMemory'
    BY <1>0, <2>1, <2>2 DEF Shape, Unused, InMemory
  <2>4. NotFired'
    BY <1>0, <2>1 DEF Shape, NotFired, Status, Known, JobsTypeOK
  <2> QED BY <2>1, <2>3, <2>4 DEF Shape
<1> QED BY <1>1, <1>2, <1>3, <1>4 DEF Asked

\* So do the workers.
LEMMA WorkerShape ==
    ASSUME CampaignIInv, NEW w \in Workers, Starts(w) \/ \E ok \in BOOLEAN : Ends(w, ok)
    PROVE  Shape'
<1>0. JobsTypeOK /\ Shape
  BY DEF CampaignIInv, CampaignTypeOK, Shape
<1>1. CASE Starts(w)
  <2>1. PICK j \in Ids :
            /\ Runs(w, j)
            /\ \/ /\ backend = "memory" /\ Status(j) = "scheduled" /\ queue' = queue
                  /\ jobs'[j] # None /\ jobs'[j].status = "running"
                  /\ \A k \in Ids : k # j => jobs'[k] = jobs[k]
                  /\ \E d \in SUBSET Scheduled : due' = [due EXCEPT ![w] = d]
               \/ /\ backend = "aws" /\ queue[j] # None /\ queue'[j] # None
                  /\ \A k \in Ids : k # j => queue'[k] = queue[k]
                  /\ UNCHANGED <<jobs, due>>
    BY <1>1, StartsIs
  <2>2. UNCHANGED <<backend, seq, schedules>>
    BY <1>1, StartsIs
  <2>3. /\ \A k \in Ids : k # j => runs'[k] = runs[k] /\ jobs'[k] = jobs[k] /\ queue'[k] = queue[k]
        /\ Known(j) \/ queue[j] # None
        /\ \A v \in Workers : running'[v] \in {running[v], j}
        /\ backend = "memory" => jobs'[j] # None
        /\ j \notin schedules
    BY <1>0, <2>1 DEF Runs, JobsTypeOK, Status, Shape, NotFired, InMemory
  <2>4. Unused'
    BY <1>0, <2>2, <2>3 DEF Shape, Unused, Known
  <2>5. InMemory'
    <3> SUFFICES ASSUME backend = "memory" PROVE InMemory'
      BY <2>2 DEF InMemory
    <3>1. PICK d \in SUBSET Scheduled : due' = [due EXCEPT ![w] = d]
      BY <2>1
    <3>2. \A v \in Workers : \A k \in due'[v] : k \in Ids /\ Known(k)
      BY <1>0, <3>1 DEF Shape, InMemory, JobsTypeOK, Scheduled, Status
    <3>3. \A k \in Ids : Known(k) => jobs'[k] # None
      BY <2>3 DEF Known
    <3>4. \A v \in Workers : running'[v] # None => jobs'[running'[v]] # None
      BY <1>0, <2>3, <3>3 DEF Shape, InMemory, JobsTypeOK
    <3> QED BY <1>0, <2>1, <2>2, <3>2, <3>3, <3>4 DEF Shape, InMemory, Known
  <2>6. NotFired'
    BY <1>0, <2>2, <2>3 DEF Shape, NotFired, Status, Known, JobsTypeOK
  <2> QED BY <2>4, <2>5, <2>6 DEF Shape
<1>2. ASSUME NEW ok \in BOOLEAN, Ends(w, ok) PROVE Shape'
  <2>1. running[w] \in Ids /\ UNCHANGED <<backend, seq, schedules>>
    BY <1>2, EndsIs
  <2>2. CASE backend = "memory"
    <3>1. queue' = queue /\ schedules = {} /\ \A j \in Ids : queue[j] = None
      BY <1>0, <1>2, <2>2, EndsIs DEF Shape, InMemory
    <3>2. PICK d \in SUBSET due[w] : due' = [due EXCEPT ![w] = d]
      BY <1>2, <2>2, EndsIs
    <3>3. /\ Ending(w, ok) \in [Ids -> Job \cup {None}]
          /\ \A j \in Ids : (Ending(w, ok)[j] # None <=> Known(j))
      BY <2>1, <2>2, EndingType, IdsAreNat
    <3>4. \A k \in Ids : jobs'[k] # None <=> Known(k)
      <4>1. CASE jobs' = Ending(w, ok)
        BY <3>3, <4>1
      <4>2. ASSUME NEW j \in due[w], jobs'[j] # None,
                   \A k \in Ids : k # j => jobs'[k] = Ending(w, ok)[k]
            PROVE  \A k \in Ids : jobs'[k] # None <=> Known(k)
        BY <1>0, <2>2, <3>3, <4>2 DEF Shape, InMemory
      <4> QED BY <1>2, <2>2, <4>1, <4>2, EndsIs
    <3>5. \A k \in Ids : k > seq => runs'[k] = 0
      <4>1. \A j \in due[w] : j \in Ids /\ Known(j)
        BY <1>0, <2>2 DEF Shape, InMemory, JobsTypeOK
      <4>2. ASSUME NEW j \in due[w], Runs(w, j) PROVE \A k \in Ids : k > seq => runs'[k] = 0
        BY <1>0, <4>1, <4>2 DEF Runs, Shape, Unused, JobsTypeOK, Known
      <4>3. CASE runs' = runs
        BY <1>0, <4>3 DEF Shape, Unused
      <4> QED BY <1>2, <2>2, <4>2, <4>3, EndsIs
    <3>6. \A v \in Workers : running'[v] \in {running[v], None} \cup due[w]
      BY <1>0, <1>2, <2>2, EndsIs DEF JobsTypeOK, Runs
    <3>7. Unused'
      BY <1>0, <2>1, <3>1, <3>4, <3>5 DEF Shape, Unused, Known
    <3>8. InMemory'
      <4>1. \A v \in Workers : \A k \in due'[v] : k \in Ids /\ Known(k)
        BY <1>0, <2>2, <3>2 DEF Shape, InMemory, JobsTypeOK
      <4>2. \A v \in Workers : running'[v] # None => running'[v] \in Ids /\ Known(running'[v])
        BY <1>0, <2>2, <3>6 DEF Shape, InMemory, JobsTypeOK
      <4> QED BY <2>1, <3>1, <3>4, <4>1, <4>2 DEF InMemory, Known
    <3>9. NotFired'
      BY <2>1, <3>1 DEF NotFired
    <3> QED BY <3>7, <3>8, <3>9 DEF Shape
  <2>3. CASE backend = "aws"
    <3>1. UNCHANGED <<jobs, due, runs>> /\ running' = [running EXCEPT ![w] = None]
      BY <1>2, <2>3, EndsIs
    <3>2. \A k \in Ids : queue'[k] \in {queue[k], None}
      BY <1>0, <1>2, <2>3, EndsIs DEF JobsTypeOK
    <3> QED BY <1>0, <2>1, <2>3, <3>1, <3>2
            DEF Shape, Unused, InMemory, NotFired, Status, Known, JobsTypeOK
  <2> QED BY <1>0, <2>2, <2>3 DEF JobsTypeOK, Backends
<1> QED BY <1>1, <1>2

-------------------------------------------------------------------------------
\* Whether a run of j that starts now has another beside it, or none due.
Overlaps(j) == UnderWay(j) \/ (backend = "memory" /\ jobs[j].status # "scheduled")

\* What the start of a job, if a job is started, counts.
LEMMA LaunchedIs ==
    ASSUME CampaignTypeOK, NEW w \in Workers, Launched(w), running'[w] \in Ids \cup {None},
           runs' \in [Ids -> Nat]
    PROVE  /\ overlaps' \in [Ids -> Nat] /\ batch' \in [Workers -> Nat]
           /\ \A k \in Ids : overlaps[k] <= overlaps'[k]
           /\ running'[w] \in Ids /\ Overlaps(running'[w]) =>
                  overlaps'[running'[w]] = overlaps[running'[w]] + 1
<1>0. overlaps \in [Ids -> Nat] /\ batch \in [Workers -> Nat]
  BY DEF CampaignTypeOK
<1>1. PICK j \in Ids \cup {None} : j = running'[w]
  OBVIOUS
<1>2. CASE j = None
  BY <1>0, <1>1, <1>2, IdsAreNat DEF Launched
<1>3. CASE j \in Ids
  <2>1. j # None /\ runs'[j] \in Nat
    BY <1>3, IdsAreNat
  <2>2. batch' \in [Workers -> Nat]
    BY <1>0, <1>1, <2>1 DEF Launched
  <2>3. overlaps' = [overlaps EXCEPT ![j] = IF Overlaps(j) THEN @ + 1 ELSE @]
    BY <1>1, <2>1 DEF Launched, Overlaps
  <2>4. CASE Overlaps(j)
    BY <1>0, <1>1, <1>3, <2>2, <2>3, <2>4
  <2>5. CASE ~Overlaps(j)
    BY <1>0, <1>1, <1>3, <2>2, <2>3, <2>5
  <2> QED BY <2>4, <2>5
<1> QED BY <1>2, <1>3

\* A step that starts nothing and fails nothing explains what was explained, as
\* long as what it makes owed was owed, or never ran.
LEMMA StillExplained ==
    ASSUME CampaignIInv, UNCHANGED <<runs, failures, overlaps>>,
           \A j \in Ids : Owed(j)' => Owed(j) \/ runs[j] = 0
    PROVE  RunsExplained'
<1>1. \A j \in Ids : runs[j] \in Nat /\ failures[j] \in Nat /\ overlaps[j] \in Nat
  BY DEF CampaignIInv, CampaignTypeOK, JobsTypeOK
<1> QED BY <1>1 DEF CampaignIInv, RunsExplained

LEMMA ServiceExplained ==
    ASSUME CampaignIInv, Asked \/ Restart \/ (\E j \in Ids : Service(j)),
           UNCHANGED <<failures, overlaps>>
    PROVE  RunsExplained'
<1>0. JobsTypeOK /\ Shape
  BY DEF CampaignIInv, CampaignTypeOK, Shape
<1>1. UNCHANGED <<backend, running, runs>>
  BY ServiceShape
<1>2. CASE Schedule \/ ScheduleAt
  <2>1. /\ seq' \in Ids /\ runs[seq'] = 0 /\ queue' = queue
        /\ \A j \in Ids : j # seq' => jobs'[j] = jobs[j]
    BY <1>0, <1>2, JobsAssumption DEF Schedule, ScheduleAt, NextId, JobsTypeOK, Ids, Shape, Unused
  <2> QED BY <1>1, <2>1, StillExplained DEF Owed, Status, Known, UnderWay
<1>3. ASSUME NEW j \in Ids, Cancel(j) \/ CancelAt(j) PROVE RunsExplained'
  <2>1. queue' = queue /\ jobs' \in {jobs, [jobs EXCEPT ![j].status = "cancelled"]} /\ Known(j)
    BY <1>3 DEF Cancel, CancelAt, Status
  <2>2. \A k \in Ids : jobs'[k] = jobs[k] \/ jobs'[k].status = "cancelled"
    <3>1. jobs[j] \in Job
      BY <1>0, <2>1 DEF JobsTypeOK, Known
    <3> QED BY <1>0, <2>1, <3>1 DEF JobsTypeOK, Job
  <2> QED BY <1>1, <2>1, <2>2, StillExplained DEF Owed, Status, Known, UnderWay
<1>4. CASE Restart
  BY <1>1, <1>4, StillExplained DEF Restart, Owed, UnderWay
<1>5. ASSUME NEW j \in Ids, Service(j) PROVE RunsExplained'
  <2>1. /\ jobs' = jobs /\ \A k \in Ids : k # j => queue'[k] = queue[k]
        /\ queue[j] # None \/ runs[j] = 0
    BY <1>0, <1>5 DEF Service, Fire, Reappear, Bury, JobsTypeOK, Shape, NotFired
  <2> QED BY <1>1, <2>1, StillExplained DEF Owed, Status, Known, UnderWay
<1> QED BY <1>2, <1>3, <1>4, <1>5 DEF Asked

LEMMA StartExplained ==
    ASSUME CampaignIInv, NEW w \in Workers, Starts(w), Launched(w), failures' = failures, JobsTypeOK'
    PROVE  RunsExplained'
<1>0. JobsTypeOK /\ CampaignTypeOK
  BY DEF CampaignIInv, CampaignTypeOK
<1>1. PICK j \in Ids :
          /\ Runs(w, j)
          /\ \/ /\ backend = "memory" /\ Status(j) = "scheduled" /\ queue' = queue
                /\ jobs'[j] # None /\ jobs'[j].status = "running"
                /\ \A k \in Ids : k # j => jobs'[k] = jobs[k]
             \/ /\ backend = "aws" /\ queue[j] # None
                /\ \A k \in Ids : k # j => queue'[k] = queue[k]
                /\ jobs' = jobs
  BY StartsIs
<1>2. running[w] = None /\ backend' = backend
  BY StartsIs
<1>3. running'[w] = j /\ runs'[j] = runs[j] + 1 /\ \A k \in Ids : k # j => runs'[k] = runs[k]
  BY <1>0, <1>1 DEF Runs, JobsTypeOK
<1>4. /\ \A k \in Ids : overlaps[k] <= overlaps'[k] /\ overlaps'[k] \in Nat
      /\ Overlaps(j) => overlaps'[j] = overlaps[j] + 1
  BY <1>0, <1>3, LaunchedIs DEF JobsTypeOK
<1>5. \A k \in Ids : runs[k] \in Nat /\ failures[k] \in Nat /\ overlaps[k] \in Nat
  BY <1>0 DEF CampaignTypeOK, JobsTypeOK
<1>6. runs'[j] <= 1 + failures[j] + overlaps'[j]
  <2>1. CASE Overlaps(j)
    BY <1>3, <1>4, <1>5, <2>1 DEF CampaignIInv, RunsExplained
  <2>2. CASE ~Overlaps(j)
    <3>1. Owed(j)
      BY <1>0, <1>1, <2>2 DEF Owed, Overlaps, Status, Known
    <3> QED BY <1>3, <1>4, <1>5, <3>1 DEF CampaignIInv, RunsExplained
  <2> QED BY <2>1, <2>2
<1>7. ~Owed(j)'
  BY <1>1, <1>2, <1>3 DEF Owed, Status, Known, UnderWay
<1>8. \A k \in Ids : k # j => (Owed(k)' => Owed(k))
  <2>1. \A k \in Ids : UnderWay(k) /\ k # j => UnderWay(k)'
    BY <1>0, <1>1, <1>2, IdsAreNat DEF UnderWay, Runs, JobsTypeOK
  <2> QED BY <1>1, <1>2, <2>1 DEF Owed, Status, Known
<1>9. \A k \in Ids : k # j => runs'[k] <= 1 + failures[k] + overlaps'[k]
                              /\ (Owed(k)' => runs'[k] <= failures[k] + overlaps'[k])
  BY <1>3, <1>4, <1>5, <1>8 DEF CampaignIInv, RunsExplained
<1> QED BY <1>6, <1>7, <1>9 DEF RunsExplained

LEMMA EndExplained ==
    ASSUME CampaignIInv, NEW w \in Workers, NEW ok \in BOOLEAN, Ends(w, ok), Launched(w), JobsTypeOK',
           failures' = [failures EXCEPT ![running[w]] = IF ok THEN @ ELSE @ + 1]
    PROVE  RunsExplained'
<1>0. JobsTypeOK /\ CampaignTypeOK
  BY DEF CampaignIInv, CampaignTypeOK
<1>1. PICK i \in Ids : i = running[w]
  BY EndsIs
<1>2. /\ \A k \in Ids : runs[k] \in Nat /\ failures[k] \in Nat /\ overlaps[k] \in Nat
      /\ \A k \in Ids : failures'[k] \in Nat /\ failures[k] <= failures'[k]
      /\ ~ok => failures'[i] = failures[i] + 1
  BY <1>0, <1>1 DEF CampaignTypeOK, JobsTypeOK
<1>3. /\ \A k \in Ids : overlaps[k] <= overlaps'[k] /\ overlaps'[k] \in Nat
      /\ running'[w] \in Ids /\ Overlaps(running'[w]) =>
             overlaps'[running'[w]] = overlaps[running'[w]] + 1
  BY <1>0, LaunchedIs DEF JobsTypeOK
<1>4. UnderWay(i)
  BY <1>1 DEF UnderWay
<1>5. backend' = backend
  BY EndsIs
<1>6. CASE backend = "aws"
  <2>1. /\ running' = [running EXCEPT ![w] = None] /\ UNCHANGED <<jobs, runs>>
        /\ queue' = IF ok THEN [queue EXCEPT ![i] = None] ELSE queue
    BY <1>1, <1>6, EndsIs
  <2>2. \A k \in Ids : k # i /\ Owed(k)' => Owed(k)
    BY <1>0, <1>1, <1>5, <1>6, <2>1 DEF Owed, UnderWay, JobsTypeOK
  <2>3. Owed(i)' => ~ok
    BY <1>0, <1>5, <1>6, <2>1 DEF Owed, JobsTypeOK
  <2> QED BY <1>2, <1>3, <2>1, <2>2, <2>3 DEF CampaignIInv, RunsExplained
<1>7. CASE backend = "memory"
  <2>1. /\ Ending(w, ok) \in [Ids -> Job \cup {None}]
        /\ \A k \in Ids : k # i => Ending(w, ok)[k] = jobs[k]
        /\ ok => Ending(w, ok)[i].status = "succeeded"
    <3>1. jobs[i] \in Job /\ jobs \in [Ids -> Job \cup {None}]
      BY <1>0, <1>1, <1>7, EndingType, IdsAreNat DEF JobsTypeOK
    <3> QED BY <1>1, <1>7, <3>1, EndingType, IdsAreNat DEF Ending, Job
  <2>2. CASE running' = [running EXCEPT ![w] = None] /\ runs' = runs /\ jobs' = Ending(w, ok)
    <3>1. \A k \in Ids : k # i /\ Owed(k)' => Owed(k)
      BY <1>5, <1>7, <2>1, <2>2 DEF Owed, Status, Known
    <3>2. Owed(i)' => ~ok
      BY <1>5, <1>7, <2>1, <2>2 DEF Owed, Status, Known
    <3> QED BY <1>2, <1>3, <2>2, <3>1, <3>2 DEF CampaignIInv, RunsExplained
  <2>3. ASSUME NEW j \in due[w], Runs(w, j), jobs'[j] # None, jobs'[j].status = "running",
               \A k \in Ids : k # j => jobs'[k] = Ending(w, ok)[k]
        PROVE  RunsExplained'
    <3>0. j \in Ids /\ Known(j)
      BY <1>0, <1>7 DEF JobsTypeOK, CampaignIInv, InMemory
    <3>1. running'[w] = j /\ runs'[j] = runs[j] + 1 /\ \A k \in Ids : k # j => runs'[k] = runs[k]
      BY <1>0, <2>3, <3>0 DEF Runs, JobsTypeOK
    <3>2. ~Owed(j)'
      BY <1>5, <1>7, <2>3 DEF Owed, Status
    <3>3. \A k \in Ids : k # j /\ k # i /\ Owed(k)' => Owed(k)
      BY <1>5, <1>7, <2>1, <2>3 DEF Owed, Status, Known
    <3>4. i # j /\ Owed(i)' => ~ok
      BY <1>5, <1>7, <2>1, <2>3 DEF Owed, Status, Known
    <3>5. runs'[j] <= 1 + failures'[j] + overlaps'[j]
      <4>1. CASE Overlaps(j)
        <5>1. overlaps'[j] = overlaps[j] + 1
          BY <1>3, <3>0, <3>1, <4>1
        <5> QED BY <1>2, <1>3, <3>0, <3>1, <5>1 DEF CampaignIInv, RunsExplained
      <4>2. CASE ~Overlaps(j)
        <5>1. Owed(j)
          BY <1>7, <3>0, <4>2 DEF Owed, Overlaps, Status
        <5> QED BY <1>2, <1>3, <3>0, <3>1, <5>1 DEF CampaignIInv, RunsExplained
      <4> QED BY <4>1, <4>2
    <3>6. \A k \in Ids : k # j => runs'[k] <= 1 + failures'[k] + overlaps'[k]
                                  /\ (Owed(k)' => runs'[k] <= failures'[k] + overlaps'[k])
      BY <1>2, <1>3, <3>1, <3>3, <3>4 DEF CampaignIInv, RunsExplained
    <3> QED BY <3>2, <3>5, <3>6 DEF RunsExplained
  <2> QED BY <1>7, <2>2, <2>3, EndsIs
<1> QED BY <1>0, <1>6, <1>7 DEF JobsTypeOK, Backends

-------------------------------------------------------------------------------
LEMMA FewerElements ==
    ASSUME NEW S, IsFiniteSet(S), NEW T, T \subseteq S
    PROVE  IsFiniteSet(T) /\ Cardinality(T) <= Cardinality(S)
           /\ Cardinality(T) \in Nat /\ Cardinality(S) \in Nat
<1>1. IsFiniteSet(T) /\ Cardinality(T) <= Cardinality(S)
  BY FS_Subset
<1> QED BY <1>1, FS_CardinalityType

LEMMA FirstStepType == \A p \in Post : FirstStep(p) \in Sending \cup Over
  BY DEF FirstStep, Sending, Over

\* What a job carries are posts.
LEMMA CarriedArePosts ==
    ASSUME payload \in Carried
    PROVE  \A j \in Ids : payload[j] \subseteq Post
  BY PayloadsAssumption DEF Carried

\* The start of a job launches each of its posts once.
LEMMA LaunchCounted ==
    ASSUME CampaignIInv, NEW w \in Workers, NEW base \in SUBSET flights,
           flights' = base \cup Flights(w), UNCHANGED <<payload, posted>>,
           \/ running'[w] = None /\ runs' = runs
           \/ \E j \in Ids : running'[w] = j /\ runs' = [runs EXCEPT ![j] = @ + 1]
    PROVE  Counted' /\ flights' \subseteq FlightType(Ids \X Nat)
<1>0. /\ flights \subseteq FlightType(Ids \X Nat) /\ payload \in Carried
      /\ posted \in [Ids -> [Post -> Nat]] /\ runs \in [Ids -> Nat]
  BY DEF CampaignIInv, CampaignTypeOK, JobsTypeOK
<1>1. \A k \in Ids, p \in Post :
          /\ IsFiniteSet(Unsent(k, p)) /\ posted[k][p] + Cardinality(Unsent(k, p)) <= runs[k]
          /\ Cardinality(Unsent(k, p)) \in Nat
  BY FS_CardinalityType DEF CampaignIInv, Counted
<1>2. CASE running'[w] = None /\ runs' = runs
  <2>1. flights' = base
    BY <1>2 DEF Flights
  <2>2. \A k \in Ids, p \in Post : Unsent(k, p)' \subseteq Unsent(k, p)
    BY <2>1 DEF Unsent
  <2>3. ASSUME NEW k \in Ids, NEW p \in Post
        PROVE  IsFiniteSet(Unsent(k, p)') /\ posted'[k][p] + Cardinality(Unsent(k, p)') <= runs'[k]
    <3>1. IsFiniteSet(Unsent(k, p)') /\ Cardinality(Unsent(k, p)') <= Cardinality(Unsent(k, p))
          /\ Cardinality(Unsent(k, p)') \in Nat
      BY <1>1, <2>2, FewerElements
    <3>2. posted[k][p] \in Nat /\ runs[k] \in Nat
      BY <1>0
    <3> QED BY <1>1, <1>2, <3>1, <3>2
  <2> QED BY <1>0, <2>1, <2>3 DEF Counted
<1>3. ASSUME NEW j \in Ids, running'[w] = j, runs' = [runs EXCEPT ![j] = @ + 1]
      PROVE  Counted' /\ flights' \subseteq FlightType(Ids \X Nat)
  <2> DEFINE new(p) == [batch |-> <<j, runs'[j]>>, post |-> p, at |-> FirstStep(p)]
  <2>1. flights' = base \cup {new(p) : p \in {q \in payload[j] : Accepted(q)}}
    BY <1>3, IdsAreNat DEF Flights, Launch
  <2>2. runs'[j] = runs[j] + 1 /\ runs'[j] \in Nat /\ \A k \in Ids : k # j => runs'[k] = runs[k]
    BY <1>0, <1>3
  <2>3. \A p \in payload[j] : p \in Post /\ new(p) \in FlightType(Ids \X Nat)
    <3>1. payload[j] \subseteq Post
      BY <1>0, CarriedArePosts
    <3> QED BY <2>2, <3>1, FirstStepType DEF FlightType
  <2>4. flights' \subseteq FlightType(Ids \X Nat)
    BY <1>0, <2>1, <2>3
  <2>5. \A p \in Post : new(p).batch[1] = j /\ new(p).post = p
    OBVIOUS
  <2>6. ASSUME NEW k \in Ids, NEW p \in Post
        PROVE  IsFiniteSet(Unsent(k, p)') /\ posted'[k][p] + Cardinality(Unsent(k, p)') <= runs'[k]
    <3>1. CASE k # j
      <4>1. Unsent(k, p)' \subseteq Unsent(k, p)
        BY <2>1, <3>1 DEF Unsent
      <4>2. IsFiniteSet(Unsent(k, p)') /\ Cardinality(Unsent(k, p)') <= Cardinality(Unsent(k, p))
            /\ Cardinality(Unsent(k, p)') \in Nat
        BY <1>1, <4>1, FewerElements
      <4>3. posted[k][p] \in Nat /\ runs[k] \in Nat
        BY <1>0
      <4> QED BY <1>1, <2>2, <3>1, <4>2, <4>3
    <3>2. CASE k = j
      <4>1. Unsent(k, p)' \subseteq Unsent(k, p) \cup {new(p)}
        BY <2>1 DEF Unsent
      <4>2. IsFiniteSet(Unsent(k, p) \cup {new(p)})
            /\ Cardinality(Unsent(k, p) \cup {new(p)}) <= Cardinality(Unsent(k, p)) + 1
        <5>1. Cardinality(Unsent(k, p) \cup {new(p)})
                  \in {Cardinality(Unsent(k, p)), Cardinality(Unsent(k, p)) + 1}
              /\ IsFiniteSet(Unsent(k, p) \cup {new(p)})
          BY <1>1, FS_AddElement
        <5>2. Cardinality(Unsent(k, p)) \in Nat
          BY <1>1
        <5> QED BY <5>1, <5>2
      <4>3. IsFiniteSet(Unsent(k, p)')
            /\ Cardinality(Unsent(k, p)') <= Cardinality(Unsent(k, p) \cup {new(p)})
            /\ Cardinality(Unsent(k, p)') \in Nat /\ Cardinality(Unsent(k, p) \cup {new(p)}) \in Nat
        BY <4>1, <4>2, FewerElements
      <4>4. posted[k][p] \in Nat /\ runs[k] \in Nat
        BY <1>0
      <4> QED BY <1>1, <2>2, <3>2, <4>2, <4>3, <4>4
    <3> QED BY <3>1, <3>2
  <2> QED BY <2>4, <2>6 DEF Counted
<1> QED BY <1>2, <1>3

\* What is left of a flight that takes its next step.
LEMMA ToIs ==
    ASSUME NEW f \in flights, NEW at \in Sending \cup Over,
           flights' \subseteq (flights \ {f}) \cup {[f EXCEPT !.at = at]},
           flights \subseteq FlightType(Ids \X Nat), NEW k \in Ids, NEW p \in Post
    PROVE  /\ flights' \subseteq FlightType(Ids \X Nat)
           /\ Unsent(k, p)' \subseteq (Unsent(k, p) \ {f}) \cup {[f EXCEPT !.at = at]}
           /\ at \in Over \/ ~(k = f.batch[1] /\ p = f.post) =>
                  Unsent(k, p)' \subseteq Unsent(k, p) \ {f}
<1>1. f \in FlightType(Ids \X Nat)
  OBVIOUS
<1>2. PICK g : g = [f EXCEPT !.at = at]
  OBVIOUS
<1>3. g \in FlightType(Ids \X Nat) /\ g.batch = f.batch /\ g.post = f.post /\ g.at = at
  BY <1>1, <1>2 DEF FlightType
<1>4. flights' \subseteq (flights \ {f}) \cup {g}
  BY <1>2
<1>5. at \in Over => at \notin Sending
  BY DEF Over, Sending
<1>6. flights' \subseteq FlightType(Ids \X Nat)
  BY <1>3, <1>4
<1>7. Unsent(k, p)' \subseteq (Unsent(k, p) \ {f}) \cup {g}
  BY <1>4 DEF Unsent
<1>8. at \in Over \/ ~(k = f.batch[1] /\ p = f.post) =>
          Unsent(k, p)' \subseteq Unsent(k, p) \ {f}
  BY <1>3, <1>4, <1>5 DEF Unsent
<1> QED BY <1>2, <1>6, <1>7, <1>8

\* A step of a flight makes a post public once at most, and then is its last.
LEMMA PublishCounted ==
    ASSUME CampaignIInv, NEW f \in flights, Publish(f)
    PROVE  Counted' /\ flights' \subseteq FlightType(Ids \X Nat) /\ posted' \in [Ids -> [Post -> Nat]]
<1>0. /\ flights \subseteq FlightType(Ids \X Nat)
      /\ posted \in [Ids -> [Post -> Nat]] /\ runs \in [Ids -> Nat] /\ runs' = runs
  BY DEF CampaignIInv, CampaignTypeOK, JobsTypeOK, Publish, jvars
<1>1. \A k \in Ids, p \in Post :
          /\ IsFiniteSet(Unsent(k, p)) /\ posted[k][p] + Cardinality(Unsent(k, p)) <= runs[k]
          /\ Cardinality(Unsent(k, p)) \in Nat /\ posted[k][p] \in Nat /\ runs[k] \in Nat
  BY <1>0, FS_CardinalityType DEF CampaignIInv, Counted
<1>2. PICK i \in Ids, q \in Post : i = f.batch[1] /\ q = f.post
  BY <1>0 DEF FlightType
<1>3. FailedAs(f) \subseteq Over /\ Success(f) \in Over /\ Waited(f) \in BOOLEAN
  BY DEF FailedAs, Success, Over, Waited, Rejected
<1>4. CASE Container(f, Waited(f)) /\ UNCHANGED posted
  <2>1. PICK at \in Sending \cup Over :
            flights' \subseteq (flights \ {f}) \cup {[f EXCEPT !.at = at]} /\ f.at = "media"
    BY <1>3, <1>4 DEF Container, Sending, To
  <2>2. PICK g : g = [f EXCEPT !.at = at]
    OBVIOUS
  <2>3. ASSUME NEW k \in Ids, NEW p \in Post
        PROVE  IsFiniteSet(Unsent(k, p)') /\ posted'[k][p] + Cardinality(Unsent(k, p)') <= runs'[k]
    <3>1. CASE k = i /\ p = q
      <4>1. f \in Unsent(k, p)
        BY <1>2, <2>1, <3>1 DEF Unsent, Sending
      <4>2. IsFiniteSet(Unsent(k, p) \ {f})
            /\ Cardinality(Unsent(k, p) \ {f}) = Cardinality(Unsent(k, p)) - 1
        BY <1>1, <4>1, FS_RemoveElement
      <4>3. IsFiniteSet((Unsent(k, p) \ {f}) \cup {g})
            /\ Cardinality((Unsent(k, p) \ {f}) \cup {g}) <= Cardinality(Unsent(k, p))
        <5>1. Cardinality((Unsent(k, p) \ {f}) \cup {g})
                  \in {Cardinality(Unsent(k, p) \ {f}), Cardinality(Unsent(k, p) \ {f}) + 1}
              /\ IsFiniteSet((Unsent(k, p) \ {f}) \cup {g})
          BY <4>2, FS_AddElement
        <5> QED BY <1>1, <4>2, <5>1
      <4>4. Unsent(k, p)' \subseteq (Unsent(k, p) \ {f}) \cup {g}
        BY <1>0, <1>3, <2>1, <2>2, ToIs
      <4>5. IsFiniteSet(Unsent(k, p)') /\ Cardinality(Unsent(k, p)') \in Nat
            /\ Cardinality((Unsent(k, p) \ {f}) \cup {g}) \in Nat
            /\ Cardinality(Unsent(k, p)') <= Cardinality((Unsent(k, p) \ {f}) \cup {g})
        BY <4>3, <4>4, FewerElements
      <4> QED BY <1>0, <1>1, <1>4, <4>3, <4>5
    <3>2. CASE ~(k = i /\ p = q)
      <4>1. Unsent(k, p)' \subseteq Unsent(k, p)
        BY <1>0, <1>2, <1>3, <2>1, <3>2, ToIs
      <4>2. IsFiniteSet(Unsent(k, p)') /\ Cardinality(Unsent(k, p)') \in Nat
            /\ Cardinality(Unsent(k, p)') <= Cardinality(Unsent(k, p))
        BY <1>1, <4>1, FewerElements
      <4> QED BY <1>0, <1>1, <1>4, <4>2
    <3> QED BY <3>1, <3>2
  <2>4. flights' \subseteq FlightType(Ids \X Nat)
    BY <1>0, <1>3, <2>1, ToIs
  <2> QED BY <1>0, <1>4, <2>3, <2>4 DEF Counted
<1>5. ASSUME NEW n \in 0 .. 2, Send(f, n, Waited(f)), posted' = [posted EXCEPT ![i][q] = @ + n]
      PROVE  Counted' /\ flights' \subseteq FlightType(Ids \X Nat) /\ posted' \in [Ids -> [Post -> Nat]]
  <2>1. f.at \in Sending /\ n \in {0, 1}
    BY <1>5 DEF Send, Attempts, Sending
  <2>2. PICK at \in Over : flights' \subseteq (flights \ {f}) \cup {[f EXCEPT !.at = at]}
    BY <1>3, <1>5 DEF Send, To
  <2>3. posted' \in [Ids -> [Post -> Nat]] /\ posted'[i][q] = posted[i][q] + n
        /\ \A k \in Ids, p \in Post : ~(k = i /\ p = q) => posted'[k][p] = posted[k][p]
    BY <1>0, <1>5, <2>1
  <2>4. ASSUME NEW k \in Ids, NEW p \in Post
        PROVE  IsFiniteSet(Unsent(k, p)') /\ posted'[k][p] + Cardinality(Unsent(k, p)') <= runs'[k]
    <3>1. Unsent(k, p)' \subseteq Unsent(k, p) \ {f}
      BY <1>0, <1>3, <2>2, ToIs
    <3>2. CASE k = i /\ p = q
      <4>1. f \in Unsent(k, p)
        BY <1>2, <2>1, <3>2 DEF Unsent
      <4>2. IsFiniteSet(Unsent(k, p) \ {f})
            /\ Cardinality(Unsent(k, p) \ {f}) = Cardinality(Unsent(k, p)) - 1
        BY <1>1, <4>1, FS_RemoveElement
      <4>3. IsFiniteSet(Unsent(k, p)') /\ Cardinality(Unsent(k, p)') \in Nat
            /\ Cardinality(Unsent(k, p)') <= Cardinality(Unsent(k, p) \ {f})
        BY <3>1, <4>2, FewerElements
      <4> QED BY <1>0, <1>1, <2>1, <2>3, <3>2, <4>2, <4>3
    <3>3. CASE ~(k = i /\ p = q)
      <4>1. IsFiniteSet(Unsent(k, p)') /\ Cardinality(Unsent(k, p)') \in Nat
            /\ Cardinality(Unsent(k, p)') <= Cardinality(Unsent(k, p))
        BY <1>1, <3>1, FewerElements
      <4> QED BY <1>0, <1>1, <2>3, <3>3, <4>1
    <3> QED BY <3>2, <3>3
  <2>5. flights' \subseteq FlightType(Ids \X Nat)
    BY <1>0, <1>3, <2>2, ToIs
  <2> QED BY <2>3, <2>4, <2>5 DEF Counted
<1> QED BY <1>2, <1>4, <1>5 DEF Publish

-------------------------------------------------------------------------------
\* Nothing that Counted speaks of changes.
LEMMA CountedStays ==
    ASSUME CampaignIInv, UNCHANGED <<flights, posted, runs>>
    PROVE  Counted'
  BY DEF CampaignIInv, Counted, Unsent

LEMMA NextCampaign == CampaignIInv /\ [CampaignNext]_campaignVars => CampaignIInv'
<1> SUFFICES ASSUME CampaignIInv, [CampaignNext]_campaignVars PROVE CampaignIInv'
  OBVIOUS
<1>0. CampaignTypeOK /\ JobsTypeOK /\ Shape /\ RunsExplained /\ Counted
  BY DEF CampaignIInv, CampaignTypeOK, Shape
<1>1. CASE UNCHANGED campaignVars
  <2>1. CampaignTypeOK' /\ Shape' /\ RunsExplained'
    BY <1>0, <1>1 DEF campaignVars, jvars, svars, cvars, CampaignTypeOK, JobsTypeOK, Shape, Unused,
       InMemory, NotFired, RunsExplained, Owed, Status, Known, UnderWay
  <2>2. Counted'
    BY <1>1, CountedStays DEF campaignVars, jvars, svars, cvars
  <2> QED BY <2>1, <2>2 DEF CampaignIInv, Shape
<1>2. ASSUME NEW w \in Workers, BeginRun(w) PROVE CampaignIInv'
  <2>1. Starts(w) /\ Launched(w) /\ flights' = flights \cup Flights(w)
        /\ UNCHANGED <<payload, posted, failures>>
    BY <1>2 DEF BeginRun
  <2>2. JobsTypeOK'
    BY <2>1, StepJobsType
  <2>3. Shape'
    BY <2>1, WorkerShape
  <2>4. RunsExplained'
    BY <2>1, <2>2, StartExplained
  <2>5. PICK j \in Ids : running'[w] = j /\ runs' = [runs EXCEPT ![j] = @ + 1]
    <3>1. PICK j \in Ids : Runs(w, j)
      BY <2>1, StartsIs
    <3> QED BY <1>0, <3>1 DEF Runs, JobsTypeOK
  <2>6. Counted' /\ flights' \subseteq FlightType(Ids \X Nat)
    BY <2>1, <2>5, LaunchCounted
  <2>7. overlaps' \in [Ids -> Nat] /\ batch' \in [Workers -> Nat]
    BY <1>0, <2>1, <2>2, <2>5, LaunchedIs DEF JobsTypeOK
  <2>8. CampaignTypeOK'
    BY <1>0, <2>1, <2>2, <2>6, <2>7 DEF CampaignTypeOK
  <2> QED BY <2>3, <2>4, <2>6, <2>8 DEF CampaignIInv, Shape
<1>3. ASSUME NEW w \in Workers, FinishRun(w) PROVE CampaignIInv'
  <2>1. PICK ok \in BOOLEAN :
            /\ Ends(w, ok)
            /\ failures' = [failures EXCEPT ![running[w]] = IF ok THEN @ ELSE @ + 1]
    BY <1>3 DEF FinishRun
  <2>2. /\ Launched(w) /\ UNCHANGED <<payload, posted>>
        /\ flights' = Forget(<<running[w], batch[w]>>) \cup Flights(w)
    BY <1>3 DEF FinishRun
  <2>3. JobsTypeOK'
    BY <2>1, StepJobsType
  <2>4. Shape'
    BY <2>1, WorkerShape
  <2>5. RunsExplained'
    BY <2>1, <2>2, <2>3, EndExplained
  <2>6. \/ running'[w] = None /\ runs' = runs
        \/ \E j \in Ids : running'[w] = j /\ runs' = [runs EXCEPT ![j] = @ + 1]
    <3>1. \/ running' = [running EXCEPT ![w] = None] /\ runs' = runs
          \/ \E j \in due[w] : Runs(w, j)
      BY <2>1, EndsIs
    <3> QED BY <1>0, <3>1 DEF Runs, JobsTypeOK
  <2>7. Counted' /\ flights' \subseteq FlightType(Ids \X Nat)
    <3>1. Forget(<<running[w], batch[w]>>) \in SUBSET flights
      BY DEF Forget
    <3> QED BY <2>2, <2>6, <3>1, LaunchCounted
  <2>8. overlaps' \in [Ids -> Nat] /\ batch' \in [Workers -> Nat]
    BY <1>0, <2>2, <2>3, <2>6, LaunchedIs DEF JobsTypeOK
  <2>9. failures' \in [Ids -> Nat]
    <3>1. failures \in [Ids -> Nat] /\ running[w] \in Ids
      BY <1>0, <2>1, EndsIs DEF CampaignTypeOK
    <3>2. CASE ok
      BY <2>1, <3>1, <3>2
    <3>3. CASE ~ok
      BY <2>1, <3>1, <3>3
    <3> QED BY <3>2, <3>3
  <2>10. CampaignTypeOK'
    BY <1>0, <2>2, <2>3, <2>7, <2>8, <2>9 DEF CampaignTypeOK
  <2> QED BY <2>4, <2>5, <2>7, <2>10 DEF CampaignIInv, Shape
<1>4. ASSUME NEW f \in flights, Publish(f) PROVE CampaignIInv'
  <2>1. UNCHANGED <<jvars, payload, batch, failures, overlaps>>
    BY <1>4 DEF Publish
  <2>2. Shape' /\ RunsExplained'
    BY <1>0, <2>1 DEF jvars, Shape, Unused, InMemory, NotFired, RunsExplained, Owed, Status, Known, UnderWay
  <2>3. CampaignTypeOK'
    BY <1>0, <1>4, <2>1, PublishCounted DEF jvars, CampaignTypeOK, JobsTypeOK
  <2> QED BY <1>4, <2>2, <2>3, PublishCounted DEF CampaignIInv, Shape
<1>5. CASE (Asked \/ Restart \/ \E j \in Ids : Service(j)) /\ UNCHANGED <<svars, cvars>>
  <2>1. JobsTypeOK'
    BY <1>5, StepJobsType
  <2>2. Shape' /\ runs' = runs
    BY <1>5, ServiceShape
  <2>3. RunsExplained'
    BY <1>5, ServiceExplained DEF cvars
  <2>4. Counted'
    BY <1>5, <2>2, CountedStays DEF svars, cvars
  <2>5. CampaignTypeOK'
    BY <1>0, <1>5, <2>1 DEF CampaignTypeOK, svars, cvars
  <2> QED BY <2>2, <2>3, <2>4, <2>5 DEF CampaignIInv, Shape
<1> QED BY <1>1, <1>2, <1>3, <1>4, <1>5 DEF CampaignNext

LEMMA CampaignInvariant == CampaignSpec => []CampaignIInv
  BY InitCampaign, NextCampaign, PTL DEF CampaignSpec
-------------------------------------------------------------------------------
\* Jobs, messages, runs and flights have their types.
THEOREM CampaignTyped == CampaignSpec => []CampaignTypeOK
<1>1. CampaignIInv => CampaignTypeOK
  BY DEF CampaignIInv
<1> QED BY <1>1, CampaignInvariant, PTL

\* However ticks, messages and lost answers interleave, a post takes effect at
\* most once for its job, and once more for each run that failed or overlapped.
THEOREM CampaignPostsExplained == CampaignSpec => []PostsExplained
<1>1. ASSUME CampaignIInv PROVE PostsExplained
  <2> SUFFICES ASSUME NEW j \in Ids, NEW p \in Post
               PROVE  posted[j][p] <= 1 + failures[j] + overlaps[j]
    BY DEF PostsExplained
  <2>1. posted[j][p] \in Nat /\ runs[j] \in Nat /\ failures[j] \in Nat /\ overlaps[j] \in Nat
    BY <1>1 DEF CampaignIInv, CampaignTypeOK, JobsTypeOK
  <2>2. Cardinality(Unsent(j, p)) \in Nat /\ posted[j][p] + Cardinality(Unsent(j, p)) <= runs[j]
    BY <1>1, FS_CardinalityType DEF CampaignIInv, Counted
  <2>3. runs[j] <= 1 + failures[j] + overlaps[j]
    BY <1>1 DEF CampaignIInv, RunsExplained
  <2> QED BY <2>1, <2>2, <2>3
<1> QED BY <1>1, CampaignInvariant, PTL

\* A job that was cancelled while nobody had it in hand is never taken up again.
THEOREM CampaignCancelHolds == CampaignSpec => CancelHolds
<1>1. ASSUME CampaignIInv, [CampaignNext]_campaignVars, NEW j \in Ids,
             Status(j) = "cancelled", ~InHand(j)
      PROVE  ~InHand(j)'
  <2>0. JobsTypeOK /\ Shape /\ j \notin schedules
    BY <1>1 DEF CampaignIInv, CampaignTypeOK, Shape, NotFired
  <2>1. CASE UNCHANGED <<queue, running, due>>
    BY <1>1, <2>1 DEF InHand, UnderWay
  <2>2. ASSUME NEW w \in Workers, Starts(w) PROVE ~InHand(j)'
    <3>1. PICK i \in Ids :
              /\ Runs(w, i)
              /\ \/ /\ Status(i) = "scheduled" /\ queue' = queue
                    /\ \E d \in SUBSET Scheduled : due' = [due EXCEPT ![w] = d]
                 \/ /\ queue[i] # None /\ due' = due
                    /\ \A k \in Ids : k # i => queue'[k] = queue[k]
      BY <1>1, <2>2, StartsIs
    <3>2. i # j
      BY <1>1, <3>1 DEF InHand
    <3>3. \A v \in Workers : j \notin due'[v]
      BY <1>1, <2>0, <3>1 DEF InHand, Scheduled, JobsTypeOK
    <3> QED BY <1>1, <2>0, <3>1, <3>2, <3>3 DEF InHand, UnderWay, Runs, JobsTypeOK
  <2>3. ASSUME NEW w \in Workers, NEW ok \in BOOLEAN, Ends(w, ok) PROVE ~InHand(j)'
    <3>1. \A v \in Workers : running'[v] \in {running[v], None} \cup due[w]
      BY <1>1, <2>0, <2>3, EndsIs DEF JobsTypeOK, Runs
    <3>2. \A v \in Workers : due'[v] \subseteq due[v]
      BY <1>1, <2>0, <2>3, EndsIs DEF JobsTypeOK
    <3>3. queue'[j] \in {queue[j], None}
      BY <1>1, <2>0, <2>3, EndsIs DEF JobsTypeOK
    <3> QED BY <1>1, <3>1, <3>2, <3>3, IdsAreNat DEF InHand, UnderWay
  <2>4. CASE Asked \/ Restart \/ \E i \in Ids : Service(i)
    <3>1. UNCHANGED <<running, due>>
      BY <1>1, <2>4, ServiceShape
    <3>2. queue'[j] = None
      BY <1>1, <2>0, <2>4 DEF InHand, JobsTypeOK, Asked, Service, Schedule, ScheduleAt, Cancel, CancelAt,
         Restart, Fire, Reappear, Bury
    <3> QED BY <1>1, <3>1, <3>2 DEF InHand, UnderWay
  <2>5. CASE \E f \in flights : Publish(f)
    BY <2>1, <2>5 DEF Publish, jvars
  <2>6. CASE UNCHANGED campaignVars
    BY <2>1, <2>6 DEF campaignVars, jvars
  <2> QED BY <1>1, <2>2, <2>3, <2>4, <2>5, <2>6 DEF CampaignNext, BeginRun, FinishRun
<1>2. CampaignIInv /\ [CampaignNext]_campaignVars =>
          [\A j \in Ids : Status(j) = "cancelled" /\ ~InHand(j) => ~InHand(j)']_campaignVars
  BY <1>1
<1> QED BY <1>2, CampaignInvariant, PTL DEF CampaignSpec, CancelHolds
================================================================================
