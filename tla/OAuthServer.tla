------------------------------ MODULE OAuthServer ------------------------------
(***************************************************************************)
(* packages/oauth: OAuthController.authorize, OAuthService.token and       *)
(* OAuthBearerService.authenticate over an OAuthStore.                     *)
(*                                                                         *)
(* A member of Consents is one POST of the consent form, of Exchanges one  *)
(* POST to /oauth/token, of Bearers one request with a bearer token; every *)
(* store access is an action, so they interleave there.  Secrets are       *)
(* random and stored hashed: they are named by the call that makes them,   *)
(* and a caller presents one that a response has handed out.  Clocks are   *)
(* abstracted to Expire: a stored secret may expire at any time.           *)
(***************************************************************************)
EXTENDS FiniteSets

CONSTANTS
    Consents, Exchanges, Bearers,   \* calls
    Clients, Users,
    Nothing                         \* a key the store does not hold

Secrets == [kind : {"code"}, of : Consents] \cup [kind : {"access", "refresh"}, of : Exchanges]

CodeOf(k)    == [kind |-> "code", of |-> k]
AccessOf(e)  == [kind |-> "access", of |-> e]
RefreshOf(e) == [kind |-> "refresh", of |-> e]

\* AuthCode and TokenRecord.  root, the consent that the secret descends from,
\* is read by properties only.
Entry == [client : Clients, user : Users, root : Consents]

Grants == {"authorization_code", "refresh_token"}

ASSUME NothingAssumption == Nothing \notin Entry

VARIABLES
    clients,                        \* the registered clients
    allowed,                        \* the users isAllowed accepts
    store,                          \* the codes and tokens
    expired,                        \* the secrets past their expiresAt
    kpc, kreq, kallowed,            \* per consent: control, client and user
    epc, ereq, ebase,               \* per exchange: control, request, `record`
    bpc, bsecret, bentry, bseen     \* per bearer request

app    == <<clients, allowed>>
kvars  == <<kpc, kreq, kallowed>>
evars  == <<epc, ereq, ebase>>
bvars  == <<bpc, bsecret, bentry, bseen>>
vars   == <<clients, allowed, store, expired, kpc, kreq, kallowed, epc, ereq, ebase,
            bpc, bsecret, bentry, bseen>>

\* History: bseen are the users allowed at some moment of a bearer request, and
\* kallowed says whether the user of a POST was at some moment of it.

ConsentPc  == {"idle", "shown", "check", "put", "redirect", "issued", "denied", "lost"}
ExchangePc == {"idle", "take", "access", "refresh", "respond", "done", "refused", "failed", "lost"}
BearerPc   == {"idle", "token", "user", "granted", "refused"}

KRequest == [client : Clients, user : Users]
ERequest == [client : Clients, secret : Secrets, grant : Grants, proof : BOOLEAN]

TypeOK ==
    /\ clients \subseteq Clients /\ allowed \subseteq Users
    /\ store \in [Secrets -> Entry \cup {Nothing}]
    /\ expired \subseteq Secrets
    /\ kpc \in [Consents -> ConsentPc]
    /\ kreq \in [Consents -> KRequest \cup {Nothing}]
    /\ \A k \in Consents : kpc[k] \in {"check", "put", "redirect", "issued", "lost"} => kreq[k] \in KRequest
    /\ kallowed \in [Consents -> BOOLEAN]
    /\ epc \in [Exchanges -> ExchangePc]
    /\ ereq \in [Exchanges -> ERequest \cup {Nothing}]
    /\ \A e \in Exchanges : epc[e] # "idle" => ereq[e] \in ERequest
    /\ ebase \in [Exchanges -> Entry \cup {Nothing}]
    /\ \A e \in Exchanges : epc[e] \in {"access", "refresh", "respond", "done", "lost"} => ebase[e] \in Entry
    /\ bpc \in [Bearers -> BearerPc]
    /\ bsecret \in [Bearers -> Secrets \cup {Nothing}]
    /\ bentry \in [Bearers -> Entry \cup {Nothing}]
    /\ \A b \in Bearers : bpc[b] # "idle" => bsecret[b] \in Secrets
    /\ \A b \in Bearers : bpc[b] \in {"user", "granted"} => bentry[b] \in Entry
    /\ bseen \in [Bearers -> SUBSET Users]

Init ==
    /\ clients = {} /\ allowed \in SUBSET Users
    /\ store = [s \in Secrets |-> Nothing]
    /\ expired = {}
    /\ kpc = [k \in Consents |-> "idle"]
    /\ kreq = [k \in Consents |-> Nothing]
    /\ kallowed = [k \in Consents |-> FALSE]
    /\ epc = [e \in Exchanges |-> "idle"]
    /\ ereq = [e \in Exchanges |-> Nothing]
    /\ ebase = [e \in Exchanges |-> Nothing]
    /\ bpc = [b \in Bearers |-> "idle"]
    /\ bsecret = [b \in Bearers |-> Nothing]
    /\ bentry = [b \in Bearers |-> Nothing]
    /\ bseen = [b \in Bearers |-> {}]

\* A secret some response has carried to its client.
Handed(s) == IF s.kind = "code" THEN kpc[s.of] = "issued" ELSE epc[s.of] = "done"

Stored(s) == store[s] # Nothing

-------------------------------------------------------------------------------
Register(x) ==
    /\ x \notin clients
    /\ clients' = clients \cup {x}
    /\ UNCHANGED <<allowed, store, expired, kvars, evars, bvars>>

\* The application changes its mind about a user.
SetAllowed(users) ==
    /\ allowed' = users
    /\ bseen' = [b \in Bearers |-> IF bpc[b] \in {"token", "user"} THEN bseen[b] \cup users
                                                                  ELSE bseen[b]]
    /\ kallowed' = [k \in Consents |-> kallowed[k] \/ (kpc[k] = "check" /\ kreq[k].user \in users)]
    /\ UNCHANGED <<clients, store, expired, kpc, kreq, evars, bpc, bsecret, bentry>>

Expire(s) ==
    /\ Stored(s) /\ s \notin expired
    /\ expired' = expired \cup {s}
    /\ UNCHANGED <<app, store, kvars, evars, bvars>>

\* DynamoDB's TTL sweep, some time after the expiry.
Sweep(s) ==
    /\ Stored(s) /\ s \in expired
    /\ store' = [store EXCEPT ![s] = Nothing]
    /\ UNCHANGED <<app, expired, kvars, evars, bvars>>

-------------------------------------------------------------------------------
(* The consent page, and the POST of its form: validateAuthorize, sessionUser, *)
(* isAllowed, issueCode.                                                       *)

\* GET /oauth/authorize shows the page to an allowed user.  It has no effect on
\* the POST, which anyone may make, seen the page or not.
ShowPage(k, x, u) ==
    /\ kpc[k] = "idle"
    /\ x \in clients /\ u \in allowed
    /\ kreq' = [kreq EXCEPT ![k] = [client |-> x, user |-> u]]
    /\ kpc' = [kpc EXCEPT ![k] = "shown"]
    /\ UNCHANGED <<app, store, expired, kallowed, evars, bvars>>

\* A request whose client or redirect URI is unknown ends here, with a page.
BeginConsent(k, x, u) ==
    /\ kpc[k] \in {"idle", "shown"}
    /\ x \in clients
    /\ kreq' = [kreq EXCEPT ![k] = [client |-> x, user |-> u]]
    /\ kpc' = [kpc EXCEPT ![k] = "check"]
    /\ kallowed' = [kallowed EXCEPT ![k] = u \in allowed]
    /\ UNCHANGED <<app, store, expired, evars, bvars>>

\* Mutant of CheckConsent: a user who was shown the page is trusted.
CheckConsentTrusts(k) ==
    /\ kpc[k] = "check"
    /\ kpc' = [kpc EXCEPT ![k] = "put"]
    /\ UNCHANGED <<app, store, expired, kreq, kallowed, evars, bvars>>

\* isAllowed, then the decision in the form.
CheckConsent(k) ==
    /\ kpc[k] = "check"
    /\ kreq[k].user \in allowed
    /\ kpc' = [kpc EXCEPT ![k] = "put"]
    /\ UNCHANGED <<app, store, expired, kreq, kallowed, evars, bvars>>

\* Not allowed, not signed in, "deny", or a failure before the code is stored.
DenyConsent(k) ==
    /\ kpc[k] \in {"check", "put"}
    /\ kpc' = [kpc EXCEPT ![k] = "denied"]
    /\ UNCHANGED <<app, store, expired, kreq, kallowed, evars, bvars>>

PutCode(k) ==
    /\ kpc[k] = "put"
    /\ store' = [store EXCEPT ![CodeOf(k)] =
                    [client |-> kreq[k].client, user |-> kreq[k].user, root |-> k]]
    /\ kpc' = [kpc EXCEPT ![k] = "redirect"]
    /\ UNCHANGED <<app, expired, kreq, kallowed, evars, bvars>>

\* The redirect reaches the client, or is lost on the way.
Redirect(k) ==
    /\ kpc[k] = "redirect"
    /\ \E end \in {"issued", "lost"} : kpc' = [kpc EXCEPT ![k] = end]
    /\ UNCHANGED <<app, store, expired, kreq, kallowed, evars, bvars>>

-------------------------------------------------------------------------------
(* POST /oauth/token: getClient, takeCode or takeToken, then issueTokens. *)

\* proof: the verifier hashes to the code's challenge and redirect_uri matches.
BeginExchange(e, x, s, g, proof) ==
    /\ epc[e] = "idle"
    /\ x \in clients
    /\ Handed(s)
    /\ ereq' = [ereq EXCEPT ![e] = [client |-> x, secret |-> s, grant |-> g, proof |-> proof]]
    /\ epc' = [epc EXCEPT ![e] = "take"]
    /\ UNCHANGED <<app, store, expired, kvars, ebase, bvars>>

\* takeCode looks among the codes, takeToken among the tokens of both kinds.
LooksUp(e) ==
    IF ereq[e].grant = "authorization_code" THEN ereq[e].secret.kind = "code"
                                            ELSE ereq[e].secret.kind # "code"

Finds(e) == LooksUp(e) /\ Stored(ereq[e].secret)

\* Mutant of Valid: the client of the record is not compared.
ValidAnyClient(e) ==
    LET s == ereq[e].secret IN
    /\ s \notin expired
    /\ s.kind = "code" => ereq[e].proof
    /\ s.kind # "access"

\* The checks on the record, made after it is taken.
Valid(e) ==
    LET s == ereq[e].secret IN
    /\ s \notin expired
    /\ store[s].client = ereq[e].client
    /\ s.kind = "code" => ereq[e].proof
    /\ s.kind # "access"

\* Mutant of TakeNothing: a missing record passes.
TakeNothingPasses(e) ==
    /\ epc[e] = "take"
    /\ ~Finds(e)
    /\ epc' = [epc EXCEPT ![e] = "access"]
    /\ UNCHANGED <<app, store, expired, kvars, ereq, ebase, bvars>>

TakeNothing(e) ==
    /\ epc[e] = "take"
    /\ ~Finds(e)
    /\ epc' = [epc EXCEPT ![e] = "refused"]
    /\ UNCHANGED <<app, store, expired, kvars, ereq, ebase, bvars>>

\* Mutant of Take: a plain read.
TakeKeeps(e) ==
    /\ epc[e] = "take"
    /\ Finds(e) /\ Valid(e)
    /\ epc' = [epc EXCEPT ![e] = "access"]
    /\ ebase' = [ebase EXCEPT ![e] = store[ereq[e].secret]]
    /\ UNCHANGED <<app, store, expired, kvars, ereq, bvars>>

\* Mutant of Take: the record is deleted only once it has passed the checks.
TakeIfValid(e) ==
    /\ epc[e] = "take"
    /\ Finds(e)
    /\ IF Valid(e)
       THEN /\ store' = [store EXCEPT ![ereq[e].secret] = Nothing]
            /\ epc' = [epc EXCEPT ![e] = "access"]
            /\ ebase' = [ebase EXCEPT ![e] = store[ereq[e].secret]]
       ELSE /\ epc' = [epc EXCEPT ![e] = "refused"]
            /\ UNCHANGED <<store, ebase>>
    /\ UNCHANGED <<app, expired, kvars, ereq, bvars>>

\* Read and delete in one step; a record that fails a check is gone all the same.
Take(e) ==
    /\ epc[e] = "take"
    /\ Finds(e)
    /\ store' = [store EXCEPT ![ereq[e].secret] = Nothing]
    /\ IF Valid(e)
       THEN /\ epc' = [epc EXCEPT ![e] = "access"]
            /\ ebase' = [ebase EXCEPT ![e] = store[ereq[e].secret]]
       ELSE /\ epc' = [epc EXCEPT ![e] = "refused"]
            /\ UNCHANGED ebase
    /\ UNCHANGED <<app, expired, kvars, ereq, bvars>>

\* The tokens carry the client of the request, the user and scope of the record.
NewEntry(e) == [ebase[e] EXCEPT !.client = ereq[e].client]

PutAccess(e) ==
    /\ epc[e] = "access"
    /\ store' = [store EXCEPT ![AccessOf(e)] = NewEntry(e)]
    /\ epc' = [epc EXCEPT ![e] = "refresh"]
    /\ UNCHANGED <<app, expired, kvars, ereq, ebase, bvars>>

PutRefresh(e) ==
    /\ epc[e] = "refresh"
    /\ store' = [store EXCEPT ![RefreshOf(e)] = NewEntry(e)]
    /\ epc' = [epc EXCEPT ![e] = "respond"]
    /\ UNCHANGED <<app, expired, kvars, ereq, ebase, bvars>>

Respond(e) ==
    /\ epc[e] = "respond"
    /\ \E end \in {"done", "lost"} : epc' = [epc EXCEPT ![e] = end]
    /\ UNCHANGED <<app, store, expired, kvars, ereq, ebase, bvars>>

\* A store call throws or the process dies between two of them.
FailExchange(e) ==
    /\ epc[e] \in {"take", "access", "refresh"}
    /\ epc' = [epc EXCEPT ![e] = "failed"]
    /\ UNCHANGED <<app, store, expired, kvars, ereq, ebase, bvars>>

-------------------------------------------------------------------------------
(* OAuthBearerService.authenticate: getToken, then the user and isAllowed. *)

BeginBearer(b, s) ==
    /\ bpc[b] = "idle"
    /\ Handed(s)
    /\ bpc' = [bpc EXCEPT ![b] = "token"]
    /\ bsecret' = [bsecret EXCEPT ![b] = s]
    /\ bseen' = [bseen EXCEPT ![b] = allowed]
    /\ UNCHANGED <<app, store, expired, kvars, evars, bentry>>

\* Live: an access token, in the store, not expired.
LiveAccess(s) == s.kind = "access" /\ Stored(s) /\ s \notin expired

ReadToken(b) ==
    /\ bpc[b] = "token"
    /\ LiveAccess(bsecret[b])
    /\ bpc' = [bpc EXCEPT ![b] = "user"]
    /\ bentry' = [bentry EXCEPT ![b] = store[bsecret[b]]]
    /\ UNCHANGED <<app, store, expired, kvars, evars, bsecret, bseen>>

CheckUser(b) ==
    /\ bpc[b] = "user"
    /\ bentry[b].user \in allowed
    /\ bpc' = [bpc EXCEPT ![b] = "granted"]
    /\ UNCHANGED <<app, store, expired, kvars, evars, bsecret, bentry, bseen>>

RefuseBearer(b) ==
    /\ \/ bpc[b] = "token" /\ ~LiveAccess(bsecret[b])
       \/ bpc[b] = "user" /\ bentry[b].user \notin allowed
    /\ bpc' = [bpc EXCEPT ![b] = "refused"]
    /\ UNCHANGED <<app, store, expired, kvars, evars, bsecret, bentry, bseen>>

-------------------------------------------------------------------------------
ConsentStep(k) ==
    \/ \E x \in Clients, u \in Users : ShowPage(k, x, u) \/ BeginConsent(k, x, u)
    \/ CheckConsent(k) \/ DenyConsent(k) \/ PutCode(k) \/ Redirect(k)

ExchangeStep(e) ==
    \/ \E x \in Clients, s \in Secrets, g \in Grants, proof \in BOOLEAN :
          BeginExchange(e, x, s, g, proof)
    \/ TakeNothing(e) \/ Take(e) \/ PutAccess(e) \/ PutRefresh(e)
    \/ Respond(e) \/ FailExchange(e)

BearerStep(b) ==
    \/ \E s \in Secrets : BeginBearer(b, s)
    \/ ReadToken(b) \/ CheckUser(b) \/ RefuseBearer(b)

Environment ==
    \/ \E x \in Clients : Register(x)
    \/ \E users \in SUBSET Users : SetAllowed(users)
    \/ \E s \in Secrets : Expire(s) \/ Sweep(s)

Next ==
    \/ Environment
    \/ \E k \in Consents : ConsentStep(k)
    \/ \E e \in Exchanges : ExchangeStep(e)
    \/ \E b \in Bearers : BearerStep(b)

Spec == Init /\ [][Next]_vars

-------------------------------------------------------------------------------
(* Properties. *)

\* Every code and token in the store is bound to the client and the user of the
\* consent it descends from, whoever presented the secrets on the way.
TokensBound ==
    \A s \in Secrets :
        Stored(s) => /\ store[s].client = kreq[store[s].root].client
                     /\ store[s].user = kreq[store[s].root].user

\* A call that got as far as looking its secret up leaves it out of the store
\* for good, whether it succeeds or not (oauth.service.spec "codes are
\* single-use even on failure").
PresentedIsGone ==
    \A e \in Exchanges :
        epc[e] \in {"access", "refresh", "respond", "done", "refused", "lost"} /\ LooksUp(e)
            => ~Stored(ereq[e].secret)

\* The code of the consent has been put.
Opened(k) == kpc[k] \in {"redirect", "issued", "lost"}

\* A bearer request is granted, and a code is put, only if the user was allowed
\* at some moment of that request: removing someone takes effect on every request
\* that starts later, whatever page or token they were given before ("the user is
\* re-checked here rather than trusted from GET").
GrantedWasAllowed ==
    /\ \A b \in Bearers : bpc[b] = "granted" => bentry[b].user \in bseen[b]
    /\ \A k \in Consents : Opened(k) => kallowed[k]

\* What the store says of the line of secrets of a consent.
LiveOf(k) == {s \in Secrets : s.kind # "access" /\ Stored(s) /\ store[s].root = k}

OwedTo(k) == \E e \in Exchanges : epc[e] \in {"access", "refresh"} /\ ebase[e].root = k

PhaseOf(k) ==
    IF ~Opened(k) THEN "new"
    ELSE IF LiveOf(k) # {} THEN "live"
    ELSE IF OwedTo(k) THEN "owed"
    ELSE "closed"

UsedSecrets ==
    {CodeOf(k) : k \in {j \in Consents : Opened(j)}}
    \cup {RefreshOf(e) : e \in {d \in Exchanges : epc[d] \in {"respond", "done", "lost"}}}

Lineage == INSTANCE GrantLineage WITH
    phase <- [k \in Consents |-> PhaseOf(k)],
    live  <- [k \in Consents |-> LiveOf(k)],
    used  <- UsedSecrets

\* The server keeps the promise of GrantLineage: one live secret per consent,
\* none redeemed twice, under every interleaving, crash and lost response.
ImplementsLineage == Lineage!LineSpec
================================================================================
