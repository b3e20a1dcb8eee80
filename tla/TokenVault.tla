------------------------------- MODULE TokenVault -------------------------------
(***************************************************************************)
(* packages/tokens: TokenVault over a TokenStore, for ONE provider and     *)
(* subject (one store key).  A member of Calls is one call of put (the     *)
(* app connecting the account), delete or accessToken; a handler takes one *)
(* action between two awaits.                                              *)
(*                                                                         *)
(* Token sets are numbered in the order the provider issues them.  The     *)
(* provider is external: it rotates refresh tokens (TikTok, X), so a       *)
(* refresh spends the token set it is made with.                           *)
(***************************************************************************)
EXTENDS Integers, FiniteSets

CONSTANTS
    Calls,
    NoRecord,           \* store.get of a missing key
    MaxTokens           \* bound of the token sets the provider issues

ASSUME MaxTokensAssumption == MaxTokens \in Nat

Tokens == 1 .. MaxTokens
Record == [tokens : Tokens, health : {"ok", "needs_reauth"}]

ASSUME NoRecordAssumption == NoRecord \notin Record

VARIABLES
    store,              \* the record under the key
    issued,             \* how many token sets the provider has issued
    good,               \* the token sets the provider would refresh
    bare,               \* the token sets without a refresh token, or a refresher
    stale,              \* the token sets within the skew of their expiry
    pc, rec, got        \* per call: control, its record, token set it obtained

provider == <<issued, good, bare>>
vars == <<store, issued, good, bare, stale, pc, rec, got>>

NoToken == 0
Pc == {"idle", "connect", "put", "delete", "get", "refresh", "store", "mark",
       "done", "reauth", "missing", "thrown"}

TypeOK ==
    /\ store \in Record \cup {NoRecord}
    /\ issued \in 0 .. MaxTokens
    /\ good \subseteq 1 .. issued /\ bare \subseteq 1 .. issued
    /\ stale \subseteq 1 .. issued
    /\ pc \in [Calls -> Pc]
    /\ rec \in [Calls -> Record \cup {NoRecord}]
    /\ got \in [Calls -> {NoToken} \cup (1 .. issued)]

Init ==
    /\ store = NoRecord
    /\ issued = 0 /\ good = {} /\ bare = {} /\ stale = {}
    /\ pc = [c \in Calls |-> "idle"]
    /\ rec = [c \in Calls |-> NoRecord]
    /\ got = [c \in Calls |-> NoToken]

Goto(c, p) == pc' = [pc EXCEPT ![c] = p]

Begin(c) ==
    /\ pc[c] = "idle"
    /\ \E p \in {"connect", "delete", "get"} : Goto(c, p)
    /\ UNCHANGED <<store, provider, stale, rec, got>>

-------------------------------------------------------------------------------
(* put and delete. *)

\* The user authorises the app: the provider issues a token set, refreshable
\* or not.  Older grants keep working.
Authorise(c) ==
    /\ pc[c] = "connect" /\ issued < MaxTokens
    /\ issued' = issued + 1
    /\ \/ good' = good \cup {issued'} /\ UNCHANGED bare
       \/ bare' = bare \cup {issued'} /\ UNCHANGED good
    /\ got' = [got EXCEPT ![c] = issued']
    /\ Goto(c, "put")
    /\ UNCHANGED <<store, stale, rec>>

Put(c) ==
    /\ pc[c] = "put"
    /\ store' = [tokens |-> got[c], health |-> "ok"]
    /\ Goto(c, "done")
    /\ UNCHANGED <<provider, stale, rec, got>>

Delete(c) ==
    /\ pc[c] = "delete"
    /\ store' = NoRecord
    /\ Goto(c, "done")
    /\ UNCHANGED <<provider, stale, rec, got>>

-------------------------------------------------------------------------------
(* accessToken. *)

GetMissing(c) ==
    /\ pc[c] = "get" /\ store = NoRecord
    /\ Goto(c, "missing")
    /\ UNCHANGED <<store, provider, stale, rec, got>>

GetReauth(c) ==
    /\ pc[c] = "get" /\ store # NoRecord /\ store.health = "needs_reauth"
    /\ Goto(c, "reauth")
    /\ UNCHANGED <<store, provider, stale, rec, got>>

GetFresh(c) ==
    /\ pc[c] = "get" /\ store # NoRecord /\ store.health = "ok"
    /\ store.tokens \notin stale
    /\ got' = [got EXCEPT ![c] = store.tokens]
    /\ Goto(c, "done")
    /\ UNCHANGED <<store, provider, stale, rec>>

\* Close to expiry: refreshed, or marked when there is nothing to refresh with.
GetStale(c) ==
    /\ pc[c] = "get" /\ store # NoRecord /\ store.health = "ok"
    /\ store.tokens \in stale
    /\ rec' = [rec EXCEPT ![c] = store]
    /\ Goto(c, IF store.tokens \in bare THEN "mark" ELSE "refresh")
    /\ UNCHANGED <<store, provider, stale, got>>

\* The provider spends the token set presented and issues the next one.
Rotate(c) ==
    /\ pc[c] = "refresh" /\ rec[c].tokens \in good /\ issued < MaxTokens
    /\ issued' = issued + 1
    /\ good' = (good \ {rec[c].tokens}) \cup {issued'}
    /\ UNCHANGED bare

\* Mutant of Refresh: the provider's answer is not kept.
RefreshForgets(c) ==
    /\ Rotate(c)
    /\ Goto(c, "store")
    /\ UNCHANGED <<store, stale, rec, got>>

Refresh(c) ==
    /\ Rotate(c)
    /\ got' = [got EXCEPT ![c] = issued']
    /\ Goto(c, "store")
    /\ UNCHANGED <<store, stale, rec>>

\* Rotated, but the answer is lost or unreadable: the refresher throws.
RefreshLost(c) ==
    /\ Rotate(c)
    /\ Goto(c, "mark")
    /\ UNCHANGED <<store, stale, rec, got>>

\* invalid_grant: the token set has been spent already.
RefreshRefused(c) ==
    /\ pc[c] = "refresh" /\ rec[c].tokens \notin good
    /\ Goto(c, "mark")
    /\ UNCHANGED <<store, provider, stale, rec, got>>

\* A timeout or a 5xx before the provider has done anything.
RefreshFails(c) ==
    /\ pc[c] = "refresh"
    /\ Goto(c, "mark")
    /\ UNCHANGED <<store, provider, stale, rec, got>>

\* Mutant of StoreNext: the tokens of the record read are written back.
StoreNextOld(c) ==
    /\ pc[c] = "store"
    /\ store' = [tokens |-> rec[c].tokens, health |-> "ok"]
    /\ Goto(c, "done")
    /\ UNCHANGED <<provider, stale, rec, got>>

StoreNext(c) ==
    /\ pc[c] = "store"
    /\ store' = [tokens |-> got[c], health |-> "ok"]
    /\ Goto(c, "done")
    /\ UNCHANGED <<provider, stale, rec, got>>

\* Mutant of StoreFails: the put is outside the try.
StoreFailsOutside(c) ==
    /\ pc[c] = "store"
    /\ Goto(c, "done")
    /\ UNCHANGED <<store, provider, stale, rec, got>>

\* The put of the new tokens throws inside the same try as the refresh, before
\* or after its effect.
StoreFails(c) ==
    /\ pc[c] = "store"
    /\ store' \in {store, [tokens |-> got[c], health |-> "ok"]}
    /\ Goto(c, "mark")
    /\ UNCHANGED <<provider, stale, rec, got>>

\* mark puts back the record that was read, tokens and all.
Mark(c) ==
    /\ pc[c] = "mark"
    /\ store' = [tokens |-> rec[c].tokens, health |-> "needs_reauth"]
    /\ Goto(c, "reauth")
    /\ UNCHANGED <<provider, stale, rec, got>>

\* A store call throws out of the handler, or the process dies.
Throw(c) ==
    /\ pc[c] \in {"put", "delete", "get", "refresh", "store", "mark"}
    /\ Goto(c, "thrown")
    /\ UNCHANGED <<store, provider, stale, rec, got>>

-------------------------------------------------------------------------------
\* Time passes: a token set comes within the skew of its expiry.
Age(t) ==
    /\ t \in (1 .. issued) \ stale
    /\ stale' = stale \cup {t}
    /\ UNCHANGED <<store, provider, pc, rec, got>>

Works(c) ==
    \/ Begin(c) \/ Authorise(c) \/ Put(c) \/ Delete(c)
    \/ GetMissing(c) \/ GetReauth(c) \/ GetFresh(c) \/ GetStale(c)
    \/ Refresh(c) \/ RefreshRefused(c) \/ StoreNext(c) \/ Mark(c)

Breaks(c) == RefreshLost(c) \/ RefreshFails(c) \/ StoreFails(c) \/ Throw(c)

Ages == \E t \in Tokens : Age(t)

Next == Ages \/ \E c \in Calls : Works(c) \/ Breaks(c)

Spec == Init /\ [][Next]_vars

Ended == {"idle", "done", "reauth", "missing", "thrown"}
Active == {c \in Calls : pc[c] \notin Ended}

-------------------------------------------------------------------------------
(* Properties. *)

Dead(t) == t \notin good /\ t \notin bare

\* A record that claims to be healthy holds tokens the provider has spent only
\* while the call that spent them has yet to store or mark, or has died on the
\* way: whatever overlaps, a stored token set is never put back over its own
\* successor as healthy.
HealthyIsGood ==
    store # NoRecord /\ store.health = "ok" /\ Dead(store.tokens) =>
        \E c \in Calls : pc[c] \in {"store", "mark", "thrown"} /\ rec[c] = store
================================================================================
