------------------------------ MODULE GrantLineage ------------------------------
(***************************************************************************)
(* What the OAuth server promises about the secrets that can be exchanged  *)
(* for tokens, apart from how it stores them: a consent opens one line of  *)
(* secrets (the code, then one refresh token after another), at most one   *)
(* of the line is live at any time, and no secret is live twice.           *)
(***************************************************************************)
CONSTANTS Consents, Secrets

VARIABLES
    phase,      \* per consent: new, live, owed (redeemed, its successor due), closed
    live,       \* per consent: its live secret, as a set of at most one
    used        \* the secrets that have been live

lineage == <<phase, live, used>>

LineInit ==
    /\ phase = [k \in Consents |-> "new"]
    /\ live = [k \in Consents |-> {}]
    /\ used = {}

Issue(k) ==
    \E s \in Secrets \ used :
        /\ phase' = [phase EXCEPT ![k] = "live"]
        /\ live' = [live EXCEPT ![k] = {s}]
        /\ used' = used \cup {s}

Open(k) == phase[k] = "new" /\ Issue(k)

Redeem(k) ==
    /\ phase[k] = "live"
    /\ phase' = [phase EXCEPT ![k] = "owed"]
    /\ live' = [live EXCEPT ![k] = {}]
    /\ UNCHANGED used

Renew(k) == phase[k] = "owed" /\ Issue(k)

\* The line ends: its secret is refused or swept, or the redemption is lost.
Close(k) ==
    /\ phase[k] \in {"live", "owed"}
    /\ phase' = [phase EXCEPT ![k] = "closed"]
    /\ live' = [live EXCEPT ![k] = {}]
    /\ UNCHANGED used

LineNext == \E k \in Consents : Open(k) \/ Redeem(k) \/ Renew(k) \/ Close(k)

LineSpec == LineInit /\ [][LineNext]_lineage
================================================================================
