------------------------------ MODULE MCTokenVault ------------------------------
(* TokenVault on small instances: the calls are interchangeable.  Two history *)
(* variables: broken, once the provider or the store has failed or a process  *)
(* has died; overlapped, once two calls were under way together.              *)
EXTENDS TokenVault, TLC

VARIABLES broken, overlapped

CallSymmetry == Permutations(Calls)

MCInit == Init /\ broken = FALSE /\ overlapped = FALSE

MCNext ==
    /\ \/ (Ages \/ \E c \in Calls : Works(c)) /\ UNCHANGED broken
       \/ (\E c \in Calls : Breaks(c)) /\ broken' = TRUE
    /\ overlapped' = (overlapped \/ \E c, d \in Active' : c # d)

MCSpec == MCInit /\ [][MCNext]_<<vars, broken, overlapped>>

\* The user has to connect the account again although it is not one without a
\* refresh token, and neither the provider nor the store has failed.
CutOff ==
    /\ ~broken /\ store # NoRecord /\ store.health = "needs_reauth"
    /\ store.tokens \notin bare

\* "refreshes them before expiry, and marks needs_reauth when refresh fails":
\* once every call has ended, an account is never cut off without a failure of
\* the provider or the store.  Two overlapping refreshes of one token set break
\* it: the second is refused, and puts the spent tokens back, as needs_reauth,
\* over the ones the first has stored and returned.
NeverCutOff == Active = {} => ~CutOff

\* Without an overlap an account is not cut off at any time.
CutOffOnlyByOverlap == CutOff => overlapped

\* The tokens of a connection are not lost when nothing fails and no calls
\* overlap: what the provider would refresh is stored, or newer tokens are, or
\* a call is on its way to store it, or it has been disconnected.
NewestKept ==
    ~broken /\ ~overlapped /\ Active = {} /\ store # NoRecord =>
        \A t \in good : t <= store.tokens
================================================================================
