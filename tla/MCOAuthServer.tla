------------------------------ MODULE MCOAuthServer ------------------------------
(* OAuthServer on small instances: calls of one kind are interchangeable. *)
EXTENDS OAuthServer, TLC

CallSymmetry == Permutations(Consents) \cup Permutations(Exchanges)
                \cup Permutations(Clients)
================================================================================
