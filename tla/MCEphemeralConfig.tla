---------------------------- MODULE MCEphemeralConfig ----------------------------
EXTENDS EphemeralConfig, TLC

MCNames == {"jwt-secret", "old/jwt-secret", "github-client-id", "apple-client-id",
            "apple-private-key"}
\* Two names of the source have the same last part.
MCLeaf == [n \in MCNames |-> IF n = "old/jwt-secret" THEN "jwt-secret" ELSE n]
MCProvisioned == "dev" :> MCNames \ {"apple-private-key"} @@
                 "shared" :> {"jwt-secret", "apple-private-key"}
================================================================================
