--------------------------- MODULE MC_BootstrapToken ---------------------------
(***************************************************************************)
(* Model-checking instance of BootstrapToken: two token IDs, TTLs of nil, *)
(* 1 and 24 hours, and every list of up to two tokens with distinct IDs   *)
(* (GenerateBootstrapToken draws a fresh ID for each).                    *)
(***************************************************************************)
EXTENDS BootstrapToken

CONSTANTS t1, t2, NilTTL

MCTokenIDs == {t1, t2}

MCTokens == [id: MCTokenIDs, ttl: {NilTTL, 1, 24}]

MCTokenLists ==
    {<<>>} \cup {<<x>> : x \in MCTokens}
           \cup {<<x, y>> \in MCTokens \X MCTokens : x.id # y.id}

=============================================================================
