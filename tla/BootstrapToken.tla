----------------------------- MODULE BootstrapToken -----------------------------
(***************************************************************************)
(* Bootstrap token creation (src/pkg/clusterdeployment/types.go,          *)
(* package commontools): CreateBootstrapTokensForCluster walks the        *)
(* cluster's tokens and CreateBootstrapToken applies each one on the      *)
(* control-plane machine through one runner.  For a token it reads the    *)
(* TTL, renders the Secret manifest and runs                              *)
(*     mkdir /tmp/.eggo && echo <manifest> | base64 -d >                  *)
(*         /tmp/.eggo/bootstrap_token.yaml && kubectl apply -f ...        *)
(* on the machine.  The loop returns at the first error.                  *)
(*                                                                         *)
(* The state is the loop, whether /tmp/.eggo exists on the machine, and   *)
(* the bootstrap-token Secrets in the cluster, each with its expiration   *)
(* counted in hours from now.  A token is its ID and its TTL (nil or a    *)
(* number of hours).  Rendering a fixed template with string data does    *)
(* not fail and is left out.                                              *)
(***************************************************************************)
EXTENDS Integers, Sequences

CONSTANTS
    TokenIDs,     \* token IDs
    TokenLists,   \* the lists ccfg.BootStrapTokens may hold
    Nil,          \* a nil TTL pointer
    DirMayExist,  \* /tmp/.eggo may be left on the machine by an earlier run
    ApplyMayFail  \* kubectl apply may fail (API server down, bad credentials)

ASSUME BootstrapTokenAssumption ==
    /\ Nil \notin Nat
    /\ DirMayExist \in BOOLEAN
    /\ ApplyMayFail \in BOOLEAN

Token == [id: TokenIDs, ttl: Nat \cup {Nil}]

\* ccfg.BootStrapTokens is a []*BootstrapTokenConfig.
ASSUME TokenListsAssumption == TokenLists \subseteq Seq(Token)

Secret == [id: TokenIDs, expiration: Nat]

VARIABLES
    tokens,   \* ccfg.BootStrapTokens
    k,        \* index of the token being created, 1-based
    dir,      \* /tmp/.eggo exists on the machine
    secrets,  \* the bootstrap-token Secrets in the cluster
    result    \* "running", or what CreateBootstrapTokensForCluster returned

vars == <<tokens, k, dir, secrets, result>>

TypeOK ==
    /\ tokens \in TokenLists
    /\ k \in Nat \ {0}
    /\ dir \in BOOLEAN
    /\ secrets \subseteq Secret
    /\ result \in {"running", "nil", "err", "panic"}

Init ==
    /\ tokens \in TokenLists
    /\ k = 1
    /\ dir \in IF DirMayExist THEN BOOLEAN ELSE {FALSE}
    /\ secrets = {}
    /\ result = "running"

\* "ttl := *bconf.TTL" runs before the nil check: a token without a TTL
\* dereferences a nil pointer and the program panics.
DerefNilTTL ==
    /\ result = "running"
    /\ k <= Len(tokens)
    /\ tokens[k].ttl = Nil
    /\ result' = "panic"
    /\ UNCHANGED <<tokens, k, dir, secrets>>

\* kubectl apply creates the Secret bootstrap-token-<id>, or replaces it.
Apply(s, t) ==
    {x \in s : x.id # t.id} \cup {[id |-> t.id, expiration |-> t.ttl]}

\* Mutant: the command runs for a token whatever its TTL.
RunTokenCommandNoTTLGuard ==
    /\ result = "running"
    /\ k <= Len(tokens)
    /\ ~dir
    /\ dir' = TRUE
    /\ secrets' = Apply(secrets, tokens[k])
    /\ k' = k + 1
    /\ UNCHANGED <<tokens, result>>

\* Mutant: the loop logs a failed command and goes on to the next token.
RunTokenCommandErrContinues ==
    /\ result = "running"
    /\ k <= Len(tokens)
    /\ tokens[k].ttl # Nil
    /\ \/ /\ dir
          /\ UNCHANGED <<dir, secrets>>
       \/ /\ ~dir
          /\ dir' = TRUE
          /\ secrets' = Apply(secrets, tokens[k])
    /\ k' = k + 1
    /\ UNCHANGED <<tokens, result>>

\* r.RunCommand of the mkdir && write && kubectl apply command for token k.
\* mkdir fails when /tmp/.eggo exists, and && stops the command there;
\* otherwise the directory stays and kubectl apply succeeds or fails.  An
\* error is returned by CreateBootstrapToken and by the loop.
RunTokenCommand ==
    /\ result = "running"
    /\ k <= Len(tokens)
    /\ tokens[k].ttl # Nil
    /\ \/ /\ dir
          /\ result' = "err"
          /\ UNCHANGED <<dir, secrets, k>>
       \/ /\ ~dir
          /\ dir' = TRUE
          /\ secrets' = Apply(secrets, tokens[k])
          /\ k' = k + 1
          /\ UNCHANGED result
       \/ /\ ~dir
          /\ ApplyMayFail
          /\ dir' = TRUE
          /\ result' = "err"
          /\ UNCHANGED <<secrets, k>>
    /\ UNCHANGED tokens

\* Every token was created: CreateBootstrapTokensForCluster returns nil.
TokensDone ==
    /\ result = "running"
    /\ k > Len(tokens)
    /\ result' = "nil"
    /\ UNCHANGED <<tokens, k, dir, secrets>>

Next == DerefNilTTL \/ RunTokenCommand \/ TokensDone

\* The function returns (or panics) and nothing runs after it.
Spec == Init /\ [][Next]_vars

-----------------------------------------------------------------------------
(* Properties *)

\* When CreateBootstrapTokensForCluster returns nil, the cluster has a
\* Secret for every token of the config, expiring after the token's TTL;
\* an error of any one command must not be lost on the way out.
NilMeansAllApplied ==
    result = "nil" =>
        \A j \in 1..Len(tokens) :
            [id |-> tokens[j].id, expiration |-> tokens[j].ttl] \in secrets

\* On a machine without a leftover /tmp/.eggo and with a working kubectl,
\* creating the cluster's tokens succeeds.
TokensCreatedOnCleanMachine == result # "err"

=============================================================================
