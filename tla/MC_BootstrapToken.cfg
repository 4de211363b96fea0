\* Token creation with a leftover /tmp/.eggo and a failing kubectl.
CONSTANTS
    t1 = t1
    t2 = t2
    NilTTL = NilTTL
    Nil <- NilTTL
    TokenIDs <- MCTokenIDs
    TokenLists <- MCTokenLists
    DirMayExist = TRUE
    ApplyMayFail = TRUE
SPECIFICATION Spec
\* The function returns or panics: every final state is an end.
CHECK_DEADLOCK FALSE
INVARIANTS
    TypeOK
    NilMeansAllApplied
