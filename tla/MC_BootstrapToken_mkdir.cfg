\* Violation run: the second token fails on a clean machine (types.go:243).
CONSTANTS
    t1 = t1
    t2 = t2
    NilTTL = NilTTL
    Nil <- NilTTL
    TokenIDs <- MCTokenIDs
    TokenLists <- MCTokenLists
    DirMayExist = FALSE
    ApplyMayFail = FALSE
SPECIFICATION Spec
CHECK_DEADLOCK FALSE
INVARIANT
    TokensCreatedOnCleanMachine
