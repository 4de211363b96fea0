------------------------ MODULE BootstrapToken_proofs ------------------------
(***************************************************************************)
(* Proofs about CreateBootstrapTokensForCluster, for every token list and *)
(* every fault of the machine.                                            *)
(*                                                                         *)
(* NilMeansAllApplied is not inductive: it speaks only of the end of the  *)
(* loop.  TokenLoopInv says what holds at every iteration: the tokens     *)
(* before k all have their Secret, and nil is returned only after the     *)
(* last one.  A later kubectl apply replaces only the Secret of its own   *)
(* ID, so the Secrets of earlier tokens survive when the IDs of the list  *)
(* are distinct; with a repeated ID the later TTL wins, as it does in the *)
(* cluster, and the property is stated for lists with distinct IDs.      *)
(***************************************************************************)
EXTENDS BootstrapToken, TLAPS

\* No two tokens of the list have the same ID.
DistinctIDs(l) == \A a, b \in 1..Len(l) : a # b => l[a].id # l[b].id

\* The Secrets the cluster must hold for the first n tokens.
Applied(n) == \A j \in 1..n : [id |-> tokens[j].id, expiration |-> tokens[j].ttl] \in secrets

TokenLoopInv ==
    /\ TypeOK
    /\ k <= Len(tokens) + 1
    /\ Applied(k - 1)
    /\ result = "nil" => k = Len(tokens) + 1

LEMMA TypeInit == Init => TypeOK
<1> SUFFICES ASSUME Init PROVE TypeOK
  OBVIOUS
<1>1. dir \in BOOLEAN
  <2>1. CASE DirMayExist
    BY <2>1 DEF Init
  <2>2. CASE ~DirMayExist
    BY <2>2 DEF Init
  <2> QED
    BY <2>1, <2>2
<1> QED
  BY <1>1 DEF Init, TypeOK

LEMMA TypeStep == TypeOK /\ [Next]_vars => TypeOK'
<1> SUFFICES ASSUME TypeOK, [Next]_vars PROVE TypeOK'
  OBVIOUS
<1>1. tokens \in Seq(Token)
  BY TokenListsAssumption DEF TypeOK
<1>2. CASE DerefNilTTL
  BY <1>2 DEF DerefNilTTL, TypeOK
<1>3. CASE RunTokenCommand
  <2>1. k \in 1..Len(tokens)
    BY <1>3 DEF RunTokenCommand, TypeOK
  <2>2. PICK t \in Token : t = tokens[k]
    BY <1>1, <2>1
  <2>3. t.ttl \in Nat
    BY <1>3, <2>2 DEF RunTokenCommand, Token
  <2>4. Apply(secrets, t) \subseteq Secret
    BY <2>2, <2>3 DEF Apply, Secret, Token, TypeOK
  <2>5. dir' \in BOOLEAN /\ k' \in Nat \ {0} /\ secrets' \subseteq Secret
        /\ result' \in {"running", "nil", "err", "panic"}
    <3>1. CASE dir
      BY <1>3, <3>1 DEF RunTokenCommand, TypeOK
    <3>2. CASE ~dir /\ secrets' = Apply(secrets, tokens[k])
      <4>1. secrets' \subseteq Secret
        BY <3>2, <2>2, <2>4
      <4>2. k' \in Nat \ {0}
        BY <1>3, <3>2 DEF RunTokenCommand, TypeOK
      <4>3. dir' \in BOOLEAN /\ result' \in {"running", "nil", "err", "panic"}
        BY <1>3, <3>2 DEF RunTokenCommand, TypeOK
      <4> QED
        BY <4>1, <4>2, <4>3
    <3>3. CASE ~dir /\ secrets' # Apply(secrets, tokens[k])
      BY <1>3, <3>3 DEF RunTokenCommand, TypeOK
    <3> QED
      BY <3>1, <3>2, <3>3
  <2> QED
    BY <1>3, <2>5 DEF RunTokenCommand, TypeOK
<1>4. CASE TokensDone
  BY <1>4 DEF TokensDone, TypeOK
<1>5. CASE UNCHANGED vars
  BY <1>5 DEF vars, TypeOK
<1> QED
  BY <1>2, <1>3, <1>4, <1>5 DEF Next

\* Whatever the token list, a leftover /tmp/.eggo or a failing kubectl,
\* the loop's state stays well formed: every Secret it applied carries a
\* TTL, never the nil pointer that DerefNilTTL dereferences.
THEOREM TokenTypeCorrect == Spec => []TypeOK
BY TypeInit, TypeStep, PTL DEF Spec

LEMMA LoopInvInit == Init => TokenLoopInv
<1> SUFFICES ASSUME Init PROVE TokenLoopInv
  OBVIOUS
<1>1. tokens \in Seq(Token)
  BY TokenListsAssumption DEF Init
<1>2. Len(tokens) \in Nat
  BY <1>1
<1>3. k <= Len(tokens) + 1 /\ Applied(k - 1) /\ result # "nil"
  BY <1>2 DEF Init, Applied
<1> QED
  BY <1>3, TypeInit DEF TokenLoopInv

\* A kubectl apply for token t keeps the Secret of every other ID.
LEMMA ApplyKeepsOthers ==
    ASSUME NEW s, NEW t, NEW x \in s, x.id # t.id
    PROVE  x \in Apply(s, t)
BY DEF Apply

LEMMA LoopInvStep ==
    ASSUME \A l \in TokenLists : DistinctIDs(l)
    PROVE  TokenLoopInv /\ [Next]_vars => TokenLoopInv'
<1> SUFFICES ASSUME TokenLoopInv, [Next]_vars PROVE TokenLoopInv'
  OBVIOUS
<1>1. /\ tokens \in Seq(Token)
      /\ k \in Nat \ {0}
      /\ DistinctIDs(tokens)
  BY TokenListsAssumption DEF TokenLoopInv, TypeOK
<1>2. TypeOK'
  BY TypeStep DEF TokenLoopInv
<1>3. CASE DerefNilTTL
  BY <1>2, <1>3 DEF DerefNilTTL, TokenLoopInv, Applied
<1>4. CASE RunTokenCommand
  <2>1. CASE dir
    BY <1>2, <1>4, <2>1 DEF RunTokenCommand, TokenLoopInv, Applied
  <2>2. CASE ~dir /\ result' = "err"
    BY <1>2, <1>4, <2>2 DEF RunTokenCommand, TokenLoopInv, Applied
  <2>3. CASE ~dir /\ result' # "err"
    <3>1. /\ secrets' = Apply(secrets, tokens[k])
          /\ k' = k + 1
          /\ result' = "running"
          /\ tokens' = tokens
          /\ k \in 1..Len(tokens)
      BY <1>1, <1>4, <2>3 DEF RunTokenCommand
    <3>2. ASSUME NEW j \in 1..k
          PROVE  [id |-> tokens[j].id, expiration |-> tokens[j].ttl] \in secrets'
      <4>1. CASE j = k
        BY <3>1, <4>1 DEF Apply
      <4>2. CASE j # k
        <5>1. [id |-> tokens[j].id, expiration |-> tokens[j].ttl] \in secrets
          BY <4>2, <1>1 DEF TokenLoopInv, Applied
        <5>2. tokens[j].id # tokens[k].id
          BY <4>2, <3>1, <1>1 DEF DistinctIDs
        <5> QED
          BY <5>1, <5>2, <3>1, ApplyKeepsOthers
      <4> QED
        BY <4>1, <4>2
    <3> QED
      BY <1>1, <1>2, <3>1, <3>2 DEF TokenLoopInv, Applied
  <2> QED
    BY <2>1, <2>2, <2>3
<1>5. CASE TokensDone
  BY <1>1, <1>2, <1>5 DEF TokensDone, TokenLoopInv, Applied
<1>6. CASE UNCHANGED vars
  BY <1>6 DEF vars, TokenLoopInv, Applied, TypeOK
<1> QED
  BY <1>3, <1>4, <1>5, <1>6 DEF Next

\* CreateBootstrapTokensForCluster returns nil only when every token of
\* the config has its Secret in the cluster with its TTL, whatever the
\* leftover /tmp/.eggo and kubectl failures: an error of any one command
\* is returned, never lost.  For token lists whose IDs are distinct (with
\* a repeated ID, kubectl apply keeps the later TTL).
THEOREM NilMeansAllTokensApplied ==
    ASSUME \A l \in TokenLists : DistinctIDs(l)
    PROVE  Spec => []NilMeansAllApplied
<1>1. TokenLoopInv => NilMeansAllApplied
  BY DEF TokenLoopInv, NilMeansAllApplied, Applied
<1> QED
  BY LoopInvInit, LoopInvStep, <1>1, PTL DEF Spec

=============================================================================
