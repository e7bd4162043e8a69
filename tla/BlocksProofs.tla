---------------------------- MODULE BlocksProofs ----------------------------
(***************************************************************************)
(* That the burial depth a settlement is granted by is never too large,    *)
(* for every chain, every settlement and every file; that it is exact for  *)
(* an honest file; and that no real file costs a host its enclave.         *)
(***************************************************************************)
EXTENDS Blocks, LoopsProofs

(***************************************************************************)
(* The inductive invariant.  Between two blocks the count is the number of *)
(* blocks on top of the settlement's; inside a block it is one behind,     *)
(* because the block's header is already accepted; and as long as the      *)
(* settlement has not been found there is nothing to count.                *)
(***************************************************************************)
Reading == pc \in {"count", "transactions"}

CountBehind ==
    /\ Reading => call = "settle" /\ accepted # <<>>
    /\ call = "settle" =>
         /\ ~ found => count = 0
         /\ count > 0 => Buried(count)
         /\ found /\ pc = "header" => Buried(count)
         /\ found /\ Reading => Buried(count + 1)

BlocksInv == BlocksTypeOK /\ Chained /\ CountBehind

(***************************************************************************)
(* A depth stays reached when a block is put on top, and is one more then. *)
(***************************************************************************)
LEMMA OneMoreOnTop ==
    ASSUME BlocksTypeOK, NEW b \in AllBlocks, accepted' = Append(accepted, b),
           NEW depth \in Nat, Buried(depth)
    PROVE  Buried(depth)' /\ Buried(depth + 1)'
<1>1. PICK i \in DOMAIN accepted :
          Holds(Body[accepted[i]]) /\ i + depth <= Len(accepted)
  BY DEF Buried
<1>2. /\ i \in 1..Len(accepted) /\ i \in DOMAIN accepted'
      /\ accepted'[i] = accepted[i]
      /\ Len(accepted') = Len(accepted) + 1
  BY DEF BlocksTypeOK
<1>3. /\ Holds(Body[accepted'[i]])
      /\ i + depth <= Len(accepted')
      /\ i + (depth + 1) <= Len(accepted')
  BY <1>1, <1>2 DEF BlocksTypeOK
<1>4. QED
  BY <1>2, <1>3 DEF Buried, Holds

(***************************************************************************)
(* A new header extends the chain.                                         *)
(***************************************************************************)
LEMMA ChainGrows ==
    ASSUME BlocksTypeOK, Chained, NEW b \in AllBlocks, VerifyBlockHeader(b),
           accepted' = Append(accepted, b)
    PROVE  Chained'
<1> SUFFICES ASSUME NEW i \in DOMAIN accepted'
             PROVE  /\ accepted'[i] \in Work
                    /\ Prev[accepted'[i]] = IF i = 1 THEN Checkpoint ELSE accepted'[i - 1]
  BY DEF Chained
<1>1. CASE i \in DOMAIN accepted
  BY <1>1 DEF BlocksTypeOK, Chained
<1>2. CASE i \notin DOMAIN accepted
  <2>1. i = Len(accepted) + 1 /\ accepted'[i] = b
    BY <1>2 DEF BlocksTypeOK
  <2>2. accepted = <<>> <=> i = 1
    BY <2>1 DEF BlocksTypeOK
  <2>3. accepted # <<>> => accepted'[i - 1] = accepted[Len(accepted)]
    BY <2>1, <2>2 DEF BlocksTypeOK
  <2>4. QED
    BY <2>1, <2>2, <2>3 DEF VerifyBlockHeader, PreviousBlock
<1>3. QED
  BY <1>1, <1>2

THEOREM BlocksInvariant == BlocksSpec => []BlocksInv
<1>1. BlocksInit => BlocksInv
  <2> SUFFICES ASSUME BlocksInit PROVE BlocksInv
    OBVIOUS
  <2>1. BlocksTypeOK
    <3>1. accepted \in Seq(AllBlocks) /\ lists \in Seq(Lists)
      BY DEF BlocksInit
    <3>2. Len(accepted) = 0 /\ count \in 0..Len(accepted)
      BY DEF BlocksInit
    <3>3. QED
      BY <3>1, <3>2 DEF BlocksInit, BlocksTypeOK
  <2>2. Chained
    BY DEF BlocksInit, Chained
  <2>3. CountBehind
    BY DEF BlocksInit, CountBehind, Reading
  <2>4. QED
    BY <2>1, <2>2, <2>3 DEF BlocksInv
<1>2. BlocksInv /\ [BlocksNext]_blockVars => BlocksInv'
  <2> SUFFICES ASSUME BlocksInv, [BlocksNext]_blockVars PROVE BlocksInv'
    OBVIOUS
  <2> USE DEF BlocksInv
  <2>1. ASSUME pc' \in {"ended", "inconsistent", "died"},
               UNCHANGED <<call, accepted, announced, lists, found, count>>
        PROVE  BlocksInv'
    <3>1. BlocksTypeOK' /\ Chained'
      BY <2>1 DEF BlocksTypeOK, Chained
    <3>2. count > 0 => (Buried(count) <=> Buried(count)')
      BY <2>1 DEF Buried
    <3>3. CountBehind'
      BY <2>1, <3>2 DEF CountBehind, Reading
    <3>4. QED
      BY <3>1, <3>3
  <2>2. CASE EndOfFile
    BY <2>2, <2>1 DEF EndOfFile, Break
  <2>3. ASSUME NEW b \in AllBlocks, ReadHeader(b)
        PROVE  BlocksInv'
    <3>1. BlocksTypeOK'
      BY <2>3 DEF ReadHeader, BlocksTypeOK
    <3>2. Chained'
      BY <2>3, ChainGrows DEF ReadHeader
    <3>3. call = "settle" /\ found => Buried(count)' /\ Buried(count + 1)'
      <4> SUFFICES ASSUME call = "settle", found PROVE Buried(count)' /\ Buried(count + 1)'
        OBVIOUS
      <4>1. Buried(count) /\ count' = count /\ count \in Nat
        BY <2>3 DEF ReadHeader, CountBehind, BlocksTypeOK
      <4>2. QED
        BY <4>1, <2>3, OneMoreOnTop DEF ReadHeader, Buried
    <3>4. CountBehind'
      BY <2>3, <3>3 DEF ReadHeader, CountBehind, Reading, BlocksTypeOK
    <3>5. QED
      BY <3>1, <3>2, <3>4
  <2>4. ASSUME NEW b \in AllBlocks \cup {NoBlock}, RejectHeader(b)
        PROVE  BlocksInv'
    BY <2>4, <2>1 DEF RejectHeader, Break
  <2>5. ASSUME NEW n \in Counts, ReadCount(n)
        PROVE  BlocksInv'
    <3>1. BlocksTypeOK' /\ Chained'
      BY <2>5, ChainAssumption DEF ReadCount, BlocksTypeOK, Chained
    <3>2. /\ Buried(count) <=> Buried(count)'
          /\ Buried(count + 1) <=> Buried(count + 1)'
      BY <2>5 DEF ReadCount, Buried
    <3>3. CountBehind'
      BY <2>5, <3>2 DEF ReadCount, CountBehind, Reading
    <3>4. QED
      BY <3>1, <3>3
  <2>6. ASSUME NEW list \in Lists, ReadTransactions(list)
        PROVE  BlocksInv'
    <3>1. /\ call = "settle" /\ call' = call
          /\ accepted' = accepted /\ accepted # <<>>
          /\ Len(accepted) \in DOMAIN accepted
      BY <2>6 DEF ReadTransactions, CountBehind, Reading, BlocksTypeOK
    <3>2. found => count' = count + 1 /\ Buried(count + 1)
      BY <2>6 DEF ReadTransactions, CountAfterFound, CountBehind, Reading
    <3>3. ~ found => count' = 0
      BY <2>6, <3>1 DEF ReadTransactions, CountAfterFound, CountBehind
    <3>4. ASSUME ~ found, found', pc' = "header"
          PROVE  Buried(0)
      <4>1. Holds(list) /\ list # <<>>
            /\ MerkleRoot(list) = Root[accepted[Len(accepted)]]
        BY <2>6, <3>4 DEF ReadTransactions, ConsistentWithHeader
      <4>2. accepted[Len(accepted)] \in AllBlocks
        BY <3>1 DEF BlocksTypeOK
      <4>3. Holds(Body[accepted[Len(accepted)]])
        BY <4>1, <4>2, MerkleAssumption
      <4>4. QED
        BY <4>3, <3>1 DEF Buried, BlocksTypeOK
    <3>5. BlocksTypeOK'
      <4>1. count' \in 0..Len(accepted')
        BY <3>1, <3>2, <3>3 DEF Buried, BlocksTypeOK
      <4>2. QED
        BY <2>6, <4>1 DEF ReadTransactions, BlocksTypeOK
    <3>6. Chained'
      BY <3>1 DEF Chained
    <3>7. CountBehind'
      <4>1. \A depth : Buried(depth)' <=> Buried(depth)
        BY <3>1 DEF Buried
      <4>2. found' => (pc' = "header" => Buried(count)')
        BY <2>6, <3>2, <3>3, <3>4 DEF ReadTransactions, Buried
      <4>3. count' > 0 => Buried(count)'
        BY <3>1, <3>2, <3>3 DEF Buried
      <4>4. ~ found' => count' = 0
        BY <2>6, <3>3 DEF ReadTransactions
      <4>5. pc' \in {"header", "ended", "inconsistent", "died"}
        BY <2>6 DEF ReadTransactions
      <4>6. QED
        BY <4>2, <4>3, <4>4, <4>5 DEF CountBehind, Reading
    <3>8. QED
      BY <3>5, <3>6, <3>7
  <2>7. CASE UNCHANGED blockVars
    <3>1. BlocksTypeOK' /\ Chained'
      BY <2>7 DEF blockVars, BlocksTypeOK, Chained
    <3>2. CountBehind'
      BY <2>7 DEF blockVars, CountBehind, Reading, Buried
    <3>3. QED
      BY <3>1, <3>2
  <2>8. QED
    BY <2>2, <2>3, <2>4, <2>5, <2>6, <2>7 DEF BlocksNext
<1>3. QED
  BY <1>1, <1>2, PTL DEF BlocksSpec

(***************************************************************************)
(* Whatever the file holds, the depth found for the settlement is that of  *)
(* a block with the settlement in a chain with work from the checkpoint.   *)
(***************************************************************************)
THEOREM DepthIsReal == BlocksSpec => []NeverOvercounts
<1>1. BlocksInv => NeverOvercounts
  BY DEF BlocksInv, CountBehind, NeverOvercounts
<1>2. QED
  BY <1>1, BlocksInvariant, PTL

(***************************************************************************)
(* Every variable of the block reader keeps its type; in particular the    *)
(* count is never more than the number of headers that verified.           *)
(***************************************************************************)
THEOREM BlocksTypeCorrect == BlocksSpec => []BlocksTypeOK
<1>1. BlocksInv => BlocksTypeOK
  BY DEF BlocksInv
<1>2. QED
  BY <1>1, BlocksInvariant, PTL

-----------------------------------------------------------------------------
(***************************************************************************)
(* Recursive functions over an interval exist: the layers of the loop, the *)
(* trees and their sizes.                                                  *)
(***************************************************************************)
LEMMA LeavesDouble ==
    ASSUME NEW n \in Nat
    PROVE  /\ Leaves(n)[0] = 1
           /\ \A h \in 1..n : Leaves(n)[h] = 2 * Leaves(n)[h - 1]
<1> DEFINE Is(s, m) == s = [h \in 0..m |-> IF h = 0 THEN 1 ELSE 2 * s[h - 1]]
           S == {m \in Nat : \E s : Is(s, m)}
<1>1. 0 \in S
  <2>1. Is([h \in 0..0 |-> 1], 0)
    OBVIOUS
  <2> QED  BY <2>1
<1>2. ASSUME NEW m \in Nat, m \in S
      PROVE  m + 1 \in S
  <2>1. PICK s : Is(s, m)
    BY <1>2
  <2>2. PICK f : f = [h \in 0..m |-> IF h = 0 THEN 1 ELSE 2 * s[h - 1]]
    OBVIOUS
  <2>3. \A h \in 0..m : s[h] = IF h = 0 THEN 1 ELSE 2 * s[h - 1]
    BY <2>1, <2>2
  <2>4. PICK t : t = [h \in 0..(m + 1) |-> IF h = m + 1 THEN 2 * s[m] ELSE s[h]]
    OBVIOUS
  <2>5. \A h \in 0..(m + 1) : t[h] = IF h = 0 THEN 1 ELSE 2 * t[h - 1]
    <3>1. SUFFICES ASSUME NEW h \in 0..(m + 1) PROVE t[h] = IF h = 0 THEN 1 ELSE 2 * t[h - 1]
      OBVIOUS
    <3>2. CASE h = m + 1
      <4>1. h # 0 /\ h - 1 = m /\ m \in 0..(m + 1) /\ m # m + 1
        BY <3>2
      <4> QED  BY <2>4, <3>2, <4>1
    <3>3. CASE h \in 0..m
      <4>1. h # m + 1 /\ (h # 0 => h - 1 \in 0..(m + 1) /\ h - 1 # m + 1)
        BY <3>3
      <4> QED  BY <2>3, <2>4, <3>3, <4>1
    <3> QED  BY <3>2, <3>3
  <2>6. Is(t, m + 1)
    BY <2>4, <2>5
  <2> HIDE DEF Is
  <2> QED  BY <2>6
<1>3. Nat \subseteq S
  <2> HIDE DEF S
  <2> QED  BY <1>1, <1>2, Induct
<1>4. PICK s : Is(s, n)
  BY <1>3
<1> DEFINE leaves == CHOOSE t : Is(t, n)
<1>5. Is(leaves, n)
  <2> HIDE DEF Is
  <2> QED  BY <1>4
<1>6. Leaves(n) = leaves
  BY DEF Leaves
<1> HIDE DEF leaves
<1>7. PICK f : f = [h \in 0..n |-> IF h = 0 THEN 1 ELSE 2 * leaves[h - 1]]
  OBVIOUS
<1>8. \A h \in 0..n : f[h] = IF h = 0 THEN 1 ELSE 2 * leaves[h - 1]
  BY <1>7
<1>9. leaves = f
  BY <1>5, <1>7
<1>10. 0 \in 0..n /\ \A h \in 1..n : h \in 0..n /\ h # 0
  OBVIOUS
<1> QED  BY <1>6, <1>8, <1>9, <1>10

LEMMA LeavesGrow ==
    ASSUME NEW n \in Nat
    PROVE  /\ \A h \in 0..n : Leaves(n)[h] \in Nat /\ Leaves(n)[h] > h
           /\ \A h \in 1..n : Leaves(n)[h] = 2 * Leaves(n)[h - 1]
<1>1. PICK w : w = Leaves(n)
  OBVIOUS
<1>2. w[0] = 1 /\ \A h \in 1..n : w[h] = 2 * w[h - 1]
  BY <1>1, LeavesDouble
<1> DEFINE S == {h \in Nat : h <= n => w[h] \in Nat /\ w[h] > h}
<1>3. 0 \in S
  BY <1>2
<1>4. ASSUME NEW h \in Nat, h \in S
      PROVE  h + 1 \in S
  <2> SUFFICES ASSUME h + 1 <= n PROVE w[h + 1] \in Nat /\ w[h + 1] > h + 1
    OBVIOUS
  <2>1. h + 1 \in 1..n /\ (h + 1) - 1 = h /\ w[h] \in Nat /\ w[h] > h
    BY <1>4
  <2>2. w[h + 1] = 2 * w[h]
    BY <1>2, <2>1
  <2> QED  BY <2>1, <2>2
<1>5. Nat \subseteq S
  <2> HIDE DEF S
  <2> QED  BY <1>3, <1>4, Induct
<1>6. \A h \in 0..n : w[h] \in Nat /\ w[h] > h
  BY <1>5
<1> QED  BY <1>1, <1>2, <1>6

LEMMA LayersRecursion ==
    ASSUME NEW list, Len(list) \in Nat
    PROVE  /\ Layers(list)[0] = list
           /\ \A h \in 1..Len(list) : Layers(list)[h] = NextLayer(Layers(list)[h - 1])
<1> DEFINE Is(s, m) == s = [h \in 0..m |-> IF h = 0 THEN list ELSE NextLayer(s[h - 1])]
           S == {m \in Nat : \E s : Is(s, m)}
<1>0. PICK n \in Nat : n = Len(list)
  OBVIOUS
<1>1. 0 \in S
  <2>1. Is([h \in 0..0 |-> list], 0)
    OBVIOUS
  <2> QED  BY <2>1
<1>2. ASSUME NEW m \in Nat, m \in S
      PROVE  m + 1 \in S
  <2>1. PICK s : Is(s, m)
    BY <1>2
  <2>2. PICK f : f = [h \in 0..m |-> IF h = 0 THEN list ELSE NextLayer(s[h - 1])]
    OBVIOUS
  <2>3. \A h \in 0..m : s[h] = IF h = 0 THEN list ELSE NextLayer(s[h - 1])
    BY <2>1, <2>2
  <2>4. PICK t : t = [h \in 0..(m + 1) |-> IF h = m + 1 THEN NextLayer(s[m]) ELSE s[h]]
    OBVIOUS
  <2>5. \A h \in 0..(m + 1) : t[h] = IF h = 0 THEN list ELSE NextLayer(t[h - 1])
    <3>1. SUFFICES ASSUME NEW h \in 0..(m + 1) PROVE t[h] = IF h = 0 THEN list ELSE NextLayer(t[h - 1])
      OBVIOUS
    <3>2. CASE h = m + 1
      <4>1. h # 0 /\ h - 1 = m /\ m \in 0..(m + 1) /\ m # m + 1
        BY <3>2
      <4> QED  BY <2>4, <3>2, <4>1
    <3>3. CASE h \in 0..m
      <4>1. h # m + 1 /\ (h # 0 => h - 1 \in 0..(m + 1) /\ h - 1 # m + 1)
        BY <3>3
      <4> QED  BY <2>3, <2>4, <3>3, <4>1
    <3> QED  BY <3>2, <3>3
  <2>6. Is(t, m + 1)
    BY <2>4, <2>5
  <2> HIDE DEF Is
  <2> QED  BY <2>6
<1>3. Nat \subseteq S
  <2> HIDE DEF S
  <2> QED  BY <1>1, <1>2, Induct
<1>4. PICK s : Is(s, n)
  BY <1>3
<1> DEFINE layers == CHOOSE t : Is(t, n)
<1>5. Is(layers, n)
  <2> HIDE DEF Is
  <2> QED  BY <1>4
<1>6. Layers(list) = layers
  BY <1>0 DEF Layers
<1> HIDE DEF layers
<1>7. PICK f : f = [h \in 0..n |-> IF h = 0 THEN list ELSE NextLayer(layers[h - 1])]
  OBVIOUS
<1>8. \A h \in 0..n : f[h] = IF h = 0 THEN list ELSE NextLayer(layers[h - 1])
  BY <1>7
<1>9. layers = f
  BY <1>5, <1>7
<1>10. 0 \in 0..n /\ \A h \in 1..n : h \in 0..n /\ h # 0
  OBVIOUS
<1> QED  BY <1>0, <1>6, <1>8, <1>9, <1>10

\* A tree one level higher.
Halves(lower, n, half) ==
    [at \in 1..n |-> <<lower[at], lower[IF at + half <= n THEN at + half ELSE at]>>]

LEMMA TreeRecursion ==
    ASSUME NEW list, Len(list) \in Nat
    PROVE  /\ ConsensusTree(list)[0] = list
           /\ \A h \in 1..Len(list) :
                  ConsensusTree(list)[h]
                  = Halves(ConsensusTree(list)[h - 1], Len(list), Leaves(Len(list))[h - 1])
<1>0. PICK n \in Nat : n = Len(list)
  OBVIOUS
<1>1. PICK w : w = Leaves(n)
  OBVIOUS
<1> DEFINE Is(s, m) == s = [h \in 0..m |-> IF h = 0 THEN list ELSE Halves(s[h - 1], n, w[h - 1])]
           S == {m \in Nat : \E s : Is(s, m)}
<1>2. 0 \in S
  <2>1. Is([h \in 0..0 |-> list], 0)
    OBVIOUS
  <2> QED  BY <2>1
<1>3. ASSUME NEW m \in Nat, m \in S
      PROVE  m + 1 \in S
  <2>1. PICK s : Is(s, m)
    BY <1>3
  <2>2. PICK f : f = [h \in 0..m |-> IF h = 0 THEN list ELSE Halves(s[h - 1], n, w[h - 1])]
    OBVIOUS
  <2>3. \A h \in 0..m : s[h] = IF h = 0 THEN list ELSE Halves(s[h - 1], n, w[h - 1])
    BY <2>1, <2>2
  <2>4. PICK t : t = [h \in 0..(m + 1) |-> IF h = m + 1 THEN Halves(s[m], n, w[m]) ELSE s[h]]
    OBVIOUS
  <2>5. \A h \in 0..(m + 1) : t[h] = IF h = 0 THEN list ELSE Halves(t[h - 1], n, w[h - 1])
    <3>1. SUFFICES ASSUME NEW h \in 0..(m + 1)
                   PROVE  t[h] = IF h = 0 THEN list ELSE Halves(t[h - 1], n, w[h - 1])
      OBVIOUS
    <3>2. CASE h = m + 1
      <4>1. h # 0 /\ h - 1 = m /\ m \in 0..(m + 1) /\ m # m + 1
        BY <3>2
      <4> QED  BY <2>4, <3>2, <4>1
    <3>3. CASE h \in 0..m
      <4>1. h # m + 1 /\ (h # 0 => h - 1 \in 0..(m + 1) /\ h - 1 # m + 1)
        BY <3>3
      <4> QED  BY <2>3, <2>4, <3>3, <4>1
    <3> QED  BY <3>2, <3>3
  <2>6. Is(t, m + 1)
    BY <2>4, <2>5
  <2> HIDE DEF Is
  <2> QED  BY <2>6
<1>4. Nat \subseteq S
  <2> HIDE DEF S
  <2> QED  BY <1>2, <1>3, Induct
<1>5. PICK s : Is(s, n)
  BY <1>4
<1> DEFINE tree == CHOOSE t : Is(t, n)
<1>6. Is(tree, n)
  <2> HIDE DEF Is
  <2> QED  BY <1>5
<1>7. ConsensusTree(list) = tree
  BY <1>0, <1>1 DEF ConsensusTree, Halves
<1> HIDE DEF tree
<1>8. PICK f : f = [h \in 0..n |-> IF h = 0 THEN list ELSE Halves(tree[h - 1], n, w[h - 1])]
  OBVIOUS
<1>9. \A h \in 0..n : f[h] = IF h = 0 THEN list ELSE Halves(tree[h - 1], n, w[h - 1])
  BY <1>8
<1>10. tree = f
  BY <1>6, <1>8
<1>11. 0 \in 0..n /\ \A h \in 1..n : h \in 0..n /\ h # 0
  OBVIOUS
<1> QED  BY <1>0, <1>1, <1>7, <1>9, <1>10, <1>11

-----------------------------------------------------------------------------
(***************************************************************************)
(* A layer that is not the last one holds the trees of its level that      *)
(* start at every w-th transaction, as many as it takes to cover them all. *)
(***************************************************************************)
Row(list, h, m) ==
    LET n == Len(list)
        w == Leaves(n)
    IN  /\ Len(Layers(list)[h]) = m
        /\ (m - 1) * w[h] < n /\ n <= m * w[h]
        /\ \A lower \in 0..(h - 1) : w[lower] < n
        /\ \A i \in 1..m : Layers(list)[h][i] = ConsensusTree(list)[h][1 + (i - 1) * w[h]]

Finished(list, h) ==
    Len(Layers(list)[h]) = 1 /\ Layers(list)[h][1] = ConsensusRoot(list)

LEMMA TimesGrows ==
    ASSUME NEW a \in Nat, NEW b \in Nat, NEW n \in Nat, a <= b
    PROVE  a * n <= b * n /\ a * n \in Nat /\ b * n \in Nat
<1>1. PICK d \in Nat : b = a + d
  <2>1. b - a \in Nat /\ b = a + (b - a)
    OBVIOUS
  <2> QED  BY <2>1
<1>2. a * n \in Nat /\ d * n \in Nat
  OBVIOUS
<1>3. (a + d) * n = a * n + d * n
  OBVIOUS
<1> QED  BY <1>1, <1>2, <1>3

LEMMA RowFinished ==
    ASSUME NEW list, NEW n \in Nat, n = Len(list), NEW h \in 0..n, Row(list, h, 1)
    PROVE  Finished(list, h)
<1>1. PICK w : w = Leaves(n)
  OBVIOUS
<1>2. \A k \in 0..n : w[k] \in Nat
  BY <1>1, LeavesGrow
<1>3. /\ Len(Layers(list)[h]) = 1
      /\ n <= 1 * w[h]
      /\ \A lower \in 0..(h - 1) : w[lower] < n
      /\ \A i \in 1..1 : Layers(list)[h][i] = ConsensusTree(list)[h][1 + (i - 1) * w[h]]
  BY <1>1 DEF Row
<1>4. n <= w[h] /\ 1 \in 1..1 /\ 1 + (1 - 1) * w[h] = 1
  BY <1>2, <1>3
<1>5. ASSUME NEW k \in 0..n, n <= w[k], \A lower \in 0..(k - 1) : w[lower] < n
      PROVE  k = h
  <2>1. ~ (k < h)
    <3>1. k < h => k \in 0..(h - 1)
      OBVIOUS
    <3> QED  BY <3>1, <1>2, <1>3, <1>5
  <2>2. ~ (h < k)
    <3>1. h < k => h \in 0..(k - 1)
      OBVIOUS
    <3> QED  BY <3>1, <1>2, <1>4, <1>5
  <2> QED  BY <2>1, <2>2
<1>6. TreeHeight(n) = h
  <2> DEFINE Suffices(k) == n <= w[k] /\ \A lower \in 0..(k - 1) : w[lower] < n
  <2>1. Suffices(h) /\ \A k \in 0..n : Suffices(k) => k = h
    BY <1>3, <1>4, <1>5
  <2>2. TreeHeight(n) = CHOOSE k \in 0..n : Suffices(k)
    BY <1>1 DEF TreeHeight
  <2> HIDE DEF Suffices
  <2> QED  BY <2>1, <2>2
<1>7. Layers(list)[h][1] = ConsensusTree(list)[h][1]
  <2>1. Layers(list)[h][1] = ConsensusTree(list)[h][1 + (1 - 1) * w[h]]
    BY <1>3, <1>4
  <2> QED  BY <1>4, <2>1
<1> QED  BY <1>3, <1>6, <1>7 DEF Finished, ConsensusRoot

LEMMA RowShrinks ==
    ASSUME NEW list, NEW n \in Nat, n = Len(list), NEW h \in Nat, NEW g \in 1..n, g = h + 1,
           NEW m \in Nat, m > 1, Row(list, h, m),
           NEW k \in Nat, k = (m + 1) \div 2
    PROVE  Row(list, g, k)
<1>1. PICK w : w = Leaves(n)
  OBVIOUS
<1>2. h \in 0..n /\ g \in 0..n /\ g - 1 = h
  OBVIOUS
<1>3. w[h] \in Nat /\ w[h] > h /\ w[g] = 2 * w[h]
  BY <1>1, <1>2, LeavesGrow
<1>4. PICK v \in Nat : v = w[h]
  BY <1>3
<1>5. /\ Len(Layers(list)[h]) = m
      /\ (m - 1) * v < n /\ n <= m * v
      /\ \A lower \in 0..(h - 1) : w[lower] < n
      /\ \A i \in 1..m : Layers(list)[h][i] = ConsensusTree(list)[h][1 + (i - 1) * v]
  BY <1>1, <1>4 DEF Row
<1>6. 1 * v <= (m - 1) * v /\ 1 * v = v
  BY TimesGrows
<1>7. PICK lo \in Nat, hi \in Nat : lo = (m - 1) * v /\ hi = m * v
  OBVIOUS
<1>8. lo < n /\ n <= hi
  BY <1>5, <1>7
<1>9. \A lower \in 0..(g - 1) : w[lower] < n
  <2>1. w[h] < n
    BY <1>4, <1>6, <1>7, <1>8
  <2>2. \A lower \in 0..(g - 1) : lower = h \/ lower \in 0..(h - 1)
    BY <1>2
  <2> QED  BY <2>1, <2>2, <1>5
<1>10. /\ (k - 1) * (2 * v) = (2 * (k - 1)) * v
       /\ k * (2 * v) = (2 * k) * v
  OBVIOUS
<1>11. 2 * (k - 1) \in Nat /\ 2 * (k - 1) <= m - 1 /\ m <= 2 * k /\ 2 * k \in Nat /\ m - 1 \in Nat
  OBVIOUS
<1>12. (2 * (k - 1)) * v <= (m - 1) * v /\ m * v <= (2 * k) * v
  BY <1>11, TimesGrows
<1>13. (2 * (k - 1)) * v \in Nat /\ (2 * k) * v \in Nat
  BY <1>11
<1>14. (k - 1) * w[g] < n /\ n <= k * w[g]
  <2>1. PICK before \in Nat, all \in Nat : before = (2 * (k - 1)) * v /\ all = (2 * k) * v
    BY <1>13
  <2>2. before < n /\ n <= all
    BY <2>1, <1>7, <1>12, <1>8
  <2>3. w[g] = 2 * v
    BY <1>3, <1>4
  <2> QED  BY <2>1, <2>2, <2>3, <1>10
<1>15. PICK layer, next : /\ layer = Layers(list)[h] /\ next = Layers(list)[g]
                          /\ next = [i \in 1..k |-> Parent(layer, i)]
  <2>1. Layers(list)[g] = NextLayer(Layers(list)[h])
    BY <1>2, LayersRecursion
  <2>2. NextLayer(Layers(list)[h]) = [i \in 1..k |-> Parent(Layers(list)[h], i)]
    BY <1>5 DEF NextLayer
  <2> QED  BY <2>1, <2>2
<1>16. Len(next) = k
  BY <1>15
<1>17. ASSUME NEW i \in 1..k
       PROVE  next[i] = ConsensusTree(list)[g][1 + (i - 1) * w[g]]
  <2>1. PICK a \in Nat : a = 2 * i - 2
    OBVIOUS
  <2>2. a <= m - 1 /\ 2 * i - 1 = a + 1 /\ 2 * i = a + 2
    BY <2>1
  <2>3. a * v <= (m - 1) * v /\ a * v \in Nat
    BY <2>2, <1>11, TimesGrows
  <2>4. PICK at \in Nat : at = 1 + a * v
    BY <2>3
  <2>5. at \in 1..n /\ (i - 1) * w[g] = a * v /\ (a + 1) * v = a * v + v
    <3>1. (i - 1) * (2 * v) = (2 * i - 2) * v
      OBVIOUS
    <3>2. at \in 1..n
      <4>1. PICK av \in Nat : av = a * v
        BY <2>3
      <4>2. av <= lo /\ at = 1 + av
        BY <1>7, <2>3, <2>4, <4>1
      <4> QED  BY <1>8, <4>2
    <3>3. (a + 1) * v = a * v + v
      OBVIOUS
    <3> QED  BY <1>3, <1>4, <2>1, <3>1, <3>2, <3>3
  <2>6. at + v <= n <=> a + 2 <= m
    <3>1. CASE a + 2 <= m
      <4>1. (a + 1) * v <= (m - 1) * v
        BY <3>1, <1>11, TimesGrows
      <4>2. PICK av \in Nat : av = a * v
        BY <2>3
      <4>3. av + v <= lo /\ at = 1 + av
        BY <1>7, <2>4, <2>5, <4>1, <4>2
      <4> QED  BY <1>8, <3>1, <4>3
    <3>2. CASE ~ (a + 2 <= m)
      <4>1. a + 1 = m
        BY <2>2, <3>2
      <4>2. PICK av \in Nat : av = a * v
        BY <2>3
      <4>3. av + v = hi /\ at = 1 + av
        BY <1>7, <2>4, <2>5, <4>1, <4>2
      <4> QED  BY <1>8, <3>2, <4>3
    <3> QED  BY <3>1, <3>2
  <2>7. PICK tree : tree = ConsensusTree(list)[h]
    OBVIOUS
  <2>8. ConsensusTree(list)[g] = Halves(tree, n, v)
    BY <1>1, <1>2, <1>4, <2>7, TreeRecursion
  <2>9. ConsensusTree(list)[g][at] = <<tree[at], tree[IF at + v <= n THEN at + v ELSE at]>>
    BY <2>5, <2>8 DEF Halves
  <2>10. \A j \in 1..m : layer[j] = tree[1 + (j - 1) * v]
    BY <1>5, <1>15, <2>7
  <2>11. layer[a + 1] = tree[at]
    <3>1. PICK j \in 1..m : j = a + 1 /\ j - 1 = a
      BY <2>2
    <3> QED  BY <3>1, <2>4, <2>10
  <2>12. a + 2 <= m => layer[a + 2] = tree[at + v]
    <3>1. SUFFICES ASSUME a + 2 <= m PROVE layer[a + 2] = tree[at + v]
      OBVIOUS
    <3>2. PICK j \in 1..m : j = a + 2 /\ j - 1 = a + 1
      BY <3>1
    <3>3. 1 + (a + 1) * v = at + v
      <4>1. PICK av \in Nat : av = a * v
        BY <2>3
      <4> QED  BY <2>4, <2>5, <4>1
    <3>4. layer[j] = tree[1 + (j - 1) * v]
      BY <2>10
    <3> QED  BY <3>2, <3>3, <3>4
  <2>13. next[i] = <<layer[a + 1], layer[IF a + 2 <= m THEN a + 2 ELSE a + 1]>>
    <3>1. next[i] = Parent(layer, i)
      BY <1>15
    <3>2. Len(layer) = m
      BY <1>5, <1>15
    <3> QED  BY <2>2, <3>1, <3>2 DEF Parent, NodeHash
  <2>14. 1 + (i - 1) * w[g] = at
    BY <2>4, <2>5
  <2> QED  BY <2>6, <2>9, <2>11, <2>12, <2>13, <2>14
<1> QED  BY <1>1, <1>9, <1>14, <1>15, <1>16, <1>17 DEF Row

LEMMA FinishedStays ==
    ASSUME NEW list, NEW n \in Nat, n = Len(list), NEW h \in Nat, NEW g \in 1..n, g = h + 1,
           Finished(list, h)
    PROVE  Finished(list, g)
<1>1. Layers(list)[g] = NextLayer(Layers(list)[h])
  <2>1. g - 1 = h
    OBVIOUS
  <2> QED  BY <2>1, LayersRecursion
<1>2. Len(Layers(list)[h]) = 1
  BY DEF Finished
<1> QED  BY <1>1, <1>2 DEF Finished, NextLayer

(***************************************************************************)
(* The root that pairs up nodes layer by layer is the one of the consensus *)
(* rules, for every list (blocks.rs:94-109).                               *)
(***************************************************************************)
THEOREM MerkleIsConsensus ==
    ASSUME NEW list, NEW n \in Nat \ {0}, n = Len(list)
    PROVE  MerkleRoot(list) = ConsensusRoot(list)
<1> DEFINE S == {h \in Nat : h <= n => (\E m \in Nat \ {0} : Row(list, h, m)) \/ Finished(list, h)}
<1>1. 0 \in S
  <2>1. Leaves(n)[0] = 1 /\ Layers(list)[0] = list /\ ConsensusTree(list)[0] = list
    BY LeavesDouble, LayersRecursion, TreeRecursion
  <2>2. (n - 1) * 1 = n - 1 /\ n * 1 = n /\ \A i \in 1..n : 1 + (i - 1) * 1 = i
    OBVIOUS
  <2>3. Row(list, 0, n)
    BY <2>1, <2>2 DEF Row
  <2> QED  BY <2>3
<1>2. ASSUME NEW h \in Nat, h \in S
      PROVE  h + 1 \in S
  <2> SUFFICES ASSUME h + 1 <= n
               PROVE  (\E m \in Nat \ {0} : Row(list, h + 1, m)) \/ Finished(list, h + 1)
    OBVIOUS
  <2>1. PICK g \in 1..n : g = h + 1
    OBVIOUS
  <2>2. h \in 0..n /\ h <= n
    OBVIOUS
  <2>3. Finished(list, h) => Finished(list, g)
    BY <2>1, FinishedStays
  <2>4. ASSUME NEW m \in Nat \ {0}, Row(list, h, m)
        PROVE  Finished(list, g) \/ \E k \in Nat \ {0} : Row(list, g, k)
    <3>1. CASE m = 1
      BY <2>2, <2>3, <2>4, <3>1, RowFinished
    <3>2. CASE m > 1
      <4>1. PICK k \in Nat \ {0} : k = (m + 1) \div 2
        BY <3>2
      <4>2. Row(list, g, k)
        BY <2>1, <2>4, <3>2, <4>1, RowShrinks
      <4> QED  BY <4>2
    <3> QED  BY <3>1, <3>2
  <2>5. Finished(list, g) \/ \E k \in Nat \ {0} : Row(list, g, k)
    BY <1>2, <2>2, <2>3, <2>4
  <2> QED  BY <2>1, <2>5
<1>3. Nat \subseteq S
  <2> HIDE DEF S
  <2> QED  BY <1>1, <1>2, Induct
<1>4. CASE Finished(list, n)
  BY <1>4 DEF Finished, MerkleRoot
<1>5. CASE \E m \in Nat \ {0} : Row(list, n, m)
  <2>1. PICK m \in Nat \ {0} : Row(list, n, m)
    BY <1>5
  <2>2. PICK v \in Nat : v = Leaves(n)[n] /\ v > n
    BY LeavesGrow
  <2>3. (m - 1) * v < n
    BY <2>1, <2>2 DEF Row
  <2>4. m = 1
    <3>1. SUFFICES ASSUME m > 1 PROVE FALSE
      OBVIOUS
    <3>2. 1 * v <= (m - 1) * v /\ 1 * v = v /\ (m - 1) * v \in Nat
      BY <3>1, TimesGrows
    <3> QED  BY <2>2, <2>3, <3>2
  <2>5. n \in 0..n
    OBVIOUS
  <2>6. Finished(list, n)
    BY <2>1, <2>4, <2>5, RowFinished
  <2> QED  BY <2>6 DEF Finished, MerkleRoot
<1> QED  BY <1>3, <1>4, <1>5

-----------------------------------------------------------------------------
(***************************************************************************)
(* What ties the numbers to the file.  A refund counts headers.  For a     *)
(* settlement the lists keep up with the headers, the count is the number  *)
(* of lists after the first one with the settlement, and a call fails only *)
(* after a list that is not the block's own.  An enclave dies of a count   *)
(* that is too large or zero.                                              *)
(***************************************************************************)
FirstHolds(f) ==
    /\ f \in DOMAIN lists
    /\ Holds(lists[f])
    /\ \A earlier \in 1..(f - 1) : ~ Holds(lists[earlier])

Paced ==
    /\ call = "refund" => pc \in {"header", "ended"} /\ count = Len(accepted)
    /\ call = "settle" =>
         /\ Len(lists) \in {Len(accepted), Len(accepted) - 1}
         /\ pc = "header" => Len(lists) = Len(accepted)
         /\ Reading => Len(lists) = Len(accepted) - 1

Counted ==
    /\ ~ found => count = 0 /\ \A i \in DOMAIN lists : ~ Holds(lists[i])
    /\ found => \E f \in 1..Len(lists) : FirstHolds(f) /\ count = Len(lists) - f

FailsOfItsFile ==
    /\ pc \in {"inconsistent", "died"} => ~ Honest
    /\ pc = "died" => announced > Heap \/ announced = 0

FileInv == Paced /\ (call = "settle" => Counted) /\ FailsOfItsFile

(***************************************************************************)
(* A list that disagrees with its header, or an empty one, is not the      *)
(* block's own.                                                            *)
(***************************************************************************)
LEMMA OwnListAgrees ==
    ASSUME NEW b \in AllBlocks
    PROVE  Body[b] # <<>> /\ MerkleRoot(Body[b]) = Root[b]
<1>1. PICK n \in Nat \ {0} : n = Len(Body[b])
  <2>1. Len(Body[b]) \in 1..Heap
    BY BodyAssumption
  <2>2. \A n \in 1..Heap : n \in Nat \ {0}
    BY ChainAssumption
  <2> QED  BY <2>1, <2>2
<1>2. MerkleRoot(Body[b]) = ConsensusRoot(Body[b])
  BY <1>1, MerkleIsConsensus
<1> QED  BY <1>1, <1>2, BodyAssumption

LEMMA FileInvInit == BlocksInit => FileInv
<1> SUFFICES ASSUME BlocksInit PROVE FileInv
  OBVIOUS
<1>1. Paced
  BY DEF BlocksInit, Paced, Reading
<1>2. Counted
  BY DEF BlocksInit, Counted
<1>3. FailsOfItsFile
  BY DEF BlocksInit, FailsOfItsFile
<1> QED  BY <1>1, <1>2, <1>3 DEF FileInv

LEMMA FileInvStep == BlocksInv /\ FileInv /\ [BlocksNext]_blockVars => FileInv'
<1> SUFFICES ASSUME BlocksInv, FileInv, [BlocksNext]_blockVars PROVE FileInv'
  OBVIOUS
<1>0. BlocksTypeOK /\ CountBehind /\ Paced /\ FailsOfItsFile /\ (call = "settle" => Counted)
  BY DEF BlocksInv, FileInv
<1>1. ASSUME lists' = lists, found' = found, count' = count
      PROVE  Counted <=> Counted'
  BY <1>1 DEF Counted, FirstHolds, Holds
<1>2. ASSUME pc' = "ended", UNCHANGED <<call, accepted, announced, lists, found, count>>
      PROVE  FileInv'
  <2>1. Paced'
    BY <1>0, <1>2 DEF Paced, Reading
  <2>2. FailsOfItsFile'
    BY <1>2 DEF FailsOfItsFile
  <2> QED  BY <1>0, <1>1, <1>2, <2>1, <2>2 DEF FileInv
<1>3. CASE EndOfFile
  BY <1>2, <1>3 DEF EndOfFile, Break
<1>4. ASSUME NEW b \in AllBlocks, ReadHeader(b)
      PROVE  FileInv'
  <2>1. Len(accepted') = Len(accepted) + 1 /\ Len(accepted) \in Nat
    BY <1>0, <1>4 DEF ReadHeader, BlocksTypeOK
  <2>2. Paced'
    BY <1>0, <1>4, <2>1 DEF ReadHeader, Paced, Reading, BlocksTypeOK
  <2>3. call' = "settle" => Counted'
    BY <1>0, <1>1, <1>4 DEF ReadHeader
  <2>4. FailsOfItsFile'
    BY <1>4 DEF ReadHeader, FailsOfItsFile
  <2> QED  BY <2>2, <2>3, <2>4 DEF FileInv
<1>5. ASSUME NEW b \in AllBlocks \cup {NoBlock}, RejectHeader(b)
      PROVE  FileInv'
  BY <1>5, <1>2 DEF RejectHeader, Break
<1>6. ASSUME NEW n \in Counts, ReadCount(n)
      PROVE  FileInv'
  <2>1. call = "settle" /\ Len(lists) = Len(accepted) - 1 /\ Len(accepted) \in Nat
    BY <1>0, <1>6 DEF ReadCount, CountBehind, Paced, Reading, BlocksTypeOK
  <2>2. call' = call /\ lists' = lists /\ accepted' = accepted
    BY <1>6 DEF ReadCount
  <2>3. Paced'
    <3>1. pc' \in {"transactions", "died"}
      BY <1>6 DEF ReadCount
    <3> QED  BY <2>1, <2>2, <3>1 DEF Paced
  <2>4. Counted'
    BY <1>0, <1>1, <1>6, <2>1 DEF ReadCount
  <2>5. ~ Honest'
    BY <2>1, <2>2 DEF Honest
  <2>6. pc' = "died" => announced' > Heap
    BY <1>6, ChainAssumption DEF ReadCount, LittleEndian
  <2> QED  BY <2>3, <2>4, <2>5, <2>6 DEF FileInv, FailsOfItsFile
<1>7. ASSUME NEW list \in Lists, ReadTransactions(list)
      PROVE  FileInv'
  <2>1. call = "settle" /\ Len(lists) = Len(accepted) - 1 /\ accepted # <<>>
    BY <1>0, <1>7 DEF ReadTransactions, CountBehind, Paced, Reading
  <2>2. PICK n \in Nat : n = Len(lists)
    BY <1>0 DEF BlocksTypeOK
  <2>3. /\ call' = call /\ accepted' = accepted /\ announced' = announced
        /\ Len(accepted) = n + 1 /\ n + 1 \in DOMAIN accepted /\ accepted[n + 1] \in AllBlocks
    BY <1>0, <1>7, <2>1, <2>2 DEF ReadTransactions, BlocksTypeOK
  <2>4. /\ Len(lists') = n + 1 /\ DOMAIN lists' = 1..(n + 1) /\ DOMAIN lists = 1..n
        /\ lists'[n + 1] = list
        /\ \A i \in 1..n : lists'[i] = lists[i]
    BY <1>0, <1>7, <2>2 DEF ReadTransactions, BlocksTypeOK
  <2>5. pc' \in {"died", "header", "inconsistent"}
    BY <1>7 DEF ReadTransactions
  <2>6. Paced'
    BY <2>1, <2>3, <2>4, <2>5 DEF Paced, Reading
  <2>7. \A l : Holds(l)' <=> Holds(l)
    BY DEF Holds
  <2>8. Counted'
    <3>1. CASE found
      <4>1. PICK f \in 1..n : FirstHolds(f) /\ count = n - f
        BY <1>0, <2>1, <2>2, <3>1 DEF Counted
      <4>2. found' /\ count' = (n + 1) - f /\ f \in 1..(n + 1)
        <5>1. found' /\ count' = count + 1
          BY <1>7, <3>1, Zenon DEF ReadTransactions, CountAfterFound
        <5> QED  BY <4>1, <5>1
      <4>3. FirstHolds(f)'
        BY <2>4, <4>1, <4>2 DEF FirstHolds, Holds
      <4> QED  BY <2>4, <4>2, <4>3 DEF Counted
    <3>2. CASE ~ found /\ Holds(list)
      <4>1. found' /\ count' = 0 /\ n + 1 \in 1..(n + 1) /\ (n + 1) - (n + 1) = 0
        <5>1. found' /\ count' = count /\ count = 0
          BY <1>0, <1>7, <2>1, <3>2, Zenon DEF ReadTransactions, CountAfterFound, Counted
        <5> QED  BY <5>1
      <4>2. \A i \in 1..n : ~ Holds(lists[i])
        BY <1>0, <2>1, <2>4, <3>2 DEF Counted
      <4>3. PICK f \in 1..(n + 1) : f = n + 1
        BY <4>1
      <4>4. FirstHolds(f)'
        BY <2>4, <3>2, <4>2, <4>3 DEF FirstHolds, Holds
      <4> QED  BY <2>4, <4>1, <4>3, <4>4 DEF Counted
    <3>3. CASE ~ found /\ ~ Holds(list)
      <4>1. ~ found' /\ count' = 0
        BY <1>0, <1>7, <2>1, <3>3 DEF ReadTransactions, CountAfterFound, Counted
      <4>2. \A i \in 1..n : ~ Holds(lists[i])
        BY <1>0, <2>1, <2>4, <3>3 DEF Counted
      <4>3. \A i \in 1..(n + 1) : i = n + 1 \/ i \in 1..n
        OBVIOUS
      <4> QED  BY <2>4, <3>3, <4>1, <4>2, <4>3 DEF Counted, Holds
    <3> QED  BY <3>1, <3>2, <3>3
  <2>9. pc' \in {"inconsistent", "died"} => list # Body[accepted[n + 1]]
    BY <1>7, <2>3, OwnListAgrees DEF ReadTransactions, ConsistentWithHeader
  <2>10. list # Body[accepted[n + 1]] => ~ Honest'
    <3>1. n + 1 \in 1..(n + 1)
      OBVIOUS
    <3> QED  BY <2>3, <2>4, <3>1 DEF Honest
  <2>11. pc' = "died" => announced' = 0
    BY <1>7, <2>3 DEF ReadTransactions, LittleEndian
  <2>12. FailsOfItsFile'
    BY <2>9, <2>10, <2>11 DEF FailsOfItsFile
  <2> QED  BY <2>6, <2>8, <2>12 DEF FileInv
<1>8. CASE UNCHANGED blockVars
  <2>1. Paced'
    BY <1>0, <1>8 DEF blockVars, Paced, Reading
  <2>2. Counted <=> Counted'
    BY <1>1, <1>8 DEF blockVars
  <2>3. FailsOfItsFile'
    BY <1>0, <1>8 DEF blockVars, FailsOfItsFile, Honest
  <2> QED  BY <1>0, <1>8, <2>1, <2>2, <2>3 DEF blockVars, FileInv
<1> QED  BY <1>3, <1>4, <1>5, <1>6, <1>7, <1>8 DEF BlocksNext

THEOREM FileInvariant == BlocksSpec => []FileInv
<1>1. BlocksSpec => []BlocksInv
  BY BlocksInvariant
<1> QED  BY <1>1, FileInvInit, FileInvStep, PTL DEF BlocksSpec

(***************************************************************************)
(* The depth of an honest file is exact, for every chain, settlement and   *)
(* number of transactions in a block, and a refund counts every header.    *)
(***************************************************************************)
THEOREM HonestFilesCountExactly == BlocksSpec => []Exact
<1>1. BlocksInv /\ FileInv => Exact
  <2> SUFFICES ASSUME BlocksInv, FileInv PROVE Exact
    OBVIOUS
  <2>0. BlocksTypeOK /\ CountBehind /\ Paced /\ FailsOfItsFile /\ (call = "settle" => Counted)
    BY DEF BlocksInv, FileInv
  <2>1. CASE call = "refund"
    BY <2>0, <2>1 DEF Exact, Paced
  <2>2. CASE call = "settle"
    <3>1. SUFFICES ASSUME Honest
                   PROVE  /\ pc \in {"header", "ended"}
                          /\ \A depth \in 1..Len(accepted) : Buried(depth) <=> depth <= count
      BY <2>2 DEF Exact
    <3>2. PICK n \in Nat : n = Len(accepted) /\ n = Len(lists)
      BY <2>0, <3>1 DEF Honest, BlocksTypeOK
    <3>3. pc \in {"header", "ended"}
      BY <2>0, <2>2, <3>1, <3>2 DEF BlocksTypeOK, Paced, Reading, FailsOfItsFile
    <3>4. /\ DOMAIN accepted = 1..n /\ DOMAIN lists = 1..n
          /\ \A i \in 1..n : Body[accepted[i]] = lists[i]
      BY <2>0, <3>1, <3>2 DEF Honest, BlocksTypeOK
    <3>5. \A depth : Buried(depth) <=> \E i \in 1..n : Holds(lists[i]) /\ i + depth <= n
      BY <3>2, <3>4 DEF Buried
    <3>6. CASE ~ found
      <4>1. count = 0 /\ \A i \in 1..n : ~ Holds(lists[i])
        BY <2>0, <2>2, <3>4, <3>6 DEF Counted
      <4> QED  BY <3>2, <3>3, <3>5, <4>1
    <3>7. CASE found
      <4>1. PICK f \in 1..n : FirstHolds(f) /\ count = n - f
        BY <2>0, <2>2, <3>2, <3>7 DEF Counted
      <4>2. Holds(lists[f]) /\ \A i \in 1..n : Holds(lists[i]) => f <= i
        BY <4>1 DEF FirstHolds
      <4>3. ASSUME NEW depth \in 1..n
            PROVE  Buried(depth) <=> depth <= count
        BY <3>5, <4>1, <4>2
      <4> QED  BY <3>2, <3>3, <4>3
    <3> QED  BY <3>6, <3>7
  <2> QED  BY <2>0, <2>1, <2>2 DEF BlocksTypeOK
<1> QED  BY <1>1, BlocksInvariant, FileInvariant, PTL

(***************************************************************************)
(* No count that a block has, and no header taken for one, costs the host  *)
(* its enclave.                                                            *)
(***************************************************************************)
THEOREM NoRealFileIsFatal == BlocksSpec => []EnclaveSurvives
<1>1. FileInv => EnclaveSurvives
  <2> SUFFICES ASSUME FileInv, pc = "died"
               PROVE  announced \notin {Len(Body[b]) : b \in AllBlocks} \cup {HeaderVersion}
    BY DEF EnclaveSurvives
  <2>1. announced > Heap \/ announced = 0
    BY DEF FileInv, FailsOfItsFile
  <2>2. Heap \in Nat /\ HeaderVersion <= Heap /\ HeaderVersion = 4
    BY ChainAssumption DEF HeaderVersion
  <2>3. \A b \in AllBlocks : Len(Body[b]) \in 1..Heap
    BY BodyAssumption
  <2> QED  BY <2>1, <2>2, <2>3
<1> QED  BY <1>1, FileInvariant, PTL
=============================================================================
