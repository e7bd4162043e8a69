------------------------------- MODULE Blocks -------------------------------
(***************************************************************************)
(* How an enclave comes to its two numbers about the chain, from a file of *)
(* blocks its host has put together.  For a settlement the file holds, for *)
(* every block since the checkpoint, the header, a count and that many     *)
(* txids; for a refund it holds headers only.                              *)
(*                                                                         *)
(* The file is not given in advance: each read finds the end of the file   *)
(* or any of the things that could be there.  A header is the block it     *)
(* belongs to, and stands for its hash as well.  Bytes that are no header  *)
(* of any block are NoBlock.                                               *)
(***************************************************************************)
EXTENDS Naturals, Sequences

CONSTANTS
    AllBlocks,   \* blocks whose headers may occur in a file
    NoBlock,     \* what lies across two headers, or a part of none
    Checkpoint,  \* AUNTIE_CHECKPOINT_BLOCK_HASH
    Prev,        \* [AllBlocks -> AllBlocks \cup {Checkpoint}]
    Work,        \* the blocks with a solution that pass the difficulty filter
    Body,        \* [AllBlocks -> Seq(txids)], the block's transactions
    Root,        \* [AllBlocks -> nodes], the Merkle root in the header
    Lists,       \* the sequences of txids that may occur in a file
    Settlement,  \* the txid that is looked for
    Counts,      \* the numbers that may stand where a count is expected
    Heap,        \* how many txids the enclave's heap holds
    MaxBlocks    \* TLC: no file has more blocks

(***************************************************************************)
(* The first four bytes of a header, which is what is taken for a count    *)
(* when a file for refund is given to settle.                              *)
(***************************************************************************)
HeaderVersion == 4

Holds(list) == \E i \in DOMAIN list : list[i] = Settlement

VARIABLES
    call,      \* "settle" or "refund"
    pc,        \* what is read next, or how the call ended
    accepted,  \* the blocks whose headers verified; the last one is
               \* previous_block_hash
    lists,     \* the txids read with them
    announced, \* the four bytes of the count
    found,     \* settlement_found
    count      \* count_since_settlement, or count

blockVars == <<call, pc, accepted, lists, announced, found, count>>

BlocksTypeOK ==
    /\ call \in {"settle", "refund"}
    /\ pc \in {"header", "count", "transactions", "ended", "inconsistent", "died"}
    /\ accepted \in Seq(AllBlocks)
    /\ lists \in Seq(Lists)
    /\ announced \in Nat
    /\ found \in BOOLEAN
    /\ count \in 0..Len(accepted)

BlocksInit ==
    /\ call \in {"settle", "refund"}
    /\ pc = "header"
    /\ accepted = <<>>
    /\ lists = <<>>
    /\ announced = 0
    /\ found = FALSE
    /\ count = 0
-----------------------------------------------------------------------------
(***************************************************************************)
(* The Merkle tree over txids: nodes are paired up layer by layer, and an  *)
(* odd one is paired with itself.  A node is the pair of its children.     *)
(***************************************************************************)
PassUp(left, right) == IF left = right THEN left ELSE <<left, right>>

NodeHash(left, right) == <<left, right>>

Parent(layer, i) ==
    NodeHash(layer[2 * i - 1], layer[IF 2 * i <= Len(layer) THEN 2 * i ELSE 2 * i - 1])

NextLayer(layer) ==
    IF Len(layer) > 1
    THEN [i \in 1..((Len(layer) + 1) \div 2) |-> Parent(layer, i)]
    ELSE layer

\* With each round a layer shrinks until one node is left, which stays.
Layers(list) ==
    LET layers[n \in 0..Len(list)] ==
            IF n = 0 THEN list ELSE NextLayer(layers[n - 1])
    IN  layers

MerkleRoot(list) == Layers(list)[Len(list)][1]

ConsistentWithHeader(list) == MerkleRoot(list) = Root[accepted[Len(accepted)]]

PreviousBlock ==
    IF accepted = <<>> THEN Checkpoint ELSE accepted[Len(accepted)]

VerifyWork(b) == b \in Work

VerifyBlockHeader(b) == b \in Work /\ Prev[b] = PreviousBlock
-----------------------------------------------------------------------------
CountingBreak ==
    pc' = "ended" /\ count' = count + 1 /\ UNCHANGED <<call, lists, announced, found>>

Break == pc' = "ended" /\ UNCHANGED <<call, lists, announced, found, count>>

(***************************************************************************)
(* A read reaches the end of the file before it is complete.               *)
(***************************************************************************)
EndOfFile ==
    /\ pc \in {"header", "count", "transactions"}
    /\ Break
    /\ UNCHANGED accepted

(***************************************************************************)
(* A header that verifies is the next block of the chain; for a refund     *)
(* that is all there is to a block.                                        *)
(***************************************************************************)
ReadHeader(b) ==
    /\ pc = "header"
    /\ VerifyBlockHeader(b)
    /\ accepted' = Append(accepted, b)
    /\ IF call = "settle"
       THEN pc' = "count" /\ UNCHANGED count
       ELSE count' = count + 1 /\ UNCHANGED pc
    /\ UNCHANGED <<call, lists, announced, found>>

RejectHeader(b) ==
    /\ pc = "header"
    /\ b = NoBlock \/ ~ VerifyBlockHeader(b)
    /\ Break
    /\ UNCHANGED accepted

(***************************************************************************)
(* A count asks for room for as many txids at once; without it the         *)
(* allocator's failure ends the enclave.                                   *)
(***************************************************************************)
BigEndian(n) == n * 2^24
LittleEndian(n) == n

ReadCount(n) ==
    /\ pc = "count"
    /\ announced' = n
    /\ pc' = IF LittleEndian(n) <= Heap THEN "transactions" ELSE "died"
    /\ UNCHANGED <<call, accepted, lists, found, count>>

(***************************************************************************)
(* The txids of a block: the block counts if the settlement was found in   *)
(* an earlier one, then the settlement is looked for, and only then are    *)
(* the txids compared with the header.  There is no root of no txids: the  *)
(* first node is taken of an empty vector, and the panic ends the enclave. *)
(***************************************************************************)
CountOnceFound(list)  == IF found \/ Holds(list) THEN count + 1 ELSE count
CountAfterFound(list) == IF found THEN count + 1 ELSE count

ReadTransactions(list) ==
    /\ pc = "transactions"
    /\ Len(list) = LittleEndian(announced)
    /\ lists' = Append(lists, list)
    /\ count' = CountAfterFound(list)
    /\ found' = (found \/ Holds(list))
    /\ \/ list = <<>> /\ pc' = "died"
       \/ list # <<>> /\ pc' = IF ConsistentWithHeader(list) THEN "header" ELSE "inconsistent"
    /\ UNCHANGED <<call, accepted, announced>>

BlocksNext ==
    \/ EndOfFile
    \/ \E b \in AllBlocks : Len(accepted) < MaxBlocks /\ ReadHeader(b)
    \/ \E b \in AllBlocks \cup {NoBlock} : RejectHeader(b)
    \/ \E n \in Counts : ReadCount(n)
    \/ \E list \in Lists : ReadTransactions(list)

BlocksSpec == BlocksInit /\ [][BlocksNext]_blockVars
-----------------------------------------------------------------------------
(***************************************************************************)
(* The root that the consensus rules ask of a header, from the top down: a *)
(* tree over up to 2^h txids has on its left the tree over the first half  *)
(* of them and on its right the tree over the others, or the left one      *)
(* again if there are no others.  Its height is the least that suffices.   *)
(***************************************************************************)
Leaves(n) ==
    LET leaves[h \in 0..n] == IF h = 0 THEN 1 ELSE 2 * leaves[h - 1]
    IN  leaves

ConsensusTree(list) ==
    LET n == Len(list)
        tree[h \in 0..n] ==
            IF h = 0 THEN list
            ELSE [at \in 1..n |->
                    LET right == at + Leaves(n)[h - 1]
                    IN  <<tree[h - 1][at], tree[h - 1][IF right <= n THEN right ELSE at]>>]
    IN  tree

TreeHeight(n) ==
    CHOOSE h \in 0..n : n <= Leaves(n)[h] /\ \A lower \in 0..(h - 1) : Leaves(n)[lower] < n

ConsensusRoot(list) == ConsensusTree(list)[TreeHeight(Len(list))][1]
-----------------------------------------------------------------------------
(***************************************************************************)
(* Assumptions.  Hashes do not collide: txids whose root is a block's, and *)
(* that contain the settlement, show that the block contains it, though    *)
(* they need not be the block's own list.  Every block has a transaction   *)
(* and the root of its transactions in its header.  No block has more of   *)
(* them than the heap holds, which is 16 MB for a player's enclave.        *)
(***************************************************************************)
ASSUME ChainAssumption ==
    /\ NoBlock \notin AllBlocks
    /\ Work \subseteq AllBlocks
    /\ Counts \subseteq Nat
    /\ Heap \in Nat
    /\ HeaderVersion <= Heap
    /\ MaxBlocks \in Nat

ASSUME MerkleAssumption ==
    \A b \in AllBlocks : \A list \in Lists \ {<<>>} :
        MerkleRoot(list) = Root[b] /\ Holds(list) => Holds(Body[b])

ASSUME BodyAssumption ==
    \A b \in AllBlocks :
        /\ Body[b] \in Seq({Body[b][i] : i \in DOMAIN Body[b]})
        /\ Len(Body[b]) \in 1..Heap
        /\ Root[b] = ConsensusRoot(Body[b])
-----------------------------------------------------------------------------
(***************************************************************************)
(* The number a settlement is granted by is never more than the number of  *)
(* blocks on top of one that contains the settlement, in a chain of blocks *)
(* with work that starts at the checkpoint, whatever the file holds        *)
(* (blocks.rs:156-164, where the settlement counts as found before the     *)
(* root of its block has been checked).                                    *)
(***************************************************************************)
Chained ==
    \A i \in DOMAIN accepted :
        /\ accepted[i] \in Work
        /\ Prev[accepted[i]] = IF i = 1 THEN Checkpoint ELSE accepted[i - 1]

Buried(depth) ==
    \E i \in DOMAIN accepted : Holds(Body[accepted[i]]) /\ i + depth <= Len(accepted)

NeverOvercounts ==
    /\ Chained
    /\ call = "settle" /\ count > 0 => Buried(count)

(***************************************************************************)
(* A file in the right format whose txids are the blocks' own gives the    *)
(* exact number, also when a block has an odd number of transactions and   *)
(* wherever the file ends between two blocks (blocks.rs:94-109, 157-164).  *)
(***************************************************************************)
Honest ==
    /\ Len(lists) = Len(accepted)
    /\ \A i \in DOMAIN lists : lists[i] = Body[accepted[i]]

Exact ==
    IF call = "refund" THEN count = Len(accepted)
    ELSE Honest => /\ pc \in {"header", "ended"}
                   /\ \A depth \in 1..Len(accepted) : Buried(depth) <=> depth <= count

(***************************************************************************)
(* A file does not cost its host the enclave, and with it the keys, if it  *)
(* is cut off anywhere, belongs to another chain, lists other txids, or is *)
(* one of headers only (blocks.rs:142-147 and 108).                        *)
(***************************************************************************)
EnclaveSurvives ==
    pc = "died" => announced \notin {Len(Body[b]) : b \in AllBlocks} \cup {HeaderVersion}
=============================================================================
