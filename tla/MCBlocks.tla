------------------------------ MODULE MCBlocks ------------------------------
(***************************************************************************)
(* Blocks for TLC: a chain of five blocks with the settlement in the       *)
(* second, a fork of two that has it later, and a block with it but        *)
(* without work.  The lists are the blocks' own and some close to them.    *)
(***************************************************************************)
EXTENDS Blocks

CONSTANTS coinbase, spend, settlement, junk, none

MCBlocks == {"b1", "b2", "b3", "b4", "b5", "fork2", "fork3", "fork4", "idle3"}
MCPrev == [b1 |-> "checkpoint", b2 |-> "b1", b3 |-> "b2", b4 |-> "b3", b5 |-> "b4",
           fork2 |-> "b1", fork3 |-> "fork2", fork4 |-> "fork3", idle3 |-> "b2"]
MCWork == MCBlocks \ {"idle3"}

One   == <<coinbase>>
Two   == <<coinbase, spend>>
Three == <<coinbase, spend, settlement>>

MCBody == [b1 |-> One, b2 |-> Three, b3 |-> Two, b4 |-> One, b5 |-> Two,
           fork2 |-> Two, fork3 |-> Three, fork4 |-> One, idle3 |-> <<coinbase, settlement>>]

Pair == <<coinbase, spend>>
Tree == <<Pair, <<settlement, settlement>>>>
MCRoot == [b1 |-> coinbase, b2 |-> Tree, b3 |-> Pair, b4 |-> coinbase, b5 |-> Pair,
           fork2 |-> Pair, fork3 |-> Tree, fork4 |-> coinbase, idle3 |-> <<coinbase, settlement>>]

(***************************************************************************)
(* Next to the blocks' lists: an odd list with its last txid twice, the    *)
(* upper layers of a tree in place of its leaves, the settlement put into  *)
(* a block that does not have it, no txids, and what a header looks like   *)
(* when it is read as txids.                                               *)
(***************************************************************************)
MCLists == {MCBody[b] : b \in MCBlocks} \cup
    { <<coinbase, spend, settlement, settlement>>, Tree, <<Tree>>,
      <<Pair>>, <<settlement>>, <<coinbase, spend, junk>>, <<>>, <<junk, junk, junk, junk>> }

MCCounts == {0, 1, 2, 3, 4, 100}
MCHeap   == 10
=============================================================================
