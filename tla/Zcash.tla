------------------------------- MODULE Zcash -------------------------------
(***************************************************************************)
(* The Zcash chain as the enclaves and their hosts use it.  It is external *)
(* to the repository: notes are spent at most once, a settlement spends    *)
(* the deposits of all parties at once, and a deposit key lets its holder  *)
(* spend one deposit alone.  The enclaves see it only through the two      *)
(* functions of zcash_ffi/src/blocks.rs.                                   *)
(*                                                                         *)
(* Depths are compared with the two delays and with nothing else, so they  *)
(* saturate there: no state the code could tell apart is lost.  The chain  *)
(* does not reorganise and nobody forges a chain.                          *)
(***************************************************************************)
EXTENDS Parties

VARIABLES
    coin,    \* [Parties -> CoinState], each party's deposit
    mined,   \* the settlement on the chain, or NoHash
    burial,  \* blocks on top of the settlement's, up to SettleDelay
    height   \* blocks since the checkpoint, up to SettleDelay

chainVars == <<coin, mined, burial, height>>

CoinState == {"none", "unspent", "settled", "refunded"}

ChainTypeOK ==
    /\ coin \in [Parties -> CoinState]
    /\ mined \in Nat
    /\ burial \in 0..SettleDelay
    /\ height \in 0..SettleDelay

ChainInit ==
    /\ coin = [x \in Parties |-> "none"]
    /\ mined = NoHash
    /\ burial = 0
    /\ height = 0

Saturate(n, cap) == IF n < cap THEN n ELSE cap

Grow ==
    /\ height' = Saturate(height + 1, SettleDelay)
    /\ burial' = IF mined = NoHash THEN 0 ELSE Saturate(burial + 1, SettleDelay)

(***************************************************************************)
(* A host pays into the deposit address its enclave has printed.           *)
(***************************************************************************)
FundDeposit(x) ==
    /\ wallet[x]
    /\ coin[x] = "none"
    /\ coin' = [coin EXCEPT ![x] = "unspent"]
    /\ UNCHANGED <<mined, burial, height>>

NewBlock ==
    /\ Grow
    /\ UNCHANGED <<coin, mined>>

(***************************************************************************)
(* Someone broadcasts the authorized settlement and it is mined.           *)
(***************************************************************************)
MineSettlement ==
    /\ settlementOut # NoHash
    /\ \A x \in Parties : coin[x] = "unspent"
    /\ coin' = [x \in Parties |-> "settled"]
    /\ mined' = settlementOut
    /\ Grow

(***************************************************************************)
(* The holder of x's deposit key spends x's deposit back to itself.        *)
(***************************************************************************)
MineRefund(x) ==
    /\ depositKeyOut[x]
    /\ coin[x] = "unspent"
    /\ coin' = [coin EXCEPT ![x] = "refunded"]
    /\ Grow
    /\ UNCHANGED mined

(***************************************************************************)
(* What the enclaves compute from the blocks they are shown.  The host may *)
(* show any prefix of the chain; a shorter one only makes the call fail    *)
(* with EAGAIN, so the whole chain is the case that matters.  The block    *)
(* that holds the settlement does not count, as in blocks.rs:156-164.      *)
(***************************************************************************)
BlocksSinceCheckpoint == height

CountingFromCheckpoint(txid) == height

MinedIsEnough(txid) == IF txid # NoHash /\ mined = txid THEN SettleDelay ELSE 0

AuthorizedAndBuried(txid) ==
    IF txid # NoHash /\ mined = txid THEN burial ELSE 0

=============================================================================
