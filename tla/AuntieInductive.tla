-------------------------- MODULE AuntieInductive --------------------------
(***************************************************************************)
(* The inductive invariant behind the safety of the contract: what ties    *)
(* the enclaves' states, the messages in flight, what the hosts hold and   *)
(* the chain together.                                                     *)
(***************************************************************************)
EXTENDS Auntie

InFlight(channel) == {channel[i] : i \in DOMAIN channel}

(***************************************************************************)
(* One settlement at most is ever created, number 1, between the call of   *)
(* clear_contract and its success.                                         *)
(***************************************************************************)
OneSettlement ==
    /\ issued \in {0, 1}
    /\ opPc \in ClearPcs => opState = "INITIALIZED"
    /\ opPc \in FinalizePcs => opState = "CLEARED_CONTRACT"
    /\ opState \in {"UNINITIALIZED", "INITIALIZED"} /\ opPc \notin {"send", "output"}
         => issued = 0
    /\ opPc \in {"send", "output"} => issued = 1 /\ unauthorized = 1
    /\ opState = "CLEARED_CONTRACT" =>
         issued = 1 /\ unauthorized = 1 /\ opSignature = 1

(***************************************************************************)
(* The operator's host holds the settlement only after FINALIZED, and the  *)
(* key to the collateral only after REFUNDED.                              *)
(***************************************************************************)
OperatorsSecrets ==
    /\ opState = "FINALIZED" => \A p \in Players : signatures[p] = 1
    /\ settlementOut # NoHash => opState = "FINALIZED" /\ settlementOut = 1
    /\ depositKeyOut[Operator] => opState = "REFUNDED"

(***************************************************************************)
(* A wallet exists exactly from initialize on, nothing is deposited before,*)
(* and what faulted had none.                                              *)
(***************************************************************************)
WalletsLive ==
    /\ wallet[Operator] <=> opState # "UNINITIALIZED"
    /\ \A p \in Players : wallet[p] <=> plState[p] # "UNINITIALIZED"
    /\ \A x \in Parties : /\ coin[x] # "none" => wallet[x]
                          /\ tee[x] = "faulted" => ~ wallet[x]

(***************************************************************************)
(* A player knows the settlement from get_deposits on, and holds the       *)
(* advice from deposit_and_input until it signs.                           *)
(***************************************************************************)
PlayersKnowledge ==
    \A p \in Players :
        /\ plPc[p] = "receive" => plState[p] = "DEPOSITED"
        /\ plState[p] \in {"UNINITIALIZED", "INITIALIZED"} =>
             settlementHash[p] = NoHash /\ ~ advice[p]
        /\ plState[p] = "DEPOSITED" => settlementHash[p] = NoHash /\ advice[p]
        /\ plState[p] = "GOT_DEPOSITS" => settlementHash[p] = 1 /\ advice[p]
        /\ settlementHash[p] # NoHash => settlementHash[p] = 1 /\ issued = 1

(***************************************************************************)
(* Messages that announce the settlement are true, and a signature in      *)
(* flight or gathered is one its player has consented with.                *)
(***************************************************************************)
HonestMessages ==
    \A p \in Players :
        /\ \A m \in InFlight(toPlayer[p]) : m = ClearContractMsg(1) /\ issued = 1
        /\ \A m \in InFlight(toOperator[p]) :
             m.type = "CONFIRM_DEPOSITS" => m.hash = 1 /\ Consented(p, 1)
        /\ signatures[p] # NoHash => signatures[p] = 1 /\ Consented(p, 1)

(***************************************************************************)
(* A player's channel carries one deposit, then signatures.  Once the      *)
(* operator's first loop is past a player, the deposit is taken and there  *)
(* will be no other.                                                       *)
(***************************************************************************)
Collected(p) ==
    \/ opPc = "collect" /\ p < opIdx
    \/ opPc \in {"evaluate", "send", "output"}
    \/ opState = "CLEARED_CONTRACT"

DepositFirst(channel) ==
    \A i \in DOMAIN channel : i # 1 => channel[i].type = "CONFIRM_DEPOSITS"

OneDeposit ==
    \A p \in Players :
        /\ plState[p] \in {"UNINITIALIZED", "INITIALIZED"} => toOperator[p] = <<>>
        /\ \A m \in InFlight(toOperator[p]) :
             m.type \in {"DEPOSIT_AND_INPUT", "CONFIRM_DEPOSITS"}
        /\ DepositFirst(toOperator[p])
        /\ Collected(p) =>
             /\ plState[p] \notin {"UNINITIALIZED", "INITIALIZED"}
             /\ \A m \in InFlight(toOperator[p]) : m.type = "CONFIRM_DEPOSITS"

(***************************************************************************)
(* A mined settlement is the one handed out and has spent every deposit;   *)
(* only then is there a payout.  The settlement is no deeper than the      *)
(* chain is long.                                                          *)
(***************************************************************************)
ChainAgrees ==
    /\ mined # NoHash => /\ mined = settlementOut
                         /\ \A x \in Parties : coin[x] = "settled"
    /\ \A p \in Players : payoutOut[p] => mined # NoHash /\ mined = settlementHash[p]
    /\ burial <= height
    /\ \A p \in Players : plState[p] = "SETTLED" => height >= RefundDelay

(***************************************************************************)
(* The conjunction is inductive: it holds of the initial states and every  *)
(* step preserves it (finalize's care for the order of callback and state, *)
(* operator core.c:340-342, rests on all of it).                           *)
(***************************************************************************)
Consistent ==
    /\ TypeOK
    /\ OneSettlement
    /\ OperatorsSecrets
    /\ WalletsLive
    /\ PlayersKnowledge
    /\ HonestMessages
    /\ OneDeposit
    /\ ChainAgrees
=============================================================================
