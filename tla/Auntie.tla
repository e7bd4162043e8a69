------------------------------- MODULE Auntie -------------------------------
(***************************************************************************)
(* The whole contract: the operator's enclave, the players' enclaves, the  *)
(* channels between them, their hosts and the chain.                       *)
(***************************************************************************)
EXTENDS OperatorTEE, PlayerTEE

vars == <<partyVars, opVars, plVars, chainVars>>

Init == PartiesInit /\ OperatorInit /\ PlayerInit /\ ChainInit

ByOperator(A) == A /\ UNCHANGED <<plVars, chainVars>>
ByPlayer(A)   == A /\ UNCHANGED <<opVars, chainVars>>
OnChain(A)    == A /\ UNCHANGED <<partyVars, opVars, plVars>>

OperatorStep  == ByOperator(OperatorNext)
PlayerStep(p) == ByPlayer(PlayerNext(p))
CrashStep(x) == /\ Crash(x)
                /\ UNCHANGED <<toOperator, toPlayer, wallet, depositKeyOut,
                               payoutOut, settlementOut, opVars, plVars,
                               chainVars>>
ChainNext == \/ \E x \in Parties : FundDeposit(x) \/ MineRefund(x)
             \/ NewBlock
             \/ MineSettlement
ChainStep == OnChain(ChainNext)

Next ==
    \/ OperatorStep
    \/ \E p \in Players : PlayerStep(p)
    \/ \E x \in Parties : CrashStep(x)
    \/ ChainStep

Spec == Init /\ [][Next]_vars

(***************************************************************************)
(* Fairness.  The chain keeps growing and takes what is broadcast; an      *)
(* ECALL in progress moves on, because its receive returns a message or is *)
(* interrupted by the host, the purpose of the SIGINT handlers in both     *)
(* main.c; and a host that is up asks for its money when it is due: the    *)
(* settlement if there is one, the refund, and the payout.  No host is     *)
(* obliged to take part in the contract any further than that.             *)
(***************************************************************************)
Fairness ==
    /\ WF_vars(OnChain(NewBlock))
    /\ WF_vars(OnChain(MineSettlement))
    /\ \A x \in Parties : WF_vars(OnChain(MineRefund(x)))
    /\ WF_vars(ByOperator(OpProceeds \/ OpFails))
    /\ WF_vars(ByOperator(OpRefund))
    /\ \A p \in Players : /\ WF_vars(ByPlayer(PlReceive(p) \/ PlReceiveFails(p)))
                          /\ WF_vars(ByPlayer(PlRefund(p)))
                          /\ WF_vars(ByPlayer(PlSettle(p)))

FairSpec == Spec /\ Fairness

(***************************************************************************)
(* Every host follows the instructions of the README: it makes the calls   *)
(* in order, and none is bound to ask for a refund, though it may.         *)
(* Which party moves when is left open.                                    *)
(***************************************************************************)
FlowFairness ==
    /\ \A x \in Parties : WF_vars(OnChain(FundDeposit(x)))
    /\ WF_vars(OnChain(NewBlock))
    /\ WF_vars(OnChain(MineSettlement))
    /\ WF_vars(ByOperator(OpInitialize))
    /\ WF_vars(ByOperator(OpClearContract))
    /\ WF_vars(ByOperator(OpProceeds))
    /\ WF_vars(ByOperator(OpFinalize))
    /\ \A p \in Players : /\ WF_vars(ByPlayer(PlInitialize(p)))
                          /\ WF_vars(ByPlayer(PlDepositAndInput(p)))
                          /\ WF_vars(ByPlayer(PlGetDeposits(p)))
                          /\ WF_vars(ByPlayer(PlReceive(p)))
                          /\ WF_vars(ByPlayer(PlConfirmDeposits(p)))
                          /\ WF_vars(ByPlayer(PlSettle(p)))

FlowSpec == Spec /\ FlowFairness
-----------------------------------------------------------------------------
(***************************************************************************)
(* Every variable has its type (the type invariant).                       *)
(***************************************************************************)
TypeOK == PartiesTypeOK /\ ChainTypeOK /\ OperatorTypeOK /\ PlayerTypeOK

(***************************************************************************)
(* The operator's host never holds both the authorized settlement and the  *)
(* key to the collateral, whatever its callbacks return: this is the care  *)
(* the comments of ecall_finalize_impl and ecall_refund_impl take          *)
(* (operator/trusted/core.c:340-342 and 421-423).                          *)
(***************************************************************************)
OperatorCommitted ==
    ~ (settlementOut # NoHash /\ depositKeyOut[Operator])

(***************************************************************************)
(* A settlement leaves the operator's enclave only if every player signed  *)
(* that settlement, and every player's enclave still knows its txid, also  *)
(* after a failed confirm_deposits or a refund, so that it can release the *)
(* payout (operator core.c:354-393, player core.c:186-187 and 247).        *)
(***************************************************************************)
Consented(p, h) ==
    /\ settlementHash[p] = h
    /\ plState[p] \in {"CONFIRMED_DEPOSITS", "SETTLED", "REFUNDED", "ABORTED"}
    /\ ~ advice[p]

UnanimousConsent ==
    settlementOut # NoHash => \A p \in Players : Consented(p, settlementOut)

(***************************************************************************)
(* A player gets the payout key and the functionality's output only when   *)
(* all deposits have been spent by the settlement, so never together with  *)
(* a refund of anyone's (player core.c:300-309, entry.c:94-107).           *)
(***************************************************************************)
PayoutOnlyAfterSettlement ==
    \A p \in Players : payoutOut[p] =>
        /\ mined # NoHash
        /\ mined = settlementHash[p]
        /\ opState = "FINALIZED"
        /\ \A x \in Parties : coin[x] = "settled"

(***************************************************************************)
(* Settle takes at least as long a chain as refund, so that a refund is    *)
(* worthless by the time the output is out (player core.c:292-294).        *)
(***************************************************************************)
SettleNeedsTheLongerChain ==
    \A p \in Players : plState[p] = "SETTLED" => height >= RefundDelay

(***************************************************************************)
(* What the calls dereference without a test is there: the advice that     *)
(* confirm_deposits signs with (player core.c:247), the wallets, and the   *)
(* settlement and signature that finalize combines (operator core.c:382).  *)
(***************************************************************************)
PointersLive ==
    /\ \A p \in Players :
         /\ plState[p] \in {"DEPOSITED", "GOT_DEPOSITS"} => advice[p]
         /\ plState[p] # "UNINITIALIZED" => wallet[p]
    /\ opState # "UNINITIALIZED" => wallet[Operator]
    /\ opState = "CLEARED_CONTRACT" =>
         unauthorized # NoHash /\ opSignature = unauthorized

(***************************************************************************)
(* Every receive finds the type of message it expects at the head of its   *)
(* channel, whatever failed before: the type checks (operator core.c:130,  *)
(* 363, player core.c:177) never reject a message of an honest peer.       *)
(***************************************************************************)
MessagesInOrder ==
    /\ opPc \in {"collect", "gather"} /\ toOperator[opIdx] # <<>> =>
         Head(toOperator[opIdx]).type = IF opPc = "collect"
                                        THEN "DEPOSIT_AND_INPUT"
                                        ELSE "CONFIRM_DEPOSITS"
    /\ \A p \in Players : plPc[p] = "receive" /\ toPlayer[p] # <<>> =>
         Head(toPlayer[p]).type = "CLEAR_CONTRACT"

(***************************************************************************)
(* An enclave that dies of a NULL wallet takes no money with it.           *)
(***************************************************************************)
FaultStrandsNoDeposit ==
    \A x \in Parties : tee[x] = "faulted" => coin[x] = "none"

(***************************************************************************)
(* Decisions are irrevocable: FINALIZED and SETTLED are never left, and an *)
(* operator that aborted or was refunded never hands out a settlement      *)
(* (operator entry.c:113-128, player entry.c:107-121).                     *)
(***************************************************************************)
DecisionsKept ==
    /\ opState = "FINALIZED" => opState' = "FINALIZED"
    /\ opState \in {"ABORTED", "REFUNDED"} =>
         /\ opState' \in {"ABORTED", "REFUNDED"}
         /\ settlementOut' = settlementOut
    /\ \A p \in Players : plState[p] = "SETTLED" => plState'[p] = "SETTLED"

Irrevocable == [][DecisionsKept]_vars

(***************************************************************************)
(* The contract is the abstract one.  A player has consented once its      *)
(* enclave has signed, which is when it gives up the advice it created.    *)
(***************************************************************************)
Promise == INSTANCE Contract WITH
    consent   <- {p \in Players : settlementHash[p] # NoHash /\ ~ advice[p]},
    committed <- opState = "FINALIZED",
    published <- settlementOut # NoHash,
    reclaimed <- {x \in Parties : depositKeyOut[x]},
    paid      <- {p \in Players : payoutOut[p]}

ImplementsContract == Promise!Spec

(***************************************************************************)
(* A player whose deposit is on the chain eventually has it back or has    *)
(* the payout key and the output, unless its own host goes down: whatever  *)
(* the operator and the other players do, and also when the settlement     *)
(* overtakes its refund (player entry.c:94-107).                           *)
(***************************************************************************)
PlayerMadeWhole ==
    \A p \in Players :
        coin[p] = "unspent" ~> \/ coin[p] = "refunded"
                               \/ coin[p] = "settled" /\ payoutOut[p]
                               \/ tee[p] # "up"

(***************************************************************************)
(* An operator whose collateral is on the chain eventually has it back,    *)
(* through the settlement or a refund, unless its host goes down, or it    *)
(* finalized a contract some player's deposit was missing from or was      *)
(* withdrawn from before the settlement was mined.                         *)
(***************************************************************************)
Forfeit == /\ opState = "FINALIZED"
           /\ \E p \in Players : coin[p] \in {"none", "refunded"}

OperatorMadeWhole ==
    coin[Operator] = "unspent" ~> \/ coin[Operator] \in {"refunded", "settled"}
                                  \/ tee[Operator] # "up"
                                  \/ Forfeit

(***************************************************************************)
(* Without failures, and with hosts that only make their calls, the loops  *)
(* of the operator over the players never wait for a player that waits for *)
(* the operator: the contract goes through unless somebody backs out.      *)
(***************************************************************************)
ContractCompletes ==
    <> \/ \A p \in Players : payoutOut[p]
       \/ \E x \in Parties : depositKeyOut[x] \/ tee[x] # "up"
-----------------------------------------------------------------------------
(***************************************************************************)
(* What the code and its comments disagree about.                          *)
(*                                                                         *)
(* A get_deposits whose callback fails aborts the contract, so a player    *)
(* that goes on has the functionality's output ("There is nothing better   *)
(* to do than abort", player/trusted/core.c:227; line 232 returns 0).      *)
(***************************************************************************)
OutputKept ==
    \A p \in Players : plState[p] = "GOT_DEPOSITS" => output[p]
=============================================================================
