----------------------------- MODULE PlayerTEE -----------------------------
(***************************************************************************)
(* The players' enclaves: the state machine of player/trusted/entry.c and  *)
(* the ECALL bodies of player/trusted/core.c, one copy per player.         *)
(*                                                                         *)
(* get_deposits blocks on the operator's channel, so it is a call step and *)
(* a receive step; the other calls do not wait for a peer and are atomic.  *)
(***************************************************************************)
EXTENDS Zcash

VARIABLES
    plState,         \* [Players -> PlStates], entry.c: static enum state state
    plPc,            \* [Players -> {"idle", "receive"}]
    advice,          \* [Players -> BOOLEAN], deposit_advice is not NULL
    settlementHash,  \* [Players -> Nat], settlement_sighash, settlement_txid
    output           \* [Players -> BOOLEAN], functionality_output is not NULL

plVars == <<plState, plPc, advice, settlementHash, output>>

PlStates == {"UNINITIALIZED", "INITIALIZED", "DEPOSITED", "GOT_DEPOSITS",
             "CONFIRMED_DEPOSITS", "SETTLED", "REFUNDED", "ABORTED"}

PlayerTypeOK ==
    /\ plState \in [Players -> PlStates]
    /\ plPc \in [Players -> {"idle", "receive"}]
    /\ advice \in [Players -> BOOLEAN]
    /\ settlementHash \in [Players -> Nat]
    /\ output \in [Players -> BOOLEAN]

PlayerInit ==
    /\ plState = [p \in Players |-> "UNINITIALIZED"]
    /\ plPc = [p \in Players |-> "idle"]
    /\ advice = [p \in Players |-> FALSE]
    /\ settlementHash = [p \in Players |-> NoHash]
    /\ output = [p \in Players |-> FALSE]

PlayerReady(p) == tee[p] = "up" /\ plPc[p] = "idle"

(***************************************************************************)
(* ecall_initialize creates both wallets; a failure releases both again.   *)
(***************************************************************************)
PlInitialize(p) ==
    /\ PlayerReady(p)
    /\ plState[p] = "UNINITIALIZED"
    /\ \/ /\ wallet' = [wallet EXCEPT ![p] = TRUE]
          /\ plState' = [plState EXCEPT ![p] = "INITIALIZED"]
       \/ /\ Faults \cap {"call_error", "host_io"} # {}
          /\ wallet' = [wallet EXCEPT ![p] = FALSE]
          /\ UNCHANGED plState
    /\ UNCHANGED <<toOperator, toPlayer, tee, depositKeyOut, payoutOut,
                   settlementOut, plPc, advice, settlementHash, output>>

(***************************************************************************)
(* ecall_deposit_and_input creates the advice and sends it along with the  *)
(* deposit.  A failure, of the send too, releases the advice and aborts.   *)
(***************************************************************************)
RetryingAFailedSend(p) ==
    /\ PlayerReady(p)
    /\ plState[p] = "INITIALIZED"
    /\ \/ /\ Delivered(toOperator, p, DepositAndInput)
          /\ advice' = [advice EXCEPT ![p] = TRUE]
          /\ plState' = [plState EXCEPT ![p] = "DEPOSITED"]
       \/ /\ "call_error" \in Faults
          /\ MaybeDelivered(toOperator, p, DepositAndInput)
          /\ UNCHANGED <<plState, advice>>
    /\ UNCHANGED <<toPlayer, tee, wallet, depositKeyOut, payoutOut,
                   settlementOut, plPc, settlementHash, output>>

IgnoringAFailedSend(p) ==
    /\ PlayerReady(p)
    /\ plState[p] = "INITIALIZED"
    /\ \/ /\ Delivered(toOperator, p, DepositAndInput)
          /\ advice' = [advice EXCEPT ![p] = TRUE]
       \/ /\ "call_error" \in Faults
          /\ MaybeDelivered(toOperator, p, DepositAndInput)
          /\ UNCHANGED advice
    /\ plState' = [plState EXCEPT ![p] = "DEPOSITED"]
    /\ UNCHANGED <<toPlayer, tee, wallet, depositKeyOut, payoutOut,
                   settlementOut, plPc, settlementHash, output>>

PlDepositAndInput(p) ==
    /\ PlayerReady(p)
    /\ plState[p] = "INITIALIZED"
    /\ \/ /\ Delivered(toOperator, p, DepositAndInput)
          /\ advice' = [advice EXCEPT ![p] = TRUE]
          /\ plState' = [plState EXCEPT ![p] = "DEPOSITED"]
       \/ /\ "call_error" \in Faults
          /\ MaybeDelivered(toOperator, p, DepositAndInput)
          /\ plState' = [plState EXCEPT ![p] = "ABORTED"]
          /\ UNCHANGED advice
    /\ UNCHANGED <<toPlayer, tee, wallet, depositKeyOut, payoutOut,
                   settlementOut, plPc, settlementHash, output>>

(***************************************************************************)
(* ecall_get_deposits up to the receive it blocks in.                      *)
(***************************************************************************)
GettingDepositsTwice(p) ==
    /\ PlayerReady(p)
    /\ plState[p] \in {"DEPOSITED", "GOT_DEPOSITS"}
    /\ plPc' = [plPc EXCEPT ![p] = "receive"]
    /\ UNCHANGED <<partyVars, plState, advice, settlementHash, output>>

PlGetDeposits(p) ==
    /\ PlayerReady(p)
    /\ plState[p] = "DEPOSITED"
    /\ plPc' = [plPc EXCEPT ![p] = "receive"]
    /\ UNCHANGED <<partyVars, plState, advice, settlementHash, output>>

(***************************************************************************)
(* Receive CLEAR_CONTRACT, keep the settlement's hashes and the output,    *)
(* and show all deposits to the host.  A failure before the last of these  *)
(* callbacks frees the output and aborts; a failure of the last one frees  *)
(* the output and still returns 0.                                         *)
(***************************************************************************)
PlReceive(p) ==
    /\ tee[p] = "up"
    /\ plPc[p] = "receive"
    /\ toPlayer[p] # <<>>
    /\ toPlayer' = [toPlayer EXCEPT ![p] = Tail(@)]
    /\ plPc' = [plPc EXCEPT ![p] = "idle"]
    /\ IF Head(toPlayer[p]).type = "CLEAR_CONTRACT"
       THEN /\ settlementHash' =
                 [settlementHash EXCEPT ![p] = Head(toPlayer[p]).hash]
            /\ \/ /\ output' = [output EXCEPT ![p] = TRUE]
                  /\ plState' = [plState EXCEPT ![p] = "GOT_DEPOSITS"]
               \/ /\ Faults \cap {"call_error", "host_io"} # {}
                  /\ output' = [output EXCEPT ![p] = FALSE]
                  /\ plState' = [plState EXCEPT ![p] = "ABORTED"]
               \/ /\ "host_io" \in Faults
                  /\ output' = [output EXCEPT ![p] = FALSE]
                  /\ plState' = [plState EXCEPT ![p] = "GOT_DEPOSITS"]
       ELSE /\ plState' = [plState EXCEPT ![p] = "ABORTED"]
            /\ UNCHANGED <<settlementHash, output>>
    /\ UNCHANGED <<toOperator, tee, wallet, depositKeyOut, payoutOut,
                   settlementOut, advice>>

PlReceiveFails(p) ==
    /\ "call_error" \in Faults
    /\ tee[p] = "up"
    /\ plPc[p] = "receive"
    /\ plPc' = [plPc EXCEPT ![p] = "idle"]
    /\ plState' = [plState EXCEPT ![p] = "ABORTED"]
    /\ UNCHANGED <<partyVars, advice, settlementHash, output>>

(***************************************************************************)
(* ecall_confirm_deposits signs the settlement, gives up the advice, so it *)
(* never signs again, and sends the signature.                             *)
(***************************************************************************)
KeepingTheAdvice(p) ==
    /\ PlayerReady(p)
    /\ plState[p] = "GOT_DEPOSITS"
    /\ Delivered(toOperator, p, ConfirmDepositsMsg(settlementHash[p]))
    /\ plState' = [plState EXCEPT ![p] = "CONFIRMED_DEPOSITS"]
    /\ UNCHANGED <<toPlayer, tee, wallet, depositKeyOut, payoutOut,
                   settlementOut, plPc, advice, settlementHash, output>>

PlConfirmDeposits(p) ==
    /\ PlayerReady(p)
    /\ plState[p] = "GOT_DEPOSITS"
    /\ advice' = [advice EXCEPT ![p] = FALSE]
    /\ \/ /\ Delivered(toOperator, p, ConfirmDepositsMsg(settlementHash[p]))
          /\ plState' = [plState EXCEPT ![p] = "CONFIRMED_DEPOSITS"]
       \/ /\ "call_error" \in Faults
          /\ MaybeDelivered(toOperator, p, ConfirmDepositsMsg(settlementHash[p]))
          /\ plState' = [plState EXCEPT ![p] = "ABORTED"]
    /\ UNCHANGED <<toPlayer, tee, wallet, depositKeyOut, payoutOut,
                   settlementOut, plPc, settlementHash, output>>

(***************************************************************************)
(* ecall_settle, after CONFIRMED_DEPOSITS or after a refund, once the      *)
(* settlement is buried.  The host's word on the callback is ignored.      *)
(* Without an output the callback writes from a NULL pointer and takes the *)
(* host down before its file is flushed.                                   *)
(***************************************************************************)
SettleUnlessRefunded(p) == plState[p] = "CONFIRMED_DEPOSITS"

SettleAllowed(p) == plState[p] \in {"CONFIRMED_DEPOSITS", "REFUNDED"}

PlSettle(p) ==
    /\ PlayerReady(p)
    /\ SettleAllowed(p)
    /\ AuthorizedAndBuried(settlementHash[p]) >= SettleDelay
    /\ plState' = [plState EXCEPT ![p] = "SETTLED"]
    /\ IF output[p]
       THEN /\ \/ payoutOut' = [payoutOut EXCEPT ![p] = TRUE]
               \/ "host_io" \in Faults /\ UNCHANGED payoutOut
            /\ UNCHANGED tee
       ELSE /\ tee' = [tee EXCEPT ![p] = "gone"]
            /\ UNCHANGED payoutOut
    /\ UNCHANGED <<toOperator, toPlayer, wallet, depositKeyOut, settlementOut,
                   plPc, advice, settlementHash, output>>

(***************************************************************************)
(* ecall_refund, in every state but SETTLED.                               *)
(***************************************************************************)
NoSecondRefund(p) == plState[p] \notin {"SETTLED", "REFUNDED"}

PlRefundAllowed(p) == plState[p] # "SETTLED"

RefundForgettingTheContract(p) ==
    /\ PlayerReady(p)
    /\ PlRefundAllowed(p)
    /\ BlocksSinceCheckpoint >= RefundDelay
    /\ wallet[p]
    /\ plState' = [plState EXCEPT ![p] = "REFUNDED"]
    /\ depositKeyOut' = [depositKeyOut EXCEPT ![p] = TRUE]
    /\ settlementHash' = [settlementHash EXCEPT ![p] = NoHash]
    /\ UNCHANGED <<toOperator, toPlayer, tee, wallet, payoutOut, settlementOut,
                   plPc, advice, output>>

RefundReleasingTheWallet(p) ==
    /\ PlayerReady(p)
    /\ PlRefundAllowed(p)
    /\ BlocksSinceCheckpoint >= RefundDelay
    /\ wallet[p]
    /\ plState' = [plState EXCEPT ![p] = "REFUNDED"]
    /\ depositKeyOut' = [depositKeyOut EXCEPT ![p] = TRUE]
    /\ wallet' = [wallet EXCEPT ![p] = FALSE]
    /\ UNCHANGED <<toOperator, toPlayer, tee, payoutOut, settlementOut,
                   plPc, advice, settlementHash, output>>

PlRefund(p) ==
    /\ PlayerReady(p)
    /\ PlRefundAllowed(p)
    /\ BlocksSinceCheckpoint >= RefundDelay
    /\ wallet[p]
    /\ plState' = [plState EXCEPT ![p] = "REFUNDED"]
    /\ \/ depositKeyOut' = [depositKeyOut EXCEPT ![p] = TRUE]
       \/ "host_io" \in Faults /\ UNCHANGED depositKeyOut
    /\ UNCHANGED <<toOperator, toPlayer, tee, wallet, payoutOut, settlementOut,
                   plPc, advice, settlementHash, output>>

PlRefundFaults(p) ==
    /\ PlayerReady(p)
    /\ PlRefundAllowed(p)
    /\ BlocksSinceCheckpoint >= RefundDelay
    /\ ~ wallet[p]
    /\ tee' = [tee EXCEPT ![p] = "faulted"]
    /\ UNCHANGED <<toOperator, toPlayer, wallet, depositKeyOut, payoutOut,
                   settlementOut, plVars>>

PlCalls(p) == \/ PlInitialize(p) \/ PlDepositAndInput(p) \/ PlGetDeposits(p)
              \/ PlConfirmDeposits(p) \/ PlSettle(p)
              \/ PlRefund(p) \/ PlRefundFaults(p)

PlayerNext(p) == PlCalls(p) \/ PlReceive(p) \/ PlReceiveFails(p)
=============================================================================
