---------------------------- MODULE OperatorTEE ----------------------------
(***************************************************************************)
(* The operator's enclave: the state machine of operator/trusted/entry.c   *)
(* and the ECALL bodies of operator/trusted/core.c.                        *)
(*                                                                         *)
(* clear_contract and finalize block on the players' channels, so each is  *)
(* a sequence of steps: opPc is the place in the body, opIdx the player    *)
(* the current loop is at.  Nothing else of the operator's runs meanwhile. *)
(***************************************************************************)
EXTENDS Zcash

VARIABLES
    opState,        \* entry.c: static enum state state
    opPc,           \* "idle", or where the ECALL in progress is
    opIdx,          \* the loop index i of that ECALL, counted from 1
    issued,         \* settlements created so far: the next one's identity
    unauthorized,   \* core.c: unauthorized_settlement, NoHash when NULL
    opSignature,    \* core.c: operator_signature, the hash it signs
    signatures      \* the players' signatures finalize has gathered

opVars == <<opState, opPc, opIdx, issued, unauthorized, opSignature, signatures>>

OpStates == {"UNINITIALIZED", "INITIALIZED", "CLEARED_CONTRACT", "FINALIZED",
             "REFUNDED", "ABORTED"}
ClearPcs    == {"collect", "evaluate", "send", "output"}
FinalizePcs == {"gather", "authorize"}

OperatorTypeOK ==
    /\ opState \in OpStates
    /\ opPc \in {"idle"} \cup ClearPcs \cup FinalizePcs
    /\ opIdx \in Players
    /\ issued \in Nat
    /\ unauthorized \in Nat
    /\ opSignature \in Nat
    /\ signatures \in [Players -> Nat]

OperatorInit ==
    /\ opState = "UNINITIALIZED"
    /\ opPc = "idle"
    /\ opIdx = 1
    /\ issued = 0
    /\ unauthorized = NoHash
    /\ opSignature = NoHash
    /\ signatures = [p \in Players |-> NoHash]

OperatorReady == tee[Operator] = "up" /\ opPc = "idle"

(***************************************************************************)
(* ecall_initialize.  A failing step releases the wallet again and leaves  *)
(* the state, so the call can be repeated.                                 *)
(***************************************************************************)
OpInitialize ==
    /\ OperatorReady
    /\ opState = "UNINITIALIZED"
    /\ \/ /\ wallet' = [wallet EXCEPT ![Operator] = TRUE]
          /\ opState' = "INITIALIZED"
       \/ /\ Faults \cap {"call_error", "host_io"} # {}
          /\ wallet' = [wallet EXCEPT ![Operator] = FALSE]
          /\ UNCHANGED opState
    /\ UNCHANGED <<toOperator, toPlayer, tee, depositKeyOut, payoutOut,
                   settlementOut, opPc, opIdx, issued, unauthorized,
                   opSignature, signatures>>

(***************************************************************************)
(* ecall_clear_contract up to its receive loop: the payout address, the    *)
(* advice and the collateral are in order.  If they are not, the call      *)
(* fails as it does anywhere later, by OpClearFails.                       *)
(***************************************************************************)
OpClearContract ==
    /\ OperatorReady
    /\ opState = "INITIALIZED"
    /\ opPc' = "collect"
    /\ opIdx' = 1
    /\ UNCHANGED <<partyVars, opState, issued, unauthorized, opSignature,
                   signatures>>

(***************************************************************************)
(* One turn of a loop over the players: on to the next one, or on to what  *)
(* follows the loop.                                                       *)
(***************************************************************************)
OnePlayerTooFar(next) ==
    IF opIdx <= NumPlayers
    THEN opIdx' = opIdx + 1 /\ UNCHANGED opPc
    ELSE opIdx' = 1 /\ opPc' = next

OnePlayerShort(next) ==
    IF opIdx + 1 < NumPlayers
    THEN opIdx' = opIdx + 1 /\ UNCHANGED opPc
    ELSE opIdx' = 1 /\ opPc' = next

Advance(next) ==
    IF opIdx < NumPlayers
    THEN opIdx' = opIdx + 1 /\ UNCHANGED opPc
    ELSE opIdx' = 1 /\ opPc' = next

(***************************************************************************)
(* Receive DEPOSIT_AND_INPUT from the player the loop is at.  Any other    *)
(* type aborts the contract.                                               *)
(***************************************************************************)
OpCollect ==
    /\ tee[Operator] = "up"
    /\ opPc = "collect"
    /\ toOperator[opIdx] # <<>>
    /\ toOperator' = [toOperator EXCEPT ![opIdx] = Tail(@)]
    /\ IF Head(toOperator[opIdx]).type = "DEPOSIT_AND_INPUT"
       THEN Advance("evaluate") /\ UNCHANGED opState
       ELSE opPc' = "idle" /\ opState' = "ABORTED" /\ UNCHANGED opIdx
    /\ UNCHANGED <<toPlayer, tee, wallet, depositKeyOut, payoutOut, settlementOut,
                   issued, unauthorized, opSignature, signatures>>

(***************************************************************************)
(* Evaluate the functionality, create the settlement and hash it.          *)
(***************************************************************************)
OpEvaluate ==
    /\ tee[Operator] = "up"
    /\ opPc = "evaluate"
    /\ issued' = issued + 1
    /\ unauthorized' = issued + 1
    /\ opPc' = "send"
    /\ UNCHANGED <<partyVars, opState, opIdx, opSignature, signatures>>

(***************************************************************************)
(* Send CLEAR_CONTRACT with the settlement's hashes to the player the loop *)
(* is at.  A send that fails, delivered or not, is OpSendFails.            *)
(***************************************************************************)
OpSend ==
    /\ tee[Operator] = "up"
    /\ opPc = "send"
    /\ Delivered(toPlayer, opIdx, ClearContractMsg(unauthorized))
    /\ Advance("output")
    /\ UNCHANGED <<toOperator, tee, wallet, depositKeyOut, payoutOut,
                   settlementOut, opState, issued, unauthorized, opSignature,
                   signatures>>

(***************************************************************************)
(* Output the deposits to the host, then sign: the contract is cleared.    *)
(***************************************************************************)
OpOutputDeposits ==
    /\ tee[Operator] = "up"
    /\ opPc = "output"
    /\ opSignature' = unauthorized
    /\ opPc' = "idle"
    /\ opState' = "CLEARED_CONTRACT"
    /\ UNCHANGED <<partyVars, opIdx, issued, unauthorized, signatures>>

(***************************************************************************)
(* Any failure inside clear_contract: the cleanup releases the settlement  *)
(* and the entry aborts the contract.  Players served earlier in the send  *)
(* loop keep their message.                                                *)
(***************************************************************************)
ClearAborts ==
    /\ "call_error" \in Faults \/ ("host_io" \in Faults /\ opPc = "output")
    /\ tee[Operator] = "up"
    /\ unauthorized' = NoHash
    /\ opPc' = "idle"
    /\ opState' = "ABORTED"
    /\ UNCHANGED <<toOperator, tee, wallet, depositKeyOut, payoutOut,
                   settlementOut, opIdx, issued, opSignature, signatures>>

OpClearFails ==
    /\ opPc \in ClearPcs
    /\ ClearAborts
    /\ UNCHANGED toPlayer

(***************************************************************************)
(* When evaluate_functionality runs out of memory it frees its outputs and *)
(* leaves the pointers, and the cleanup frees them again: the allocator    *)
(* may notice and take the enclave down, and its host with it.             *)
(***************************************************************************)
OpEvaluateFaults ==
    /\ "call_error" \in Faults
    /\ tee[Operator] = "up"
    /\ opPc = "evaluate"
    /\ tee' = [tee EXCEPT ![Operator] = "gone"]
    /\ UNCHANGED <<toOperator, toPlayer, wallet, depositKeyOut, payoutOut,
                   settlementOut, opVars>>

OpSendFails ==
    /\ opPc = "send"
    /\ Delivered(toPlayer, opIdx, ClearContractMsg(unauthorized))
    /\ ClearAborts

(***************************************************************************)
(* ecall_finalize up to its receive loop.                                  *)
(***************************************************************************)
OpFinalize ==
    /\ OperatorReady
    /\ opState = "CLEARED_CONTRACT"
    /\ opPc' = "gather"
    /\ opIdx' = 1
    /\ UNCHANGED <<partyVars, opState, issued, unauthorized, opSignature,
                   signatures>>

(***************************************************************************)
(* Receive CONFIRM_DEPOSITS from the player the loop is at.                *)
(***************************************************************************)
OpGather ==
    /\ tee[Operator] = "up"
    /\ opPc = "gather"
    /\ toOperator[opIdx] # <<>>
    /\ toOperator' = [toOperator EXCEPT ![opIdx] = Tail(@)]
    /\ IF Head(toOperator[opIdx]).type = "CONFIRM_DEPOSITS"
       THEN /\ signatures' =
                 [signatures EXCEPT ![opIdx] = Head(toOperator[opIdx]).hash]
            /\ Advance("authorize")
            /\ UNCHANGED opState
       ELSE /\ opPc' = "idle"
            /\ opState' = "ABORTED"
            /\ UNCHANGED <<opIdx, signatures>>
    /\ UNCHANGED <<toPlayer, tee, wallet, depositKeyOut, payoutOut, settlementOut,
                   issued, unauthorized, opSignature>>

(***************************************************************************)
(* A receive of finalize fails.  The settlement stays allocated, but no    *)
(* state leads back to it.                                                 *)
(***************************************************************************)
OpFinalizeFails ==
    /\ "call_error" \in Faults
    /\ tee[Operator] = "up"
    /\ opPc = "gather"
    /\ opPc' = "idle"
    /\ opState' = "ABORTED"
    /\ UNCHANGED <<partyVars, opIdx, issued, unauthorized, opSignature, signatures>>

(***************************************************************************)
(* Apply all signatures, which consumes the unauthorized settlement, and   *)
(* hand the result to the host.  The host's word on that OCALL is ignored: *)
(* the contract is final even if the host lost the transaction.  A         *)
(* signature that does not verify aborts.                                  *)
(***************************************************************************)
AllSigned == /\ opSignature = unauthorized
             /\ \A p \in Players : signatures[p] = unauthorized

TrustingTheHost ==
    /\ tee[Operator] = "up"
    /\ opPc = "authorize"
    /\ unauthorized' = NoHash
    /\ opPc' = "idle"
    /\ \/ opState' = "FINALIZED" /\ settlementOut' = unauthorized
       \/ /\ "host_io" \in Faults
          /\ settlementOut' = unauthorized
          /\ opState' = "ABORTED"
    /\ UNCHANGED <<toOperator, toPlayer, tee, wallet, depositKeyOut, payoutOut,
                   opIdx, issued, opSignature, signatures>>

OpAuthorize ==
    /\ tee[Operator] = "up"
    /\ opPc = "authorize"
    /\ unauthorized' = NoHash
    /\ opPc' = "idle"
    /\ IF AllSigned
       THEN /\ opState' = "FINALIZED"
            /\ \/ settlementOut' = unauthorized
               \/ "host_io" \in Faults /\ UNCHANGED settlementOut
       ELSE opState' = "ABORTED" /\ UNCHANGED settlementOut
    /\ UNCHANGED <<toOperator, toPlayer, tee, wallet, depositKeyOut, payoutOut,
                   opIdx, issued, opSignature, signatures>>

(***************************************************************************)
(* The authorization or its export fails after the settlement is consumed. *)
(***************************************************************************)
OpAuthorizeFails ==
    /\ "call_error" \in Faults
    /\ tee[Operator] = "up"
    /\ opPc = "authorize"
    /\ unauthorized' = NoHash
    /\ opPc' = "idle"
    /\ opState' = "ABORTED"
    /\ UNCHANGED <<partyVars, opIdx, issued, opSignature, signatures>>

(***************************************************************************)
(* ecall_refund, in every state but FINALIZED.  The key is handed to the   *)
(* host, which may lose it and ask again.  Before initialize there is no   *)
(* wallet to take a key from, and the enclave dereferences NULL.           *)
(***************************************************************************)
RefundInEveryState  == TRUE
NoRefundOnceAborted == opState \notin {"FINALIZED", "ABORTED"}
NoRefundOnceCleared == opState \notin {"FINALIZED", "CLEARED_CONTRACT"}

OpRefundAllowed == opState # "FINALIZED"

OpRefund ==
    /\ OperatorReady
    /\ OpRefundAllowed
    /\ BlocksSinceCheckpoint >= RefundDelay
    /\ wallet[Operator]
    /\ opState' = "REFUNDED"
    /\ \/ depositKeyOut' = [depositKeyOut EXCEPT ![Operator] = TRUE]
       \/ "host_io" \in Faults /\ UNCHANGED depositKeyOut
    /\ UNCHANGED <<toOperator, toPlayer, tee, wallet, payoutOut, settlementOut,
                   opPc, opIdx, issued, unauthorized, opSignature, signatures>>

OpRefundFaults ==
    /\ OperatorReady
    /\ OpRefundAllowed
    /\ BlocksSinceCheckpoint >= RefundDelay
    /\ ~ wallet[Operator]
    /\ tee' = [tee EXCEPT ![Operator] = "faulted"]
    /\ UNCHANGED <<toOperator, toPlayer, wallet, depositKeyOut, payoutOut,
                   settlementOut, opVars>>

(***************************************************************************)
(* The operator's steps: the calls its host makes, the steps an ECALL in   *)
(* progress takes by itself, and the failures.                             *)
(***************************************************************************)
OpProceeds == \/ OpCollect \/ OpEvaluate \/ OpSend \/ OpOutputDeposits
              \/ OpGather \/ OpAuthorize
OpFails    == \/ OpClearFails \/ OpSendFails \/ OpEvaluateFaults
              \/ OpFinalizeFails \/ OpAuthorizeFails
OpCalls    == \/ OpInitialize \/ OpClearContract \/ OpFinalize
              \/ OpRefund \/ OpRefundFaults

OperatorNext == OpCalls \/ OpProceeds \/ OpFails
=============================================================================
