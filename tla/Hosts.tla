------------------------------- MODULE Hosts --------------------------------
(***************************************************************************)
(* The contract as the hosts' shells drive it.  Whatever an enclave hands  *)
(* out reaches the world through a file that a command of the shell opens  *)
(* for writing, which empties it, before the enclave is asked; the         *)
(* callback writes to it, and it is closed when the call has returned.  A  *)
(* host pays into the address it finds in its file, and spends with the    *)
(* key or the settlement it finds in its file.                             *)
(*                                                                         *)
(* A host uses one file per command, and repeats commands as it likes:     *)
(* also one that has returned 0, which is refused and empties the file.    *)
(***************************************************************************)
EXTENDS Auntie

(***************************************************************************)
(* The commands whose files matter: they hold the deposit address, the     *)
(* deposit key, and what the contract was made for (the settlement for the *)
(* operator, the payout key and the output for a player).                  *)
(***************************************************************************)
Commands == {"initialize", "refund", "conclude"}

VARIABLES
    complete,  \* [Parties -> SUBSET Commands], files with all that belongs there
    returned   \* [Parties -> SUBSET Commands], what has returned 0 to the host

fileVars  == <<complete, returned>>
hostsVars == <<vars, fileVars>>

HostsInit ==
    /\ Init
    /\ complete = [x \in Parties |-> {}]
    /\ returned = [x \in Parties |-> {}]

ByParty(x, OpCall, PlCall) == IF x = Operator THEN ByOperator(OpCall) ELSE ByPlayer(PlCall)

AtPrompt(x) == IF x = Operator THEN OperatorReady ELSE PlayerReady(x)

Rewritten(x, command) == complete' = [complete EXCEPT ![x] = @ \cup {command}]
Emptied(x, command)   == complete' = [complete EXCEPT ![x] = @ \ {command}]
Returns0(x, command)  == returned' = [returned EXCEPT ![x] = @ \cup {command}]

(***************************************************************************)
(* How a file ends up when the callback has been given its contents: a     *)
(* full disk may show in fwrite, which the callback reports, or only in    *)
(* fclose, which nobody looks at.                                          *)
(***************************************************************************)
Output(x, command, handedOut) ==
    \/ handedOut /\ Rewritten(x, command)
    \/ (~ handedOut \/ "host_io" \in Faults) /\ Emptied(x, command)
-----------------------------------------------------------------------------
(***************************************************************************)
(* handle_initialize.  The address is handed out by the last step that can *)
(* fail.                                                                   *)
(***************************************************************************)
BeforeTheSecondWallet(x) == TRUE

AddressHandedOut(x) == wallet'[x]

HandleInitialize(x) ==
    /\ ByParty(x, OpInitialize, PlInitialize(x))
    /\ Output(x, "initialize", AddressHandedOut(x))
    /\ IF wallet'[x] THEN Returns0(x, "initialize") ELSE UNCHANGED returned

(***************************************************************************)
(* handle_refund.  Without a wallet the enclave faults, and the process    *)
(* exits with an empty file.                                               *)
(***************************************************************************)
HandleRefund(x) ==
    /\ ByParty(x, OpRefund, PlRefund(x))
    /\ \/ depositKeyOut'[x] /\ Rewritten(x, "refund")
       \/ "host_io" \in Faults /\ Emptied(x, "refund")
    /\ Returns0(x, "refund")

RefundFaults(x) ==
    /\ ByParty(x, OpRefundFaults, PlRefundFaults(x))
    /\ Emptied(x, "refund")
    /\ UNCHANGED returned

(***************************************************************************)
(* handle_settle.  What the callback reports is not what the call returns. *)
(***************************************************************************)
ReturnsTheCallback(handedOut) == handedOut

ReturnsInAnyCase(handedOut) == TRUE

HandleSettle(p) ==
    /\ ByPlayer(PlSettle(p))
    /\ Output(p, "conclude", payoutOut'[p])
    /\ IF tee'[p] = "up" /\ ReturnsInAnyCase(payoutOut'[p])
       THEN Returns0(p, "conclude") ELSE UNCHANGED returned

(***************************************************************************)
(* handle_finalize: the file is emptied when the call begins to wait for   *)
(* the players, and written when the settlement is authorized.             *)
(***************************************************************************)
HandleFinalize ==
    /\ ByOperator(OpFinalize)
    /\ Emptied(Operator, "conclude")
    /\ UNCHANGED returned

FinalizeReturns ==
    /\ ByOperator(OpAuthorize)
    /\ Output(Operator, "conclude", settlementOut' # NoHash)
    /\ IF opState' = "FINALIZED" /\ ReturnsInAnyCase(settlementOut' # NoHash)
       THEN Returns0(Operator, "conclude") ELSE UNCHANGED returned

(***************************************************************************)
(* A command that is refused, because of the state or because it is too    *)
(* early, or that fails for want of memory to export the key, has emptied  *)
(* its file all the same.                                                  *)
(***************************************************************************)
Accepts(x, command) ==
    CASE command = "initialize" ->
           IF x = Operator THEN opState = "UNINITIALIZED" ELSE plState[x] = "UNINITIALIZED"
      [] command = "refund" ->
           /\ IF x = Operator THEN OpRefundAllowed ELSE PlRefundAllowed(x)
           /\ BlocksSinceCheckpoint >= RefundDelay
      [] OTHER ->
           IF x = Operator THEN opState = "CLEARED_CONTRACT"
           ELSE /\ SettleAllowed(x)
                /\ AuthorizedAndBuried(settlementHash[x]) >= SettleDelay

CannotExport(x, command) ==
    /\ "call_error" \in Faults
    /\ wallet[x]
    /\ command = "refund" \/ (command = "conclude" /\ x # Operator)

Refused(x, command) ==
    /\ AtPrompt(x)
    /\ ~ Accepts(x, command) \/ CannotExport(x, command)
    /\ Emptied(x, command)
    /\ UNCHANGED <<vars, returned>>

(***************************************************************************)
(* The commands whose files do not matter here, and what an ECALL in       *)
(* progress does by itself.                                                *)
(***************************************************************************)
OtherOperatorStep ==
    ByOperator(\/ OpClearContract
               \/ OpCollect \/ OpEvaluate \/ OpSend \/ OpOutputDeposits \/ OpGather
               \/ OpFails)

OtherPlayerStep(p) ==
    ByPlayer(\/ PlDepositAndInput(p) \/ PlGetDeposits(p) \/ PlConfirmDeposits(p)
             \/ PlReceive(p) \/ PlReceiveFails(p))

(***************************************************************************)
(* What is paid, spent or broadcast comes from a file, which outlives the  *)
(* process that wrote it.                                                  *)
(***************************************************************************)
FundFromFile(x) == "initialize" \in complete[x] /\ OnChain(FundDeposit(x))
RefundFromFile(x) == "refund" \in complete[x] /\ OnChain(MineRefund(x))
SettleFromFile == "conclude" \in complete[Operator] /\ OnChain(MineSettlement)

HostsNext ==
    \/ \E x \in Parties : \/ HandleInitialize(x)
                          \/ HandleRefund(x)
                          \/ RefundFaults(x)
                          \/ \E command \in Commands : Refused(x, command)
    \/ \E p \in Players : HandleSettle(p)
    \/ HandleFinalize
    \/ FinalizeReturns
    \/ /\ \/ OtherOperatorStep
          \/ \E p \in Players : OtherPlayerStep(p)
          \/ \E x \in Parties : CrashStep(x) \/ FundFromFile(x) \/ RefundFromFile(x)
          \/ SettleFromFile
          \/ OnChain(NewBlock)
       /\ UNCHANGED fileVars

HostsSpec == HostsInit /\ [][HostsNext]_hostsVars

(***************************************************************************)
(* The fairness of Auntie, with files.  A host that is up asks for a       *)
(* refund until it finds a key in its file, which the disk will take       *)
(* sooner or later; if it empties the file over and over it still spends   *)
(* the deposit at some time when the key is there; and it asks for the     *)
(* settlement of its contract until that call has returned 0.              *)
(***************************************************************************)
RefundWrites(x) == HandleRefund(x) /\ "refund" \in complete'[x]

HostsFairness ==
    /\ WF_hostsVars(OnChain(NewBlock) /\ UNCHANGED fileVars)
    /\ WF_hostsVars(SettleFromFile /\ UNCHANGED fileVars)
    /\ \A x \in Parties : SF_hostsVars(RefundFromFile(x) /\ UNCHANGED fileVars)
    /\ \A x \in Parties : WF_hostsVars(RefundWrites(x))
    /\ WF_hostsVars(OtherOperatorStep /\ opPc # "idle" /\ UNCHANGED fileVars)
    /\ WF_hostsVars(FinalizeReturns)
    /\ \A p \in Players :
         /\ WF_hostsVars(ByPlayer(PlReceive(p) \/ PlReceiveFails(p)) /\ UNCHANGED fileVars)
         /\ WF_hostsVars(HandleSettle(p))

FairHosts == HostsSpec /\ HostsFairness
-----------------------------------------------------------------------------
(***************************************************************************)
(* An address that can be read from a file has a wallet behind it, so no   *)
(* deposit is paid to a wallet that a failing initialize released or a     *)
(* later call gave up (player core.c:47-56, operator likewise).            *)
(***************************************************************************)
AddressLive == \A x \in Parties : "initialize" \in complete[x] => wallet[x]

(***************************************************************************)
(* What a call returned tells its host the state of the enclave, which     *)
(* nothing else does: the contract is settled or final exactly if settle   *)
(* or finalize has returned 0, also when the callback failed (player       *)
(* core.c:319-322, operator core.c:401-404), and the wallet exists exactly *)
(* if initialize has.  A host that had to guess would repeat a call and    *)
(* empty its file.                                                         *)
(***************************************************************************)
Concluded(x) == IF x = Operator THEN opState = "FINALIZED" ELSE plState[x] = "SETTLED"

ReturnsTellTheState ==
    /\ complete \in [Parties -> SUBSET Commands]
    /\ \A x \in Parties : tee[x] = "up" =>
         /\ "initialize" \in returned[x] <=> wallet[x]
         /\ "conclude" \in returned[x] <=> Concluded(x)

(***************************************************************************)
(* What a host has left of a settle or finalize that returned 0 but whose  *)
(* file it failed to write or emptied afterwards is its own affair.        *)
(***************************************************************************)
OwnLoss(x) == "conclude" \in returned[x] /\ "conclude" \notin complete[x]

(***************************************************************************)
(* Through its files a player gets its deposit back, or the payout key and *)
(* the output, unless its own host goes down or loses that file, whatever  *)
(* commands are repeated, refused or interrupted on the way, and also when *)
(* the file of a refund could not be written at first: a refund can be     *)
(* asked for again (player entry.c:114-122).                               *)
(***************************************************************************)
PlayerFindsItsMoney ==
    \A p \in Players :
        coin[p] = "unspent" ~> \/ coin[p] = "refunded"
                               \/ coin[p] = "settled" /\ "conclude" \in complete[p]
                               \/ tee[p] # "up"
                               \/ OwnLoss(p)

(***************************************************************************)
(* The same for the operator's collateral.                                 *)
(***************************************************************************)
OperatorFindsItsMoney ==
    coin[Operator] = "unspent" ~> \/ coin[Operator] \in {"refunded", "settled"}
                                  \/ tee[Operator] # "up"
                                  \/ Forfeit
                                  \/ OwnLoss(Operator)
=============================================================================
