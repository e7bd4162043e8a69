----------------------- MODULE AuntieRefinementProofs -----------------------
(***************************************************************************)
(* The enclaves implement the abstract contract: every step of the         *)
(* operator, a player, a host or the chain is one of Contract's steps or   *)
(* leaves its variables alone.                                             *)
(***************************************************************************)
EXTENDS AuntieSafetyProofs

USE DEF Operator, NoHash

(***************************************************************************)
(* The abstract variables, as Contract is instantiated in Auntie.          *)
(***************************************************************************)
Consenting == {p \in Players : settlementHash[p] # NoHash /\ ~ advice[p]}
Reclaimed  == {x \in Parties : depositKeyOut[x]}
Paid       == {p \in Players : payoutOut[p]}

LEMMA ContractSets == Promise!Players = Players /\ Promise!Parties = Parties
  BY DEF Promise!Players, Promise!Parties, Players, Parties

LEMMA InitRefines == Init => Promise!Init
  BY ContractSets
  DEF Init, PartiesInit, OperatorInit, PlayerInit, ChainInit, Promise!Init

(***************************************************************************)
(* Nothing abstract changes when these do not.                             *)
(***************************************************************************)
LEMMA Stutters ==
    ASSUME coin' = coin, Consenting' = Consenting,
           (opState = "FINALIZED") <=> (opState' = "FINALIZED"),
           settlementOut' = settlementOut, Reclaimed' = Reclaimed, Paid' = Paid
    PROVE  UNCHANGED Promise!vars
  BY DEF Promise!vars, Consenting, Reclaimed, Paid

LEMMA OperatorRefines ==
    ASSUME Consistent, ByOperator(OperatorNext)
    PROVE  [Promise!Next]_Promise!vars
<1>0. TypeOK /\ OneSettlement /\ OperatorsSecrets /\ HonestMessages
  BY DEF Consistent
<1>1. /\ coin' = coin /\ Consenting' = Consenting /\ Paid' = Paid
      /\ \A p \in Players : depositKeyOut'[p] = depositKeyOut[p]
  BY <1>0, OperatorFrame DEF plVars, chainVars, Consenting, Paid
<1>2. CASE OpRefund
  <2>1. /\ opState # "FINALIZED" /\ opState' # "FINALIZED"
        /\ settlementOut' = settlementOut
        /\ depositKeyOut' = depositKeyOut \/ depositKeyOut' = [depositKeyOut EXCEPT ![Operator] = TRUE]
    BY <1>2 DEF OpRefund, OpRefundAllowed
  <2>2. CASE depositKeyOut' = depositKeyOut
    BY <1>1, <2>1, <2>2, Stutters DEF Reclaimed
  <2>3. CASE depositKeyOut' = [depositKeyOut EXCEPT ![Operator] = TRUE]
    <3>1. Reclaimed' = Reclaimed \cup {Operator}
      BY <1>0, <2>3, PartiesFacts DEF Reclaimed, TypeOK, PartiesTypeOK
    <3>2. Promise!Reclaim(Operator)
      BY <1>1, <2>1, <3>1 DEF Promise!Reclaim, Consenting, Reclaimed, Paid
    <3> QED  BY <3>2, ContractSets, PartiesFacts DEF Promise!Next
  <2> QED  BY <2>1, <2>2, <2>3
<1>3. CASE OpAuthorize
  <2>1. /\ opState = "CLEARED_CONTRACT" /\ unauthorized = 1
        /\ depositKeyOut' = depositKeyOut /\ Reclaimed' = Reclaimed
    BY <1>0, <1>3 DEF OpAuthorize, OneSettlement, FinalizePcs, Reclaimed
  <2>2. CASE opState' = "FINALIZED"
    <3>1. Consenting = Players
      BY <1>0, <1>3, <2>1, <2>2
      DEF OpAuthorize, AllSigned, HonestMessages, Consented, Consenting
    <3>2. Operator \notin Reclaimed
      BY <1>0, <2>1 DEF OperatorsSecrets, Reclaimed
    <3>3. (settlementOut' # NoHash) \in BOOLEAN
      OBVIOUS
    <3>4. Promise!Commit
      BY <1>1, <2>1, <2>2, <3>1, <3>2, <3>3, ContractSets
      DEF Promise!Commit, Consenting, Reclaimed, Paid
    <3> QED  BY <3>4 DEF Promise!Next
  <2>3. CASE opState' # "FINALIZED"
    <3>1. settlementOut' = settlementOut
      BY <1>3, <2>3 DEF OpAuthorize
    <3> QED  BY <1>1, <2>1, <2>3, <3>1, Stutters
  <2> QED  BY <2>2, <2>3
<1>4. CASE ~ OpRefund /\ ~ OpAuthorize
  <2>1. settlementOut' = settlementOut /\ depositKeyOut' = depositKeyOut
    BY <1>4
    DEF ByOperator, OperatorNext, OpCalls, OpInitialize, OpClearContract,
        OpFinalize, OpRefundFaults, partyVars, OpProceeds, OpCollect, OpEvaluate,
        OpSend, OpOutputDeposits, OpGather, OpFails, OpClearFails, OpSendFails,
        ClearAborts, OpEvaluateFaults, OpFinalizeFails, OpAuthorizeFails
  <2>2. (opState = "FINALIZED") <=> (opState' = "FINALIZED")
    BY <1>0, <1>4
    DEF OneSettlement, ClearPcs, FinalizePcs, ByOperator, OperatorNext, OpCalls,
        OpInitialize, OpClearContract, OpFinalize, OpRefundFaults, opVars,
        OpProceeds, OpCollect, OpEvaluate, OpSend, OpOutputDeposits, OpGather,
        OpFails, OpClearFails, OpSendFails, ClearAborts, OpEvaluateFaults, OpFinalizeFails,
        OpAuthorizeFails
  <2> QED  BY <1>1, <2>1, <2>2, Stutters DEF Reclaimed
<1> QED  BY <1>2, <1>3, <1>4

LEMMA PlayerRefines ==
    ASSUME Consistent, NEW p \in Players, ByPlayer(PlayerNext(p))
    PROVE  [Promise!Next]_Promise!vars
<1>0. TypeOK /\ PlayersKnowledge /\ ChainAgrees
  BY DEF Consistent
<1>a. /\ depositKeyOut \in [Parties -> BOOLEAN]
      /\ payoutOut \in [Players -> BOOLEAN]
      /\ advice \in [Players -> BOOLEAN]
      /\ settlementHash \in [Players -> Nat]
      /\ p \in Parties /\ p # Operator
  BY <1>0, PartiesFacts, NumPlayersAssumption
  DEF TypeOK, PartiesTypeOK, PlayerTypeOK, Players
<1>1. coin' = coin /\ opState' = opState /\ settlementOut' = settlementOut
  BY <1>0, PlayerFrame DEF opVars, chainVars
<1>2. CASE PlRefund(p)
  <2>1. Consenting' = Consenting /\ Paid' = Paid
    BY <1>2 DEF PlRefund, Consenting, Paid
  <2>2. CASE depositKeyOut' = depositKeyOut
    BY <1>1, <2>1, <2>2, Stutters DEF Reclaimed
  <2>3. CASE depositKeyOut' = [depositKeyOut EXCEPT ![p] = TRUE]
    <3>1. Reclaimed' = Reclaimed \cup {p}
      BY <1>a, <2>3 DEF Reclaimed
    <3>2. Promise!Reclaim(p)
      BY <1>a, <1>1, <2>1, <3>1 DEF Promise!Reclaim, Consenting, Reclaimed, Paid
    <3> QED  BY <1>a, <3>2, ContractSets DEF Promise!Next
  <2> QED  BY <1>2, <2>2, <2>3 DEF PlRefund
<1>3. CASE PlSettle(p)
  <2>1. Consenting' = Consenting /\ Reclaimed' = Reclaimed
    BY <1>3 DEF PlSettle, Consenting, Reclaimed
  <2>2. CASE payoutOut' = payoutOut
    BY <1>1, <2>1, <2>2, Stutters DEF Paid
  <2>3. CASE payoutOut' = [payoutOut EXCEPT ![p] = TRUE]
    <3>1. Paid' = Paid \cup {p}
      BY <1>a, <2>3 DEF Paid
    <3>2. \A x \in Parties : coin[x] = "settled"
      BY <1>0, <1>3, BuriedSettlement DEF ChainAgrees
    <3>3. Promise!Pay(p)
      BY <1>1, <2>1, <3>1, <3>2, ContractSets
      DEF Promise!Pay, Consenting, Reclaimed, Paid
    <3> QED  BY <3>3, ContractSets DEF Promise!Next
  <2> QED  BY <1>3, <2>2, <2>3 DEF PlSettle
<1>4. CASE PlConfirmDeposits(p)
  <2>1. Consenting' = Consenting \cup {p}
    BY <1>0, <1>a, <1>4 DEF PlConfirmDeposits, PlayersKnowledge, Consenting
  <2>2. Reclaimed' = Reclaimed /\ Paid' = Paid
    BY <1>4 DEF PlConfirmDeposits, Reclaimed, Paid
  <2>3. Promise!Consent(p)
    BY <1>1, <2>1, <2>2 DEF Promise!Consent, Consenting, Reclaimed, Paid
  <2> QED  BY <2>3, ContractSets DEF Promise!Next
<1>5. CASE ~ PlRefund(p) /\ ~ PlSettle(p) /\ ~ PlConfirmDeposits(p)
  <2>1. depositKeyOut' = depositKeyOut /\ payoutOut' = payoutOut
    BY <1>5
    DEF ByPlayer, PlayerNext, PlCalls, PlInitialize, PlDepositAndInput,
        PlGetDeposits, PlRefundFaults, PlReceive, PlReceiveFails, partyVars
  <2>2. Consenting' = Consenting
    <3>1. CASE PlDepositAndInput(p)
      BY <1>0, <1>a, <3>1 DEF PlDepositAndInput, PlayersKnowledge, Consenting
    <3>2. CASE PlReceive(p)
      <4>1. advice' = advice /\ advice[p] /\ settlementHash[p] = NoHash
        BY <1>0, <3>2 DEF PlReceive, PlayersKnowledge
      <4>2. \A q \in Players \ {p} : settlementHash'[q] = settlementHash[q]
        BY <1>0, PlayerFrame
      <4> QED  BY <4>1, <4>2 DEF Consenting
    <3>3. CASE ~ PlDepositAndInput(p) /\ ~ PlReceive(p)
      BY <1>5, <3>3
      DEF ByPlayer, PlayerNext, PlCalls, PlInitialize, PlGetDeposits,
          PlRefundFaults, plVars, PlReceiveFails, Consenting
    <3> QED  BY <3>1, <3>2, <3>3
  <2> QED  BY <1>1, <2>1, <2>2, Stutters DEF Reclaimed, Paid
<1> QED  BY <1>2, <1>3, <1>4, <1>5

LEMMA ChainRefines ==
    ASSUME Consistent, ChainStep
    PROVE  [Promise!Next]_Promise!vars
<1>1. /\ Consenting' = Consenting /\ Reclaimed' = Reclaimed /\ Paid' = Paid
      /\ opState' = opState /\ settlementOut' = settlementOut
  BY DEF ChainStep, OnChain, partyVars, opVars, plVars, Consenting, Reclaimed, Paid
<1>2. ASSUME NEW x \in Parties, FundDeposit(x)
      PROVE  Promise!Next
  <2>1. Promise!Deposit(x)
    BY <1>1, <1>2 DEF FundDeposit, Promise!Deposit, Consenting, Reclaimed, Paid
  <2> QED  BY <2>1, ContractSets DEF Promise!Next
<1>3. ASSUME NEW x \in Parties, MineRefund(x)
      PROVE  Promise!Next
  <2>1. Promise!Refund(x)
    BY <1>1, <1>3 DEF MineRefund, Promise!Refund, Consenting, Reclaimed, Paid
  <2> QED  BY <2>1, ContractSets DEF Promise!Next
<1>4. CASE MineSettlement
  <2>1. Promise!Settle
    BY <1>1, <1>4, ContractSets
    DEF MineSettlement, Promise!Settle, Consenting, Reclaimed, Paid
  <2> QED  BY <2>1 DEF Promise!Next
<1>5. CASE NewBlock
  BY <1>1, <1>5, Stutters DEF NewBlock
<1> QED
  BY <1>2, <1>3, <1>4, <1>5 DEF ChainStep, OnChain, ChainNext

LEMMA NextRefines == Consistent /\ [Next]_vars => [Promise!Next]_Promise!vars
<1> SUFFICES ASSUME Consistent, [Next]_vars
             PROVE  [Promise!Next]_Promise!vars
  OBVIOUS
<1>1. CASE (\E x \in Parties : CrashStep(x)) \/ UNCHANGED vars
  <2>1. /\ coin' = coin /\ opState' = opState /\ settlementOut' = settlementOut
        /\ settlementHash' = settlementHash /\ advice' = advice
        /\ depositKeyOut' = depositKeyOut /\ payoutOut' = payoutOut
    BY <1>1 DEF CrashStep, vars, partyVars, opVars, plVars, chainVars
  <2> QED  BY <2>1, Stutters DEF Consenting, Reclaimed, Paid
<1> QED  BY <1>1, OperatorRefines, PlayerRefines, ChainRefines, NextCases

(***************************************************************************)
(* Auntie implements the abstract contract, for every number of players:   *)
(* settled together, consented to by all, payable only then, reclaimable   *)
(* by the operator only before it finalizes (both core.c and entry.c).     *)
(***************************************************************************)
THEOREM Implementation == Spec => ImplementsContract
<1>1. Spec => Promise!Spec
  BY InitRefines, NextRefines, AlwaysConsistent, PTL DEF Spec, Promise!Spec
<1> QED  BY <1>1 DEF ImplementsContract
=============================================================================
