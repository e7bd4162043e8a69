------------------------- MODULE AuntieSafetyProofs -------------------------
(***************************************************************************)
(* Proofs about the whole contract, for every number of players, all       *)
(* delays and every combination of faults: its types, its inductive        *)
(* invariant, the invariant's preservation by every step and the safety    *)
(* properties that follow from it.                                         *)
(***************************************************************************)
EXTENDS AuntieInductive, SequenceTheorems, TLAPS

USE DEF Operator, NoHash

LEMMA PartiesFacts == /\ Operator \in Parties
                      /\ Players \subseteq Parties
                      /\ 1 \in Players
  BY NumPlayersAssumption DEF Parties, Players

LEMMA MessageTypes ==
    /\ DepositAndInput \in Message
    /\ \A h \in Nat : /\ ClearContractMsg(h) \in Message
                      /\ ConfirmDepositsMsg(h) \in Message
  BY DEF Message, DepositAndInput, ClearContractMsg, ConfirmDepositsMsg

LEMMA HeadMessage ==
    ASSUME NEW s \in Seq(Message), s # <<>>
    PROVE  Head(s) \in Message /\ Head(s).hash \in Nat /\ Tail(s) \in Seq(Message)
<1>1. Head(s) \in Message /\ Tail(s) \in Seq(Message)
  BY HeadTailProperties
<1> QED  BY <1>1 DEF Message

LEMMA AppendMessage ==
    ASSUME NEW s \in Seq(Message), NEW m \in Message
    PROVE  Append(s, m) \in Seq(Message)
  BY AppendProperties

LEMMA AdvanceType ==
    ASSUME OperatorTypeOK, NEW next, Advance(next)
    PROVE  opIdx' \in Players /\ opPc' \in {opPc, next}
  BY NumPlayersAssumption DEF OperatorTypeOK, Advance, Players

LEMMA TypeInit == Init => TypeOK
  BY PartiesFacts, DelayAssumption, NumPlayersAssumption
  DEF Init, TypeOK, PartiesInit, OperatorInit, PlayerInit, ChainInit,
      PartiesTypeOK, OperatorTypeOK, PlayerTypeOK, ChainTypeOK, OpStates,
      PlStates, CoinState, Players, Parties

LEMMA TypeOperator ==
    ASSUME TypeOK, ByOperator(OperatorNext)
    PROVE  TypeOK'
<1> USE DEF TypeOK, PartiesTypeOK, OperatorTypeOK
<1>0. PlayerTypeOK' /\ ChainTypeOK'
  BY DEF ByOperator, PlayerTypeOK, ChainTypeOK, plVars, chainVars
<1>1. CASE OpInitialize
  BY <1>0, <1>1, PartiesFacts DEF OpInitialize, OpStates
<1>2. CASE OpClearContract
  BY <1>0, <1>2, PartiesFacts DEF OpClearContract, OpStates, partyVars, ClearPcs
<1>3. CASE OpFinalize
  BY <1>0, <1>3, PartiesFacts DEF OpFinalize, OpStates, partyVars, FinalizePcs
<1>4. CASE OpRefund
  BY <1>0, <1>4, PartiesFacts DEF OpRefund, OpStates
<1>5. CASE OpRefundFaults
  BY <1>0, <1>5, PartiesFacts DEF OpRefundFaults, opVars
<1>6. CASE OpCollect
  BY <1>0, <1>6, AdvanceType DEF OpCollect, OpStates, ClearPcs
<1>7. CASE OpEvaluate
  BY <1>0, <1>7 DEF OpEvaluate, partyVars, ClearPcs
<1>8. CASE OpSend
  BY <1>0, <1>8, AdvanceType, MessageTypes DEF OpSend, Delivered, ClearPcs
<1>9. CASE OpOutputDeposits
  BY <1>0, <1>9 DEF OpOutputDeposits, partyVars, OpStates
<1>10. CASE OpGather
  <2>1. Head(toOperator[opIdx]).hash \in Nat
    BY <1>10, HeadMessage DEF OpGather
  <2> QED  BY <1>0, <1>10, <2>1, AdvanceType DEF OpGather, OpStates, FinalizePcs
<1>11. CASE OpAuthorize
  BY <1>0, <1>11 DEF OpAuthorize, OpStates
<1>12. CASE OpClearFails
  BY <1>0, <1>12 DEF OpClearFails, ClearAborts, OpStates
<1>13. CASE OpSendFails
  BY <1>0, <1>13, MessageTypes DEF OpSendFails, ClearAborts, Delivered, OpStates
<1>14. CASE OpFinalizeFails
  BY <1>0, <1>14 DEF OpFinalizeFails, partyVars, OpStates
<1>15. CASE OpAuthorizeFails
  BY <1>0, <1>15 DEF OpAuthorizeFails, partyVars, OpStates
<1>16. CASE OpEvaluateFaults
  BY <1>0, <1>16, PartiesFacts DEF OpEvaluateFaults, opVars
<1> QED
  BY <1>1, <1>2, <1>3, <1>4, <1>5, <1>6, <1>7, <1>8, <1>9, <1>10, <1>11,
     <1>12, <1>13, <1>14, <1>15, <1>16
  DEF ByOperator, OperatorNext, OpCalls, OpProceeds, OpFails

LEMMA TypePlayer ==
    ASSUME TypeOK, NEW p \in Players, ByPlayer(PlayerNext(p))
    PROVE  TypeOK'
<1> USE DEF TypeOK, PartiesTypeOK, PlayerTypeOK
<1>0. OperatorTypeOK' /\ ChainTypeOK'
  BY DEF ByPlayer, OperatorTypeOK, ChainTypeOK, opVars, chainVars
<1>1. CASE PlInitialize(p)
  BY <1>0, <1>1, PartiesFacts DEF PlInitialize, PlStates
<1>2. CASE PlDepositAndInput(p)
  <2>1. toOperator' \in [Players -> Seq(Message)]
    <3>1. Append(toOperator[p], DepositAndInput) \in Seq(Message)
      BY MessageTypes, AppendMessage
    <3> QED  BY <1>2, <3>1 DEF PlDepositAndInput, Delivered, MaybeDelivered
  <2> QED  BY <1>0, <1>2, <2>1 DEF PlDepositAndInput, PlStates
<1>3. CASE PlGetDeposits(p)
  BY <1>0, <1>3 DEF PlGetDeposits, partyVars
<1>4. CASE PlConfirmDeposits(p)
  <2>1. toOperator' \in [Players -> Seq(Message)]
    <3>1. Append(toOperator[p], ConfirmDepositsMsg(settlementHash[p])) \in Seq(Message)
      BY MessageTypes, AppendMessage
    <3> QED  BY <1>4, <3>1 DEF PlConfirmDeposits, Delivered, MaybeDelivered
  <2> QED  BY <1>0, <1>4, <2>1 DEF PlConfirmDeposits, PlStates
<1>5. CASE PlSettle(p)
  BY <1>0, <1>5, PartiesFacts DEF PlSettle, PlStates
<1>6. CASE PlRefund(p)
  BY <1>0, <1>6, PartiesFacts DEF PlRefund, PlStates
<1>7. CASE PlRefundFaults(p)
  BY <1>0, <1>7, PartiesFacts DEF PlRefundFaults, plVars
<1>8. CASE PlReceive(p)
  <2>1. Head(toPlayer[p]).hash \in Nat
    BY <1>8, HeadMessage DEF PlReceive
  <2>2. toPlayer' \in [Players -> Seq(Message)]
    BY <1>8, HeadMessage DEF PlReceive
  <2>3. /\ plState' \in [Players -> PlStates]
        /\ plPc' \in [Players -> {"idle", "receive"}]
        /\ advice' \in [Players -> BOOLEAN]
        /\ settlementHash' \in [Players -> Nat]
        /\ output' \in [Players -> BOOLEAN]
    BY <1>8, <2>1 DEF PlReceive, PlStates
  <2> QED  BY <1>0, <1>8, <2>2, <2>3 DEF PlReceive
<1>9. CASE PlReceiveFails(p)
  BY <1>0, <1>9 DEF PlReceiveFails, partyVars, PlStates
<1> QED
  BY <1>1, <1>2, <1>3, <1>4, <1>5, <1>6, <1>7, <1>8, <1>9
  DEF ByPlayer, PlayerNext, PlCalls

LEMMA TypeOther ==
    ASSUME TypeOK
    PROVE  /\ \A x \in Parties : CrashStep(x) => TypeOK'
           /\ ChainStep => TypeOK'
           /\ UNCHANGED vars => TypeOK'
<1> USE DEF TypeOK, PartiesTypeOK, ChainTypeOK, OperatorTypeOK, PlayerTypeOK,
            partyVars, opVars, plVars, chainVars
<1>1. ASSUME NEW x \in Parties, CrashStep(x) PROVE TypeOK'
  BY <1>1 DEF CrashStep, Crash
<1>2. ASSUME ChainStep PROVE TypeOK'
  <2>1. Grow => height' \in 0..SettleDelay /\ burial' \in 0..SettleDelay
    BY DelayAssumption DEF Grow, Saturate
  <2> QED
    BY <1>2, <2>1 DEF ChainStep, OnChain, ChainNext, FundDeposit, MineRefund,
                      NewBlock, MineSettlement, CoinState
<1>3. ASSUME UNCHANGED vars PROVE TypeOK'
  BY <1>3 DEF vars
<1> QED  BY <1>1, <1>2, <1>3

LEMMA TypeNext == TypeOK /\ [Next]_vars => TypeOK'
  BY TypeOperator, TypePlayer, TypeOther DEF Next, OperatorStep, PlayerStep

(***************************************************************************)
(* The variables keep their types in every run of the contract, whatever   *)
(* the number of players (entry.c's enum state of both enclaves, the loop  *)
(* index of core.c's loops over the players).                              *)
(***************************************************************************)
THEOREM TypeCorrect == Spec => []TypeOK
  BY TypeInit, TypeNext, PTL DEF Spec
-----------------------------------------------------------------------------

LEMMA InFlightEmpty == InFlight(<<>>) = {}
  BY DEF InFlight

LEMMA InFlightAppend ==
    ASSUME NEW s \in Seq(Message), NEW m \in Message
    PROVE  InFlight(Append(s, m)) = InFlight(s) \cup {m}
<1>1. /\ DOMAIN Append(s, m) = 1 .. (Len(s) + 1)
      /\ \A i \in 1 .. Len(s) : Append(s, m)[i] = s[i]
      /\ Append(s, m)[Len(s) + 1] = m
      /\ DOMAIN s = 1 .. Len(s)
      /\ Len(s) \in Nat
  BY AppendProperties, LenProperties
<1> QED  BY <1>1 DEF InFlight

LEMMA InFlightHeadTail ==
    ASSUME NEW s \in Seq(Message), s # <<>>
    PROVE  /\ Head(s) \in InFlight(s)
           /\ InFlight(Tail(s)) \subseteq InFlight(s)
<1>1. /\ Len(s) \in Nat
      /\ Len(s) # 0
      /\ DOMAIN s = 1 .. Len(s)
      /\ Head(s) = s[1]
      /\ DOMAIN Tail(s) = 1 .. (Len(s) - 1)
      /\ \A i \in 1 .. (Len(s) - 1) : Tail(s)[i] = s[i + 1]
  BY HeadTailProperties, LenProperties, EmptySeq
<1> QED  BY <1>1 DEF InFlight

-----------------------------------------------------------------------------
(***************************************************************************)
(* The steps of each part leave the variables of the other parts alone.    *)
(***************************************************************************)
LEMMA NextCases ==
    ASSUME [Next]_vars
    PROVE  \/ ByOperator(OperatorNext)
           \/ \E p \in Players : ByPlayer(PlayerNext(p))
           \/ \E x \in Parties : CrashStep(x)
           \/ ChainStep
           \/ UNCHANGED vars
  BY DEF Next, OperatorStep, PlayerStep

LEMMA ConsistentInit == Init => Consistent
<1> SUFFICES ASSUME Init PROVE Consistent
  OBVIOUS
<1>1. \A p \in Players : InFlight(toPlayer[p]) = {} /\ InFlight(toOperator[p]) = {}
  BY InFlightEmpty DEF Init, PartiesInit
<1>2. OneSettlement /\ OperatorsSecrets /\ WalletsLive /\ PlayersKnowledge /\ ChainAgrees
  BY PartiesFacts
  DEF Init, PartiesInit, OperatorInit, PlayerInit, ChainInit, OneSettlement,
      OperatorsSecrets, WalletsLive, PlayersKnowledge, ChainAgrees, ClearPcs,
      FinalizePcs
<1>3. HonestMessages
  BY <1>1 DEF HonestMessages, Init, OperatorInit
<1>4. OneDeposit
  BY <1>1
  DEF OneDeposit, DepositFirst, Collected, Init, PartiesInit, OperatorInit, PlayerInit
<1> QED  BY <1>2, <1>3, <1>4, TypeInit DEF Consistent

(***************************************************************************)
(* OneSettlement speaks of the operator's variables only.                  *)
(***************************************************************************)
LEMMA OneSettlementStep ==
    ASSUME Consistent, [Next]_vars
    PROVE  OneSettlement'
<1> USE DEF OneSettlement, ClearPcs, FinalizePcs
<1>0. OneSettlement /\ OperatorTypeOK
  BY DEF Consistent, TypeOK
<1>1. CASE UNCHANGED opVars
  BY <1>0, <1>1 DEF opVars
<1>2. CASE ByOperator(OperatorNext)
  <2>1. CASE OpInitialize
    BY <1>0, <2>1 DEF OpInitialize, OperatorReady
  <2>2. CASE OpClearContract
    BY <1>0, <2>2 DEF OpClearContract, OperatorReady
  <2>3. CASE OpFinalize
    BY <1>0, <2>3 DEF OpFinalize, OperatorReady
  <2>4. CASE OpRefund
    BY <1>0, <2>4 DEF OpRefund, OperatorReady
  <2>5. CASE OpRefundFaults
    BY <1>0, <2>5 DEF OpRefundFaults, opVars
  <2>6. CASE OpCollect
    BY <1>0, <2>6, AdvanceType DEF OpCollect
  <2>7. CASE OpEvaluate
    BY <1>0, <2>7 DEF OpEvaluate
  <2>8. CASE OpSend
    BY <1>0, <2>8, AdvanceType DEF OpSend
  <2>9. CASE OpOutputDeposits
    BY <1>0, <2>9 DEF OpOutputDeposits
  <2>10. CASE OpGather
    BY <1>0, <2>10, AdvanceType DEF OpGather
  <2>11. CASE OpAuthorize
    BY <1>0, <2>11 DEF OpAuthorize
  <2>12. CASE OpClearFails
    BY <1>0, <2>12 DEF OpClearFails, ClearAborts
  <2>13. CASE OpSendFails
    BY <1>0, <2>13 DEF OpSendFails, ClearAborts
  <2>14. CASE OpFinalizeFails
    BY <1>0, <2>14 DEF OpFinalizeFails
  <2>15. CASE OpAuthorizeFails
    BY <1>0, <2>15 DEF OpAuthorizeFails
  <2>16. CASE OpEvaluateFaults
    BY <1>0, <2>16 DEF OpEvaluateFaults, opVars
  <2> QED
    BY <1>2, <2>1, <2>2, <2>3, <2>4, <2>5, <2>6, <2>7, <2>8, <2>9, <2>10,
       <2>11, <2>12, <2>13, <2>14, <2>15, <2>16
    DEF ByOperator, OperatorNext, OpCalls, OpProceeds, OpFails
<1> QED
  BY <1>1, <1>2, NextCases
  DEF ByPlayer, CrashStep, ChainStep, OnChain, vars

(***************************************************************************)
(* What a step of the operator leaves to the players, and what a step of a *)
(* player leaves to the operator and to the other players.                 *)
(***************************************************************************)
LEMMA OperatorFrame ==
    ASSUME TypeOK, ByOperator(OperatorNext)
    PROVE  /\ payoutOut' = payoutOut
           /\ \A p \in Players : /\ wallet'[p] = wallet[p]
                                 /\ tee'[p] = tee[p]
                                 /\ depositKeyOut'[p] = depositKeyOut[p]
           /\ UNCHANGED plVars /\ UNCHANGED chainVars
<1>1. \A p \in Players : p # Operator
  BY NumPlayersAssumption DEF Players
<1>2. UNCHANGED plVars /\ UNCHANGED chainVars
  BY DEF ByOperator
<1>3. CASE OpCalls
  <2>1. CASE OpInitialize
    BY <1>1, <1>2, <2>1, PartiesFacts DEF OpInitialize, TypeOK, PartiesTypeOK
  <2>2. CASE OpClearContract \/ OpFinalize
    BY <1>2, <2>2 DEF OpClearContract, OpFinalize, partyVars
  <2>3. CASE OpRefund
    BY <1>1, <1>2, <2>3, PartiesFacts DEF OpRefund, TypeOK, PartiesTypeOK
  <2>4. CASE OpRefundFaults
    BY <1>1, <1>2, <2>4, PartiesFacts DEF OpRefundFaults, TypeOK, PartiesTypeOK
  <2> QED  BY <1>3, <2>1, <2>2, <2>3, <2>4 DEF OpCalls
<1>4. CASE OpEvaluateFaults
  BY <1>1, <1>2, <1>4, PartiesFacts DEF OpEvaluateFaults, TypeOK, PartiesTypeOK
<1>5. CASE OpProceeds \/ OpFails
  BY <1>2, <1>4, <1>5
  DEF OpProceeds, OpCollect, OpEvaluate, OpSend, OpOutputDeposits, OpGather,
      OpAuthorize, OpFails, OpClearFails, OpSendFails, ClearAborts,
      OpFinalizeFails, OpAuthorizeFails, partyVars
<1> QED  BY <1>3, <1>4, <1>5 DEF ByOperator, OperatorNext

LEMMA PlayerFrame ==
    ASSUME TypeOK, NEW p \in Players, ByPlayer(PlayerNext(p))
    PROVE  /\ settlementOut' = settlementOut
           /\ \A x \in Parties \ {p} : /\ wallet'[x] = wallet[x]
                                       /\ tee'[x] = tee[x]
                                       /\ depositKeyOut'[x] = depositKeyOut[x]
           /\ \A q \in Players \ {p} : /\ toOperator'[q] = toOperator[q]
                                       /\ toPlayer'[q] = toPlayer[q]
                                       /\ payoutOut'[q] = payoutOut[q]
                                       /\ plState'[q] = plState[q]
                                       /\ plPc'[q] = plPc[q]
                                       /\ advice'[q] = advice[q]
                                       /\ settlementHash'[q] = settlementHash[q]
           /\ UNCHANGED opVars /\ UNCHANGED chainVars
<1> USE DEF TypeOK, PartiesTypeOK, PlayerTypeOK
<1>0. UNCHANGED opVars /\ UNCHANGED chainVars
  BY DEF ByPlayer
<1>1. CASE PlInitialize(p)
  BY <1>0, <1>1 DEF PlInitialize
<1>2. CASE PlDepositAndInput(p)
  BY <1>0, <1>2 DEF PlDepositAndInput, Delivered, MaybeDelivered
<1>3. CASE PlGetDeposits(p)
  BY <1>0, <1>3 DEF PlGetDeposits, partyVars
<1>4. CASE PlConfirmDeposits(p)
  BY <1>0, <1>4 DEF PlConfirmDeposits, Delivered, MaybeDelivered
<1>5. CASE PlSettle(p)
  BY <1>0, <1>5 DEF PlSettle
<1>6. CASE PlRefund(p)
  BY <1>0, <1>6 DEF PlRefund
<1>7. CASE PlRefundFaults(p)
  BY <1>0, <1>7 DEF PlRefundFaults, plVars
<1>8. CASE PlReceive(p)
  BY <1>0, <1>8 DEF PlReceive
<1>9. CASE PlReceiveFails(p)
  BY <1>0, <1>9 DEF PlReceiveFails, partyVars
<1> QED
  BY <1>1, <1>2, <1>3, <1>4, <1>5, <1>6, <1>7, <1>8, <1>9
  DEF ByPlayer, PlayerNext, PlCalls

(***************************************************************************)
(* The settlement leaves the enclave in OpAuthorize, the collateral's key  *)
(* in OpRefund; neither is possible after the other.                       *)
(***************************************************************************)
LEMMA OperatorsSecretsStep ==
    ASSUME Consistent, [Next]_vars
    PROVE  OperatorsSecrets'
<1> USE DEF OperatorsSecrets, ClearPcs, FinalizePcs
<1>0. OperatorsSecrets /\ OneSettlement /\ TypeOK
  BY DEF Consistent
<1>a. /\ opPc \in ClearPcs => opState = "INITIALIZED"
      /\ opPc \in FinalizePcs => opState = "CLEARED_CONTRACT"
      /\ opState = "CLEARED_CONTRACT" => unauthorized = 1
  BY <1>0 DEF OneSettlement
<1>b. ASSUME UNCHANGED opVars, settlementOut' = settlementOut,
             depositKeyOut'[Operator] = depositKeyOut[Operator]
      PROVE  OperatorsSecrets'
  BY <1>0, <1>b DEF opVars
<1>1. CASE ByOperator(OperatorNext)
  <2>1. CASE OpInitialize
    BY <1>0, <2>1 DEF OpInitialize, OperatorReady
  <2>2. CASE OpClearContract
    BY <1>0, <2>2 DEF OpClearContract, partyVars
  <2>3. CASE OpFinalize
    BY <1>0, <2>3 DEF OpFinalize, partyVars
  <2>4. CASE OpRefund
    BY <1>0, <2>4 DEF OpRefund, OpRefundAllowed
  <2>5. CASE OpRefundFaults
    BY <1>0, <2>5 DEF OpRefundFaults, opVars
  <2>6. CASE OpCollect
    BY <1>0, <1>a, <2>6 DEF OpCollect
  <2>7. CASE OpEvaluate
    BY <1>0, <2>7 DEF OpEvaluate, partyVars
  <2>8. CASE OpSend
    BY <1>0, <2>8 DEF OpSend
  <2>9. CASE OpOutputDeposits
    BY <1>0, <1>a, <2>9 DEF OpOutputDeposits, partyVars
  <2>10. CASE OpGather
    BY <1>0, <1>a, <2>10 DEF OpGather
  <2>11. CASE OpAuthorize
    BY <1>0, <1>a, <2>11 DEF OpAuthorize, AllSigned
  <2>12. CASE OpClearFails
    BY <1>0, <1>a, <2>12 DEF OpClearFails, ClearAborts
  <2>13. CASE OpSendFails
    BY <1>0, <1>a, <2>13 DEF OpSendFails, ClearAborts
  <2>14. CASE OpFinalizeFails
    BY <1>0, <1>a, <2>14 DEF OpFinalizeFails, partyVars
  <2>15. CASE OpAuthorizeFails
    BY <1>0, <1>a, <2>15 DEF OpAuthorizeFails, partyVars
  <2>16. CASE OpEvaluateFaults
    BY <1>0, <1>a, <2>16 DEF OpEvaluateFaults, opVars
  <2> QED
    BY <1>1, <2>1, <2>2, <2>3, <2>4, <2>5, <2>6, <2>7, <2>8, <2>9, <2>10,
       <2>11, <2>12, <2>13, <2>14, <2>15, <2>16
    DEF ByOperator, OperatorNext, OpCalls, OpProceeds, OpFails
<1>2. ASSUME NEW p \in Players, ByPlayer(PlayerNext(p))
      PROVE  OperatorsSecrets'
  <2>1. Operator \in Parties \ {p}
    BY PartiesFacts, NumPlayersAssumption DEF Players
  <2> QED  BY <1>0, <1>b, <1>2, <2>1, PlayerFrame
<1>3. ASSUME NEW x \in Parties, CrashStep(x)
      PROVE  OperatorsSecrets'
  BY <1>b, <1>3 DEF CrashStep
<1>4. CASE ChainStep \/ UNCHANGED vars
  BY <1>b, <1>4 DEF ChainStep, OnChain, vars, partyVars
<1> QED  BY <1>1, <1>2, <1>3, <1>4, NextCases

(***************************************************************************)
(* Wallets are created by initialize and live as long as their enclave.    *)
(***************************************************************************)
LEMMA WalletsLiveStep ==
    ASSUME Consistent, [Next]_vars
    PROVE  WalletsLive'
<1> USE DEF WalletsLive
<1>0. WalletsLive /\ TypeOK
  BY DEF Consistent
<1>a. /\ wallet \in [Parties -> BOOLEAN]
      /\ tee \in [Parties -> {"up", "faulted", "gone"}]
      /\ coin \in [Parties -> CoinState]
      /\ plState \in [Players -> PlStates]
  BY <1>0 DEF TypeOK, PartiesTypeOK, ChainTypeOK, PlayerTypeOK
<1>b. Parties = Players \cup {Operator} /\ Operator \notin Players
  BY NumPlayersAssumption DEF Parties, Players
<1>1. CASE ByOperator(OperatorNext)
  <2>0. /\ plState' = plState /\ coin' = coin
        /\ \A p \in Players : wallet'[p] = wallet[p] /\ tee'[p] = tee[p]
    BY <1>0, <1>1, OperatorFrame DEF plVars, chainVars
  <2>1. CASE OpInitialize
    BY <1>0, <1>a, <1>b, <2>0, <2>1 DEF OpInitialize, OperatorReady
  <2>2. CASE OpRefund
    BY <1>0, <2>0, <2>2 DEF OpRefund
  <2>3. CASE OpRefundFaults
    BY <1>0, <1>a, <1>b, <2>0, <2>3 DEF OpRefundFaults, opVars
  <2>4. CASE OpClearContract \/ OpFinalize
    BY <1>0, <2>0, <2>4 DEF OpClearContract, OpFinalize, partyVars
  <2>5. CASE OpProceeds \/ OpFails
    <3>0. tee' = tee \/ tee' = [tee EXCEPT ![Operator] = "gone"]
      BY <2>5
      DEF OpProceeds, OpCollect, OpEvaluate, OpSend, OpOutputDeposits, OpGather,
          OpAuthorize, OpFails, OpClearFails, OpSendFails, ClearAborts,
          OpEvaluateFaults, OpFinalizeFails, OpAuthorizeFails, partyVars
    <3>1. /\ wallet' = wallet
          /\ opState' \in {opState, "ABORTED", "CLEARED_CONTRACT", "FINALIZED"}
      BY <2>5
      DEF OpProceeds, OpCollect, OpEvaluate, OpSend, OpOutputDeposits, OpGather,
          OpAuthorize, OpFails, OpClearFails, OpSendFails, ClearAborts,
          OpEvaluateFaults, OpFinalizeFails, OpAuthorizeFails, opVars, partyVars
    <3>2. opPc # "idle" /\ opState # "UNINITIALIZED"
      BY <2>5
      DEF Consistent, OneSettlement, ClearPcs, FinalizePcs, OpProceeds, OpCollect,
          OpEvaluate, OpSend, OpOutputDeposits, OpGather, OpAuthorize, OpFails,
          OpClearFails, OpSendFails, OpEvaluateFaults, OpFinalizeFails, OpAuthorizeFails
    <3> QED  BY <1>0, <1>a, <1>b, <2>0, <3>0, <3>1, <3>2
  <2> QED
    BY <1>1, <2>1, <2>2, <2>3, <2>4, <2>5 DEF ByOperator, OperatorNext, OpCalls
<1>2. ASSUME NEW p \in Players, ByPlayer(PlayerNext(p))
      PROVE  WalletsLive'
  <2>0. /\ opState' = opState /\ coin' = coin
        /\ \A x \in Parties \ {p} : wallet'[x] = wallet[x] /\ tee'[x] = tee[x]
        /\ \A q \in Players \ {p} : plState'[q] = plState[q]
    BY <1>0, <1>2, PlayerFrame DEF opVars, chainVars
  <2>1. SUFFICES /\ wallet'[p] <=> plState'[p] # "UNINITIALIZED"
                 /\ coin[p] # "none" => wallet'[p]
                 /\ tee'[p] = "faulted" => ~ wallet'[p]
    BY <1>0, <1>b, <2>0
  <2>2. CASE PlInitialize(p)
    BY <1>0, <1>a, <1>b, <2>2 DEF PlInitialize, PlayerReady
  <2>3. CASE PlRefundFaults(p)
    BY <1>0, <1>a, <1>b, <2>3 DEF PlRefundFaults, plVars
  <2>4. CASE PlDepositAndInput(p)
    BY <1>0, <1>a, <1>b, <2>4 DEF PlDepositAndInput
  <2>5. CASE PlGetDeposits(p)
    BY <1>0, <1>b, <2>5 DEF PlGetDeposits, partyVars
  <2>6. CASE PlConfirmDeposits(p)
    BY <1>0, <1>a, <1>b, <2>6 DEF PlConfirmDeposits
  <2>7. CASE PlSettle(p)
    BY <1>0, <1>a, <1>b, <2>7 DEF PlSettle, SettleAllowed
  <2>8. CASE PlRefund(p)
    BY <1>0, <1>a, <1>b, <2>8 DEF PlRefund
  <2>9. CASE PlReceive(p) \/ PlReceiveFails(p)
    <3>1. plState[p] # "UNINITIALIZED"
      BY <2>9 DEF PlReceive, PlReceiveFails, Consistent, PlayersKnowledge
    <3> QED
      BY <1>0, <1>a, <1>b, <2>9, <3>1 DEF PlReceive, PlReceiveFails, partyVars
  <2> QED
    BY <1>2, <2>2, <2>3, <2>4, <2>5, <2>6, <2>7, <2>8, <2>9
    DEF ByPlayer, PlayerNext, PlCalls
<1>3. ASSUME NEW x \in Parties, CrashStep(x)
      PROVE  WalletsLive'
  BY <1>0, <1>a, <1>3 DEF CrashStep, Crash, opVars, plVars, chainVars
<1>4. CASE ChainStep
  <2>1. UNCHANGED <<partyVars, opVars, plVars>>
    BY <1>4 DEF ChainStep, OnChain
  <2>2. \A x \in Parties : coin'[x] # "none" => wallet[x]
    BY <1>0, <1>a, <1>4
    DEF ChainStep, OnChain, ChainNext, FundDeposit, NewBlock, MineSettlement,
        MineRefund
  <2> QED  BY <1>0, <2>1, <2>2 DEF partyVars, opVars, plVars
<1>5. CASE UNCHANGED vars
  BY <1>0, <1>5 DEF vars, partyVars, opVars, plVars, chainVars
<1> QED  BY <1>1, <1>2, <1>3, <1>4, <1>5, NextCases

(***************************************************************************)
(* The settlement counter only ever grows from 0 to 1.                     *)
(***************************************************************************)
LEMMA IssuedStays ==
    ASSUME Consistent, ByOperator(OperatorNext), issued = 1
    PROVE  issued' = 1
<1>1. OneSettlement
  BY DEF Consistent
<1>2. ~ OpEvaluate
  BY <1>1 DEF OpEvaluate, OneSettlement, ClearPcs
<1> QED
  BY <1>2
  DEF ByOperator, OperatorNext, OpCalls, OpInitialize, OpClearContract,
      OpFinalize, OpRefund, OpRefundFaults, opVars, OpProceeds, OpCollect,
      OpSend, OpOutputDeposits, OpGather, OpAuthorize, OpFails, OpClearFails,
      OpSendFails, ClearAborts, OpEvaluateFaults, OpFinalizeFails, OpAuthorizeFails

(***************************************************************************)
(* The message a player takes from its channel announces settlement 1.     *)
(***************************************************************************)
LEMMA ReceivedByPlayer ==
    ASSUME Consistent, NEW p \in Players, toPlayer[p] # <<>>
    PROVE  Head(toPlayer[p]) = ClearContractMsg(1) /\ issued = 1
<1>1. toPlayer[p] \in Seq(Message)
  BY DEF Consistent, TypeOK, PartiesTypeOK
<1>2. Head(toPlayer[p]) \in InFlight(toPlayer[p])
  BY <1>1, InFlightHeadTail
<1> QED  BY <1>2 DEF Consistent, HonestMessages

LEMMA PlayersKnowledgeStep ==
    ASSUME Consistent, [Next]_vars
    PROVE  PlayersKnowledge'
<1> USE DEF PlayersKnowledge
<1>0. PlayersKnowledge /\ TypeOK /\ OneSettlement
  BY DEF Consistent
<1>a. /\ plState \in [Players -> PlStates]
      /\ plPc \in [Players -> {"idle", "receive"}]
      /\ advice \in [Players -> BOOLEAN]
      /\ settlementHash \in [Players -> Nat]
  BY <1>0 DEF TypeOK, PlayerTypeOK
<1>b. ASSUME UNCHANGED plVars, issued = 1 => issued' = 1
      PROVE  PlayersKnowledge'
  BY <1>0, <1>b DEF plVars
<1>1. CASE ByOperator(OperatorNext)
  BY <1>b, <1>1, IssuedStays DEF ByOperator
<1>2. ASSUME NEW p \in Players, ByPlayer(PlayerNext(p))
      PROVE  PlayersKnowledge'
  <2> DEFINE Knows(q) ==
        /\ plPc[q] = "receive" => plState[q] = "DEPOSITED"
        /\ plState[q] \in {"UNINITIALIZED", "INITIALIZED"} =>
             settlementHash[q] = NoHash /\ ~ advice[q]
        /\ plState[q] = "DEPOSITED" => settlementHash[q] = NoHash /\ advice[q]
        /\ plState[q] = "GOT_DEPOSITS" => settlementHash[q] = 1 /\ advice[q]
        /\ settlementHash[q] # NoHash => settlementHash[q] = 1 /\ issued = 1
  <2>0. Knows(p)
    BY <1>0
  <2>1. SUFFICES Knows(p)'
    BY <1>0, <1>2, PlayerFrame DEF opVars
  <2> HIDE DEF PlayersKnowledge
  <2>2. issued' = issued
    BY <1>2 DEF ByPlayer, opVars
  <2>3. CASE PlInitialize(p)
    BY <1>a, <2>0, <2>2, <2>3 DEF PlInitialize, PlayerReady
  <2>4. CASE PlDepositAndInput(p)
    BY <1>a, <2>0, <2>2, <2>4 DEF PlDepositAndInput, PlayerReady
  <2>5. CASE PlGetDeposits(p)
    BY <1>a, <2>0, <2>2, <2>5 DEF PlGetDeposits
  <2>6. CASE PlConfirmDeposits(p)
    BY <1>a, <2>0, <2>2, <2>6 DEF PlConfirmDeposits, PlayerReady
  <2>7. CASE PlSettle(p)
    BY <1>a, <2>0, <2>2, <2>7 DEF PlSettle, SettleAllowed, PlayerReady
  <2>8. CASE PlRefund(p)
    BY <1>a, <2>0, <2>2, <2>8 DEF PlRefund, PlayerReady
  <2>9. CASE PlRefundFaults(p)
    BY <2>0, <2>2, <2>9 DEF PlRefundFaults, plVars
  <2>10. CASE PlReceive(p)
    <3>1. Head(toPlayer[p]).type = "CLEAR_CONTRACT" /\ Head(toPlayer[p]).hash = 1
      BY <2>10, ReceivedByPlayer DEF PlReceive, ClearContractMsg
    <3>2. issued = 1
      BY <2>10, ReceivedByPlayer DEF PlReceive
    <3> QED  BY <1>a, <2>0, <2>2, <2>10, <3>1, <3>2 DEF PlReceive
  <2>11. CASE PlReceiveFails(p)
    BY <1>a, <2>0, <2>2, <2>11 DEF PlReceiveFails
  <2> QED
    BY <1>2, <2>3, <2>4, <2>5, <2>6, <2>7, <2>8, <2>9, <2>10, <2>11
    DEF ByPlayer, PlayerNext, PlCalls
<1>3. CASE (\E x \in Parties : CrashStep(x)) \/ ChainStep \/ UNCHANGED vars
  BY <1>b, <1>3 DEF CrashStep, ChainStep, OnChain, vars, opVars
<1> QED  BY <1>1, <1>2, <1>3, NextCases

(***************************************************************************)
(* Consent is for good: a player that signed has given up its advice, and  *)
(* receives no other settlement.                                           *)
(***************************************************************************)
LEMMA ConsentStays ==
    ASSUME Consistent, [Next]_vars, NEW p \in Players, Consented(p, 1)
    PROVE  Consented(p, 1)'
<1> USE DEF Consented
<1>0. PlayersKnowledge /\ TypeOK
  BY DEF Consistent
<1>a. /\ plState \in [Players -> PlStates]
      /\ advice \in [Players -> BOOLEAN]
      /\ settlementHash \in [Players -> Nat]
  BY <1>0 DEF TypeOK, PlayerTypeOK
<1>1. CASE UNCHANGED plVars
  BY <1>1 DEF plVars
<1>2. ASSUME NEW q \in Players, ByPlayer(PlayerNext(q)), q # p
      PROVE  Consented(p, 1)'
  BY <1>0, <1>2, PlayerFrame
<1>3. CASE ByPlayer(PlayerNext(p))
  <2>1. CASE PlSettle(p) \/ PlRefund(p) \/ PlRefundFaults(p)
    BY <1>a, <2>1 DEF PlSettle, PlRefund, PlRefundFaults, plVars
  <2>2. plPc[p] # "receive"
    BY <1>0 DEF PlayersKnowledge
  <2> QED
    BY <1>3, <2>1, <2>2
    DEF ByPlayer, PlayerNext, PlCalls, PlInitialize, PlDepositAndInput,
        PlGetDeposits, PlConfirmDeposits, PlReceive, PlReceiveFails
<1> QED
  BY <1>1, <1>2, <1>3, NextCases
  DEF ByOperator, CrashStep, ChainStep, OnChain, vars

(***************************************************************************)
(* The three kinds of message facts: announcements, signatures in flight,  *)
(* signatures gathered.                                                    *)
(***************************************************************************)
LEMMA AnnouncementsStep ==
    ASSUME Consistent, [Next]_vars, NEW q \in Players, NEW m \in InFlight(toPlayer[q])'
    PROVE  m = ClearContractMsg(1) /\ issued' = 1
<1>0. HonestMessages /\ TypeOK /\ OneSettlement
  BY DEF Consistent
<1>a. toPlayer \in [Players -> Seq(Message)]
  BY <1>0 DEF TypeOK, PartiesTypeOK
<1>b. ASSUME InFlight(toPlayer[q])' \subseteq InFlight(toPlayer[q])
      PROVE  m = ClearContractMsg(1) /\ issued' = 1
  <2>1. m = ClearContractMsg(1) /\ issued = 1
    BY <1>0, <1>b DEF HonestMessages
  <2>2. issued' = issued \/ ByOperator(OperatorNext)
    BY NextCases DEF ByPlayer, CrashStep, ChainStep, OnChain, vars, opVars
  <2> QED  BY <2>1, <2>2, IssuedStays
<1>1. CASE ByOperator(OperatorNext)
  <2>1. CASE opPc = "send" /\ Delivered(toPlayer, opIdx, ClearContractMsg(unauthorized))
                           /\ issued' = issued
    <3>1. unauthorized = 1 /\ issued = 1
      BY <1>0, <2>1 DEF OneSettlement
    <3>2. ClearContractMsg(1) \in Message
      BY MessageTypes
    <3>3. toPlayer'[q] \in {toPlayer[q], Append(toPlayer[q], ClearContractMsg(1))}
      BY <1>a, <2>1, <3>1 DEF Delivered
    <3>4. InFlight(toPlayer[q])' \subseteq InFlight(toPlayer[q]) \cup {ClearContractMsg(1)}
      BY <1>a, <3>2, <3>3, InFlightAppend
    <3> QED  BY <1>0, <2>1, <3>1, <3>4 DEF HonestMessages
  <2>2. CASE toPlayer' = toPlayer
    BY <1>b, <2>2
  <2> QED
    BY <1>1, <2>1, <2>2
    DEF ByOperator, OperatorNext, OpCalls, OpInitialize, OpClearContract,
        OpFinalize, OpRefund, OpRefundFaults, partyVars, OpProceeds, OpCollect,
        OpEvaluate, OpSend, OpOutputDeposits, OpGather, OpAuthorize, OpFails,
        OpClearFails, OpSendFails, ClearAborts, OpEvaluateFaults, OpFinalizeFails, OpAuthorizeFails
<1>2. ASSUME NEW p \in Players, ByPlayer(PlayerNext(p))
      PROVE  m = ClearContractMsg(1) /\ issued' = 1
  <2>1. CASE PlReceive(p)
    <3>1. \/ toPlayer'[q] = toPlayer[q]
          \/ toPlayer[q] # <<>> /\ toPlayer'[q] = Tail(toPlayer[q])
      BY <1>a, <2>1 DEF PlReceive
    <3> QED  BY <1>a, <1>b, <3>1, InFlightHeadTail
  <2>2. CASE toPlayer' = toPlayer
    BY <1>b, <2>2
  <2> QED
    BY <1>2, <2>1, <2>2
    DEF ByPlayer, PlayerNext, PlCalls, PlInitialize, PlDepositAndInput,
        PlGetDeposits, PlConfirmDeposits, PlSettle, PlRefund, PlRefundFaults,
        PlReceiveFails, partyVars
<1>3. CASE (\E x \in Parties : CrashStep(x)) \/ ChainStep \/ UNCHANGED vars
  BY <1>b, <1>3 DEF CrashStep, ChainStep, OnChain, vars, partyVars
<1> QED  BY <1>1, <1>2, <1>3, NextCases

LEMMA SignaturesStep ==
    ASSUME Consistent, [Next]_vars, NEW q \in Players,
           NEW m \in InFlight(toOperator[q])', m.type = "CONFIRM_DEPOSITS"
    PROVE  m.hash = 1 /\ Consented(q, 1)'
<1>0. HonestMessages /\ TypeOK /\ PlayersKnowledge
  BY DEF Consistent
<1>a. toOperator \in [Players -> Seq(Message)]
  BY <1>0 DEF TypeOK, PartiesTypeOK
<1>b. ASSUME m \in InFlight(toOperator[q])
      PROVE  m.hash = 1 /\ Consented(q, 1)'
  BY <1>0, <1>b, ConsentStays DEF HonestMessages
<1>1. CASE ByOperator(OperatorNext)
  <2>1. \/ toOperator'[q] = toOperator[q]
        \/ toOperator[q] # <<>> /\ toOperator'[q] = Tail(toOperator[q])
    <3>1. CASE OpCollect \/ OpGather
      BY <1>a, <3>1 DEF OpCollect, OpGather
    <3>2. CASE toOperator' = toOperator
      BY <3>2
    <3> QED
      BY <1>1, <3>1, <3>2
      DEF ByOperator, OperatorNext, OpCalls, OpInitialize, OpClearContract,
          OpFinalize, OpRefund, OpRefundFaults, partyVars, OpProceeds, OpEvaluate,
          OpSend, OpOutputDeposits, OpAuthorize, OpFails, OpClearFails,
          OpSendFails, ClearAborts, OpEvaluateFaults, OpFinalizeFails, OpAuthorizeFails
  <2> QED  BY <1>a, <1>b, <2>1, InFlightHeadTail
<1>2. ASSUME NEW p \in Players, ByPlayer(PlayerNext(p))
      PROVE  m.hash = 1 /\ Consented(q, 1)'
  <2>1. CASE PlDepositAndInput(p)
    <3>1. toOperator'[q] \in {toOperator[q], Append(toOperator[q], DepositAndInput)}
      BY <1>a, <2>1 DEF PlDepositAndInput, Delivered, MaybeDelivered
    <3>2. InFlight(toOperator[q])' \subseteq InFlight(toOperator[q]) \cup {DepositAndInput}
      BY <1>a, <3>1, InFlightAppend, MessageTypes
    <3>3. m # DepositAndInput
      BY DEF DepositAndInput
    <3> QED  BY <1>b, <3>2, <3>3
  <2>2. CASE PlConfirmDeposits(p)
    <3>1. settlementHash[p] = 1
      BY <1>0, <2>2 DEF PlConfirmDeposits, PlayersKnowledge
    <3>2. Consented(p, 1)'
      BY <1>0, <2>2, <3>1
      DEF PlConfirmDeposits, Consented, TypeOK, PlayerTypeOK
    <3>3. \/ toOperator'[q] = toOperator[q]
          \/ p = q /\ toOperator'[q] = Append(toOperator[q], ConfirmDepositsMsg(1))
      BY <1>a, <2>2, <3>1 DEF PlConfirmDeposits, Delivered, MaybeDelivered
    <3>4. CASE p = q /\ toOperator'[q] = Append(toOperator[q], ConfirmDepositsMsg(1))
      <4>1. InFlight(toOperator[q])' = InFlight(toOperator[q]) \cup {ConfirmDepositsMsg(1)}
        BY <1>a, <3>4, InFlightAppend, MessageTypes
      <4> QED  BY <1>b, <3>2, <3>4, <4>1 DEF ConfirmDepositsMsg
    <3> QED  BY <1>b, <3>3, <3>4
  <2>3. CASE toOperator' = toOperator
    BY <1>b, <2>3
  <2> QED
    BY <1>2, <2>1, <2>2, <2>3
    DEF ByPlayer, PlayerNext, PlCalls, PlInitialize, PlGetDeposits, PlSettle,
        PlRefund, PlRefundFaults, PlReceive, PlReceiveFails, partyVars
<1>3. CASE (\E x \in Parties : CrashStep(x)) \/ ChainStep \/ UNCHANGED vars
  BY <1>b, <1>3 DEF CrashStep, ChainStep, OnChain, vars, partyVars
<1> QED  BY <1>1, <1>2, <1>3, NextCases

LEMMA GatheredStep ==
    ASSUME Consistent, [Next]_vars, NEW q \in Players, signatures'[q] # NoHash
    PROVE  signatures'[q] = 1 /\ Consented(q, 1)'
<1>0. HonestMessages /\ TypeOK
  BY DEF Consistent
<1>1. CASE signatures'[q] = signatures[q]
  BY <1>0, <1>1, ConsentStays DEF HonestMessages
<1>2. CASE OpGather /\ signatures'[q] # signatures[q]
  <2>1. /\ toOperator[q] # <<>>
        /\ Head(toOperator[q]).type = "CONFIRM_DEPOSITS"
        /\ signatures'[q] = Head(toOperator[q]).hash
    BY <1>0, <1>2 DEF OpGather, TypeOK, OperatorTypeOK
  <2>2. Head(toOperator[q]) \in InFlight(toOperator[q])
    BY <1>0, <2>1, InFlightHeadTail DEF TypeOK, PartiesTypeOK
  <2> QED  BY <1>0, <2>1, <2>2, ConsentStays DEF HonestMessages
<1>3. CASE ~ OpGather
  BY <1>1, <1>3, NextCases
  DEF ByOperator, OperatorNext, OpCalls, OpInitialize, OpClearContract,
      OpFinalize, OpRefund, OpRefundFaults, opVars, OpProceeds, OpCollect,
      OpEvaluate, OpSend, OpOutputDeposits, OpAuthorize, OpFails, OpClearFails,
      OpSendFails, ClearAborts, OpEvaluateFaults, OpFinalizeFails, OpAuthorizeFails, ByPlayer,
      CrashStep, ChainStep, OnChain, vars
<1> QED  BY <1>1, <1>2, <1>3

LEMMA HonestMessagesStep ==
    ASSUME Consistent, [Next]_vars
    PROVE  HonestMessages'
  BY AnnouncementsStep, SignaturesStep, GatheredStep DEF HonestMessages

(***************************************************************************)
(* The chain: a settle that goes through has seen the settlement mined.    *)
(***************************************************************************)
LEMMA BuriedSettlement ==
    ASSUME Consistent, NEW p \in Players, PlSettle(p)
    PROVE  /\ mined # NoHash /\ mined = settlementHash[p]
           /\ height >= RefundDelay
<1>1. AuthorizedAndBuried(settlementHash[p]) >= SettleDelay /\ SettleDelay > 0
  BY DelayAssumption DEF PlSettle
<1>2. burial \in Nat /\ height \in Nat /\ burial <= height
  BY DelayAssumption DEF Consistent, TypeOK, ChainTypeOK, ChainAgrees
<1>3. settlementHash[p] # NoHash /\ mined = settlementHash[p] /\ burial >= SettleDelay
  BY <1>1, <1>2, DelayAssumption DEF AuthorizedAndBuried
<1> QED  BY <1>2, <1>3, DelayAssumption

LEMMA ChainAgreesStep ==
    ASSUME Consistent, [Next]_vars
    PROVE  ChainAgrees'
<1> USE DEF ChainAgrees
<1>0. ChainAgrees /\ TypeOK /\ OperatorsSecrets /\ OneSettlement /\ PlayersKnowledge
  BY DEF Consistent
<1>a. /\ plState \in [Players -> PlStates]
      /\ payoutOut \in [Players -> BOOLEAN]
      /\ settlementHash \in [Players -> Nat]
      /\ coin \in [Parties -> CoinState]
      /\ burial \in 0..SettleDelay /\ height \in 0..SettleDelay
      /\ mined \in Nat
  BY <1>0 DEF TypeOK, PartiesTypeOK, PlayerTypeOK, ChainTypeOK
<1>b. Parties # {}
  BY PartiesFacts
<1>1. CASE ByOperator(OperatorNext)
  <2>1. payoutOut' = payoutOut /\ UNCHANGED plVars /\ UNCHANGED chainVars
    BY <1>0, <1>1, OperatorFrame
  <2>2. mined # NoHash => settlementOut' = settlementOut
    <3>1. CASE OpAuthorize
      BY <1>0, <3>1 DEF OpAuthorize, OperatorsSecrets, OneSettlement, FinalizePcs
    <3>2. CASE ~ OpAuthorize
      BY <1>1, <3>2
      DEF ByOperator, OperatorNext, OpCalls, OpInitialize, OpClearContract,
          OpFinalize, OpRefund, OpRefundFaults, partyVars, OpProceeds, OpCollect,
          OpEvaluate, OpSend, OpOutputDeposits, OpGather, OpFails, OpClearFails,
          OpSendFails, ClearAborts, OpEvaluateFaults, OpFinalizeFails, OpAuthorizeFails
    <3> QED  BY <3>1, <3>2
  <2> QED  BY <1>0, <2>1, <2>2 DEF plVars, chainVars
<1>2. ASSUME NEW p \in Players, ByPlayer(PlayerNext(p))
      PROVE  ChainAgrees'
  <2>0. /\ settlementOut' = settlementOut
        /\ \A q \in Players \ {p} : /\ payoutOut'[q] = payoutOut[q]
                                    /\ settlementHash'[q] = settlementHash[q]
                                    /\ plState'[q] = plState[q]
        /\ UNCHANGED chainVars
    BY <1>0, <1>2, PlayerFrame
  <2>1. SUFFICES /\ payoutOut'[p] => mined # NoHash /\ mined = settlementHash'[p]
                 /\ plState'[p] = "SETTLED" => height >= RefundDelay
    BY <1>0, <2>0 DEF chainVars
  <2>2. CASE PlSettle(p)
    BY <1>0, <1>a, <2>2, BuriedSettlement DEF PlSettle
  <2>3. CASE PlReceive(p)
    <3>1. ~ payoutOut[p]
      BY <1>0, <2>3 DEF PlReceive, PlayersKnowledge
    <3> QED  BY <1>0, <1>a, <2>3, <3>1 DEF PlReceive
  <2>4. CASE PlInitialize(p)
    BY <1>0, <1>a, <2>4 DEF PlInitialize
  <2>5. CASE PlDepositAndInput(p)
    BY <1>0, <1>a, <2>5 DEF PlDepositAndInput
  <2>6. CASE PlConfirmDeposits(p)
    BY <1>0, <1>a, <2>6 DEF PlConfirmDeposits
  <2>7. CASE PlRefund(p)
    BY <1>0, <1>a, <2>7 DEF PlRefund
  <2>8. CASE PlGetDeposits(p) \/ PlRefundFaults(p) \/ PlReceiveFails(p)
    BY <1>0, <1>a, <2>8
    DEF PlGetDeposits, PlRefundFaults, PlReceiveFails, partyVars, plVars
  <2> QED
    BY <1>2, <2>2, <2>3, <2>4, <2>5, <2>6, <2>7, <2>8
    DEF ByPlayer, PlayerNext, PlCalls
<1>3. CASE ChainStep
  <2>0. UNCHANGED <<partyVars, plVars>>
    BY <1>3 DEF ChainStep, OnChain
  <2>1. Grow => burial' <= height' /\ height' >= height
    BY <1>0, <1>a, DelayAssumption DEF Grow, Saturate
  <2> DEFINE ChainGrows ==
        /\ burial' <= height' /\ height' >= height
        /\ mined # NoHash => mined' = mined
        /\ mined' # NoHash => /\ mined' = settlementOut
                              /\ \A x \in Parties : coin'[x] = "settled"
  <2>2. ChainGrows
    <3>1. ASSUME NEW x \in Parties, FundDeposit(x) PROVE ChainGrows
      BY <1>0, <1>a, <3>1 DEF FundDeposit
    <3>2. ASSUME NEW x \in Parties, MineRefund(x) PROVE ChainGrows
      BY <1>0, <1>a, <2>1, <3>2 DEF MineRefund
    <3>3. CASE NewBlock
      BY <1>0, <1>a, <2>1, <3>3 DEF NewBlock
    <3>4. CASE MineSettlement
      BY <1>0, <1>b, <2>1, <3>4 DEF MineSettlement
    <3> QED
      BY <1>3, <3>1, <3>2, <3>3, <3>4 DEF ChainStep, ChainNext, OnChain
  <2>3. \A p \in Players : plState[p] = "SETTLED" => height' >= RefundDelay
    <3>1. height' \in Nat /\ height \in Nat
      BY <1>3, TypeOther DEF Consistent, TypeOK, ChainTypeOK
    <3> QED  BY <1>0, <2>2, <3>1, DelayAssumption
  <2> QED
    BY <1>0, <2>0, <2>2, <2>3 DEF partyVars, plVars
<1>4. CASE (\E x \in Parties : CrashStep(x)) \/ UNCHANGED vars
  BY <1>0, <1>4 DEF CrashStep, vars, partyVars, plVars, chainVars
<1> QED  BY <1>1, <1>2, <1>3, <1>4, NextCases

(***************************************************************************)
(* Sending and receiving keep the deposit in front of the signatures.      *)
(***************************************************************************)
LEMMA DepositFirstAppend ==
    ASSUME NEW s \in Seq(Message), NEW m \in Message, DepositFirst(s),
           s = <<>> \/ m.type = "CONFIRM_DEPOSITS"
    PROVE  DepositFirst(Append(s, m))
<1>1. /\ DOMAIN Append(s, m) = 1 .. (Len(s) + 1)
      /\ \A i \in 1 .. Len(s) : Append(s, m)[i] = s[i]
      /\ Append(s, m)[Len(s) + 1] = m
      /\ DOMAIN s = 1 .. Len(s)
      /\ Len(s) \in Nat
      /\ s = <<>> => Len(s) = 0
  BY AppendProperties, LenProperties, EmptySeq
<1> QED  BY <1>1 DEF DepositFirst

LEMMA DepositFirstTail ==
    ASSUME NEW s \in Seq(Message), s # <<>>, DepositFirst(s)
    PROVE  /\ DepositFirst(Tail(s))
           /\ \A m \in InFlight(Tail(s)) : m.type = "CONFIRM_DEPOSITS"
<1>1. /\ Len(s) \in Nat
      /\ DOMAIN s = 1 .. Len(s)
      /\ DOMAIN Tail(s) = 1 .. (Len(s) - 1)
      /\ \A i \in 1 .. (Len(s) - 1) : Tail(s)[i] = s[i + 1]
  BY HeadTailProperties, LenProperties
<1>2. \A i \in DOMAIN Tail(s) : i + 1 \in DOMAIN s /\ i + 1 # 1
  BY <1>1
<1> QED  BY <1>1, <1>2 DEF DepositFirst, InFlight

LEMMA OneDepositStep ==
    ASSUME Consistent, [Next]_vars
    PROVE  OneDeposit'
<1> USE DEF OneDeposit
<1>0. OneDeposit /\ TypeOK /\ OneSettlement /\ PlayersKnowledge
  BY DEF Consistent
<1>a. /\ toOperator \in [Players -> Seq(Message)]
      /\ plState \in [Players -> PlStates]
      /\ opIdx \in Players
  BY <1>0 DEF TypeOK, PartiesTypeOK, OperatorTypeOK, PlayerTypeOK
<1>b. ASSUME toOperator' = toOperator, plState' = plState,
             \A p \in Players : Collected(p)' => Collected(p)
      PROVE  OneDeposit'
  BY <1>0, <1>b
<1>1. CASE ByOperator(OperatorNext)
  <2>0. plState' = plState
    BY <1>1 DEF ByOperator, plVars
  <2>1. CASE OpCollect
    <3>1. PICK s \in Seq(Message) : s = toOperator[opIdx] /\ s # <<>>
      BY <1>a, <2>1 DEF OpCollect
    <3>2. /\ toOperator'[opIdx] = Tail(s)
          /\ \A p \in Players \ {opIdx} : toOperator'[p] = toOperator[p]
          /\ toOperator' \in [Players -> Seq(Message)]
      BY <1>a, <2>1, <3>1, HeadMessage DEF OpCollect
    <3>3. /\ DepositFirst(Tail(s))
          /\ \A m \in InFlight(Tail(s)) : m.type = "CONFIRM_DEPOSITS"
      BY <1>0, <1>a, <3>1, DepositFirstTail
    <3>4. plState[opIdx] \notin {"UNINITIALIZED", "INITIALIZED"}
      BY <1>0, <1>a, <3>1
    <3>5. \A p \in Players : Collected(p)' => p = opIdx \/ Collected(p)
      <4>1. opPc = "collect" /\ opState = "INITIALIZED"
        BY <1>0, <2>1 DEF OpCollect, OneSettlement, ClearPcs
      <4>2. CASE opPc' = "idle" /\ opState' = "ABORTED"
        BY <4>2 DEF Collected
      <4>3. CASE Advance("evaluate") /\ opState' = opState
        <5>1. CASE opIdx < NumPlayers
          BY <1>a, <4>1, <4>3, <5>1, NumPlayersAssumption DEF Advance, Collected, Players
        <5>2. CASE ~ (opIdx < NumPlayers)
          BY <1>a, <4>1, <5>2, NumPlayersAssumption DEF Collected, Players
        <5> QED  BY <5>1, <5>2
      <4> QED  BY <2>1, <4>2, <4>3 DEF OpCollect
    <3> QED  BY <1>0, <1>a, <2>0, <3>2, <3>3, <3>4, <3>5
  <2>2. CASE OpGather
    <3>1. PICK s \in Seq(Message) : s = toOperator[opIdx] /\ s # <<>>
      BY <1>a, <2>2 DEF OpGather
    <3>2. /\ toOperator'[opIdx] = Tail(s)
          /\ \A p \in Players \ {opIdx} : toOperator'[p] = toOperator[p]
      BY <1>a, <2>2, <3>1 DEF OpGather
    <3>3. /\ DepositFirst(Tail(s))
          /\ \A m \in InFlight(Tail(s)) : m.type = "CONFIRM_DEPOSITS"
      BY <1>0, <1>a, <3>1, DepositFirstTail
    <3>4. plState[opIdx] \notin {"UNINITIALIZED", "INITIALIZED"}
      BY <1>0, <1>a, <3>1
    <3>5. \A p \in Players : Collected(p)
      BY <1>0, <2>2 DEF OpGather, OneSettlement, FinalizePcs, Collected
    <3> QED  BY <1>0, <1>a, <2>0, <3>2, <3>3, <3>4, <3>5
  <2>3. CASE ~ OpCollect /\ ~ OpGather
    <3>1. toOperator' = toOperator
      BY <1>1, <2>3
      DEF ByOperator, OperatorNext, OpCalls, OpInitialize, OpClearContract,
          OpFinalize, OpRefund, OpRefundFaults, partyVars, OpProceeds, OpEvaluate,
          OpSend, OpOutputDeposits, OpAuthorize, OpFails, OpClearFails,
          OpSendFails, ClearAborts, OpEvaluateFaults, OpFinalizeFails, OpAuthorizeFails
    <3>2. \A p \in Players : Collected(p)' => Collected(p)
      <4>1. CASE OpClearContract
        BY <4>1, NumPlayersAssumption DEF OpClearContract, Collected, Players
      <4>2. CASE OpSend
        BY <4>2 DEF OpSend, Advance, Collected
      <4>3. CASE OpCalls /\ ~ OpClearContract
        BY <4>3
        DEF OpCalls, OpInitialize, OpFinalize, OpRefund, OpRefundFaults, opVars,
            OperatorReady, Collected
      <4>4. CASE OpEvaluate \/ OpOutputDeposits \/ OpAuthorize \/ OpFails
        BY <1>0, <4>4
        DEF OneSettlement, FinalizePcs, OpEvaluate, OpOutputDeposits, OpAuthorize,
            OpFails, OpClearFails, OpSendFails, ClearAborts, OpEvaluateFaults, OpFinalizeFails,
            OpAuthorizeFails, Collected
      <4> QED
        BY <1>1, <2>3, <4>1, <4>2, <4>3, <4>4 DEF ByOperator, OperatorNext, OpProceeds
    <3> QED  BY <1>b, <2>0, <3>1, <3>2
  <2> QED  BY <2>1, <2>2, <2>3
<1>2. ASSUME NEW p \in Players, ByPlayer(PlayerNext(p))
      PROVE  OneDeposit'
  <2>0. /\ \A q \in Players : Collected(q)' <=> Collected(q)
        /\ \A q \in Players \ {p} : toOperator'[q] = toOperator[q] /\ plState'[q] = plState[q]
    BY <1>0, <1>2, PlayerFrame DEF opVars, Collected
  <2>1. SUFFICES
          /\ plState'[p] \in {"UNINITIALIZED", "INITIALIZED"} => toOperator'[p] = <<>>
          /\ \A m \in InFlight(toOperator'[p]) :
               m.type \in {"DEPOSIT_AND_INPUT", "CONFIRM_DEPOSITS"}
          /\ DepositFirst(toOperator'[p])
          /\ Collected(p) =>
               /\ plState'[p] \notin {"UNINITIALIZED", "INITIALIZED"}
               /\ \A m \in InFlight(toOperator'[p]) : m.type = "CONFIRM_DEPOSITS"
    BY <1>0, <2>0
  <2>2. CASE PlDepositAndInput(p)
    <3>1. /\ toOperator[p] = <<>> /\ ~ Collected(p)
          /\ plState'[p] \in {"DEPOSITED", "ABORTED"}
      BY <1>0, <1>a, <2>2 DEF PlDepositAndInput
    <3>2. toOperator'[p] \in {toOperator[p], Append(toOperator[p], DepositAndInput)}
      BY <1>a, <2>2 DEF PlDepositAndInput, Delivered, MaybeDelivered
    <3>3. /\ InFlight(Append(toOperator[p], DepositAndInput))
               = InFlight(toOperator[p]) \cup {DepositAndInput}
          /\ DepositFirst(Append(toOperator[p], DepositAndInput))
      BY <1>0, <1>a, <3>1, InFlightAppend, DepositFirstAppend, MessageTypes
    <3> QED  BY <1>0, <3>1, <3>2, <3>3 DEF DepositAndInput
  <2>3. CASE PlConfirmDeposits(p)
    <3> DEFINE signed == ConfirmDepositsMsg(settlementHash[p])
    <3>1. signed \in Message /\ signed.type = "CONFIRM_DEPOSITS"
      BY <1>0, MessageTypes DEF TypeOK, PlayerTypeOK, ConfirmDepositsMsg
    <3>2. plState'[p] \in {"CONFIRMED_DEPOSITS", "ABORTED"}
      BY <1>a, <2>3 DEF PlConfirmDeposits
    <3>3. toOperator'[p] \in {toOperator[p], Append(toOperator[p], signed)}
      BY <1>a, <2>3 DEF PlConfirmDeposits, Delivered, MaybeDelivered
    <3> HIDE DEF signed
    <3>4. /\ InFlight(Append(toOperator[p], signed)) = InFlight(toOperator[p]) \cup {signed}
          /\ DepositFirst(Append(toOperator[p], signed))
      BY <1>0, <1>a, <3>1, InFlightAppend, DepositFirstAppend
    <3> QED  BY <1>0, <3>1, <3>2, <3>3, <3>4
  <2>4. CASE ~ PlDepositAndInput(p) /\ ~ PlConfirmDeposits(p)
    <3>1. toOperator' = toOperator
      BY <1>2, <2>4
      DEF ByPlayer, PlayerNext, PlCalls, PlInitialize, PlGetDeposits, PlSettle,
          PlRefund, PlRefundFaults, PlReceive, PlReceiveFails, partyVars
    <3>2. \/ plState[p] = "UNINITIALIZED" /\ plState'[p] = "INITIALIZED"
          \/ plState'[p] = plState[p]
          \/ plState'[p] \notin {"UNINITIALIZED", "INITIALIZED"}
      BY <1>a, <1>2, <2>4
      DEF ByPlayer, PlayerNext, PlCalls, PlInitialize, PlGetDeposits, PlSettle,
          PlRefund, PlRefundFaults, PlReceive, PlReceiveFails, plVars
    <3> QED  BY <1>0, <3>1, <3>2
  <2> QED  BY <2>2, <2>3, <2>4
<1>3. CASE (\E x \in Parties : CrashStep(x)) \/ ChainStep \/ UNCHANGED vars
  <2>1. toOperator' = toOperator /\ UNCHANGED opVars /\ UNCHANGED plVars
    BY <1>3 DEF CrashStep, ChainStep, OnChain, vars, partyVars
  <2> QED  BY <1>0, <2>1 DEF opVars, plVars, Collected
<1> QED  BY <1>1, <1>2, <1>3, NextCases

LEMMA ConsistentStep == Consistent /\ [Next]_vars => Consistent'
  BY TypeNext, OneSettlementStep, OperatorsSecretsStep, WalletsLiveStep,
     PlayersKnowledgeStep, HonestMessagesStep, OneDepositStep, ChainAgreesStep
  DEF Consistent

-----------------------------------------------------------------------------
(***************************************************************************)
(* The inductive invariant holds in every run (the state machines of both  *)
(* entry.c, the messages of messages.h and what the OCALLs hand out).      *)
(***************************************************************************)
THEOREM AlwaysConsistent == Spec => []Consistent
  BY ConsistentInit, ConsistentStep, PTL DEF Spec

(***************************************************************************)
(* No operator can hold the authorized settlement and the collateral's key *)
(* (operator core.c:340-342 and 421-423).                                  *)
(***************************************************************************)
THEOREM OperatorIsCommitted == Spec => []OperatorCommitted
<1>1. Consistent => OperatorCommitted
  BY DEF Consistent, OperatorsSecrets, OperatorCommitted
<1> QED  BY <1>1, AlwaysConsistent, PTL

(***************************************************************************)
(* A settlement outside the operator's enclave carries the consent of all  *)
(* players (operator core.c:354-393).                                      *)
(***************************************************************************)
THEOREM ConsentIsUnanimous == Spec => []UnanimousConsent
<1>1. Consistent => UnanimousConsent
  BY DEF Consistent, OperatorsSecrets, HonestMessages, UnanimousConsent
<1> QED  BY <1>1, AlwaysConsistent, PTL

(***************************************************************************)
(* Nobody is paid before all deposits are settled (player core.c:300-309). *)
(***************************************************************************)
THEOREM PayoutAfterSettlement == Spec => []PayoutOnlyAfterSettlement
<1>1. Consistent => PayoutOnlyAfterSettlement
  BY DEF Consistent, OperatorsSecrets, ChainAgrees, PayoutOnlyAfterSettlement
<1> QED  BY <1>1, AlwaysConsistent, PTL

(***************************************************************************)
(* A settled player has waited longer than any refund takes (player        *)
(* core.c:292-294).                                                        *)
(***************************************************************************)
THEOREM SettleWaitsLonger == Spec => []SettleNeedsTheLongerChain
<1>1. Consistent => SettleNeedsTheLongerChain
  BY DEF Consistent, ChainAgrees, SettleNeedsTheLongerChain
<1> QED  BY <1>1, AlwaysConsistent, PTL

(***************************************************************************)
(* What the calls dereference is there (player core.c:247, operator        *)
(* core.c:382-386).                                                        *)
(***************************************************************************)
THEOREM PointersAreLive == Spec => []PointersLive
<1>1. Consistent => PointersLive
  BY DEF Consistent, PlayersKnowledge, WalletsLive, OneSettlement, PointersLive
<1> QED  BY <1>1, AlwaysConsistent, PTL

(***************************************************************************)
(* No receive of an honest peer's message fails its type check (operator   *)
(* core.c:130 and 363, player core.c:177).                                 *)
(***************************************************************************)
THEOREM MessagesArriveInOrder == Spec => []MessagesInOrder
<1>1. Consistent => MessagesInOrder
  <2> SUFFICES ASSUME Consistent PROVE MessagesInOrder
    OBVIOUS
  <2>0. TypeOK /\ OneSettlement /\ OneDeposit /\ HonestMessages /\ PlayersKnowledge
    BY DEF Consistent
  <2>1. ASSUME opPc \in {"collect", "gather"}, toOperator[opIdx] # <<>>
        PROVE  Head(toOperator[opIdx]).type = IF opPc = "collect"
                                              THEN "DEPOSIT_AND_INPUT"
                                              ELSE "CONFIRM_DEPOSITS"
    <3>1. opIdx \in Players /\ toOperator[opIdx] \in Seq(Message)
      BY <2>0 DEF TypeOK, OperatorTypeOK, PartiesTypeOK
    <3>2. Head(toOperator[opIdx]) \in InFlight(toOperator[opIdx])
      BY <2>1, <3>1, InFlightHeadTail
    <3>3. CASE opPc = "collect"
      <4>1. issued = 0
        BY <2>0, <3>3 DEF OneSettlement, ClearPcs
      <4>2. ~ Consented(opIdx, 1)
        BY <2>0, <3>1, <4>1 DEF Consented, PlayersKnowledge
      <4> QED
        BY <2>0, <3>1, <3>2, <3>3, <4>2 DEF OneDeposit, HonestMessages
    <3>4. CASE opPc = "gather"
      <4>1. Collected(opIdx)
        BY <2>0, <3>4 DEF OneSettlement, FinalizePcs, Collected
      <4> QED  BY <2>0, <3>1, <3>2, <3>4, <4>1 DEF OneDeposit
    <3> QED  BY <2>1, <3>3, <3>4
  <2>2. \A p \in Players : toPlayer[p] # <<>> => Head(toPlayer[p]).type = "CLEAR_CONTRACT"
    BY ReceivedByPlayer DEF ClearContractMsg
  <2> QED  BY <2>1, <2>2 DEF MessagesInOrder
<1> QED  BY <1>1, AlwaysConsistent, PTL

(***************************************************************************)
(* A refund that faults strands no deposit (player core.c:352, operator    *)
(* core.c:442).                                                            *)
(***************************************************************************)
THEOREM FaultsAreHarmless == Spec => []FaultStrandsNoDeposit
<1>1. Consistent => FaultStrandsNoDeposit
  BY DEF Consistent, WalletsLive, FaultStrandsNoDeposit
<1> QED  BY <1>1, AlwaysConsistent, PTL

(***************************************************************************)
(* What has been decided stays decided (operator entry.c:113-128, player   *)
(* entry.c:107-121).                                                       *)
(***************************************************************************)
THEOREM DecisionsAreIrrevocable == Spec => Irrevocable
<1>1. ASSUME Consistent, [Next]_vars PROVE DecisionsKept
  <2>0. TypeOK /\ OneSettlement /\ PlayersKnowledge
    BY <1>1 DEF Consistent
  <2>1. CASE ByOperator(OperatorNext)
    <3>1. plState' = plState
      BY <2>1 DEF ByOperator, plVars
    <3>2. CASE OpCalls
      BY <3>1, <3>2
      DEF DecisionsKept, OpCalls, OpInitialize, OpClearContract, OpFinalize,
          OpRefund, OpRefundAllowed, OpRefundFaults, partyVars, opVars
    <3>3. CASE OpProceeds \/ OpFails
      <4>1. opState \in {"INITIALIZED", "CLEARED_CONTRACT"}
        BY <2>0, <3>3
        DEF OneSettlement, ClearPcs, FinalizePcs, OpProceeds, OpCollect,
            OpEvaluate, OpSend, OpOutputDeposits, OpGather, OpAuthorize, OpFails,
            OpClearFails, OpSendFails, OpEvaluateFaults, OpFinalizeFails, OpAuthorizeFails
      <4> QED  BY <3>1, <4>1 DEF DecisionsKept
    <3> QED  BY <2>1, <3>2, <3>3 DEF ByOperator, OperatorNext
  <2>2. ASSUME NEW p \in Players, ByPlayer(PlayerNext(p)) PROVE DecisionsKept
    <3>1. /\ opState' = opState /\ settlementOut' = settlementOut
          /\ \A q \in Players \ {p} : plState'[q] = plState[q]
      BY <2>0, <2>2, PlayerFrame DEF opVars
    <3>2. plState[p] = "SETTLED" => plState'[p] = "SETTLED"
      BY <2>0, <2>2
      DEF ByPlayer, PlayerNext, PlCalls, PlInitialize, PlDepositAndInput,
          PlGetDeposits, PlConfirmDeposits, PlSettle, SettleAllowed, PlRefund,
          PlRefundAllowed, PlRefundFaults, plVars, PlReceive, PlReceiveFails,
          PlayersKnowledge
    <3> QED  BY <3>1, <3>2 DEF DecisionsKept
  <2>3. CASE (\E x \in Parties : CrashStep(x)) \/ ChainStep \/ UNCHANGED vars
    BY <2>3
    DEF DecisionsKept, CrashStep, ChainStep, OnChain, vars, partyVars, opVars, plVars
  <2> QED  BY <1>1, <2>1, <2>2, <2>3, NextCases
<1> QED  BY <1>1, AlwaysConsistent, PTL DEF Spec, Irrevocable
=============================================================================
