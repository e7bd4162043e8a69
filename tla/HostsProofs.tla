---------------------------- MODULE HostsProofs ----------------------------
(***************************************************************************)
(* Proofs about the hosts' files, for every number of players, all delays  *)
(* and every combination of faults.  A host with files is a host of the    *)
(* contract, so that what is proved about the contract holds of it, and    *)
(* what is proved here needs only what a command adds to the call it makes.*)
(***************************************************************************)
EXTENDS Hosts, AuntieRefinementProofs

USE DEF Operator, NoHash

LEMMA PartiesSplit == Parties = Players \cup {Operator} /\ Operator \notin Players
  BY NumPlayersAssumption DEF Parties, Players

(***************************************************************************)
(* Whatever a shell does is a call of the contract, a step of the chain, a *)
(* crash, or nothing at all.                                               *)
(***************************************************************************)
LEMMA CommandIsCall ==
    ASSUME NEW x \in Parties
    PROVE  /\ HandleInitialize(x) => ByParty(x, OperatorNext, PlayerNext(x))
           /\ HandleRefund(x) => ByParty(x, OperatorNext, PlayerNext(x))
           /\ RefundFaults(x) => ByParty(x, OperatorNext, PlayerNext(x))
  BY DEF HandleInitialize, HandleRefund, RefundFaults, ByParty, ByOperator,
         ByPlayer, OperatorNext, OpCalls, PlayerNext, PlCalls

LEMMA PartyIsNext ==
    ASSUME NEW x \in Parties, ByParty(x, OperatorNext, PlayerNext(x))
    PROVE  Next
  BY PartiesSplit DEF ByParty, Next, OperatorStep, PlayerStep

LEMMA HostsStepIsStep == [HostsNext]_hostsVars => [Next]_vars
<1> SUFFICES ASSUME [HostsNext]_hostsVars PROVE [Next]_vars
  OBVIOUS
<1>1. ASSUME NEW x \in Parties,
             HandleInitialize(x) \/ HandleRefund(x) \/ RefundFaults(x)
      PROVE  Next
  BY <1>1, CommandIsCall, PartyIsNext
<1>2. ASSUME NEW x \in Parties, NEW command \in Commands, Refused(x, command)
      PROVE  UNCHANGED vars
  BY <1>2 DEF Refused
<1>3. ASSUME NEW p \in Players, HandleSettle(p) \/ OtherPlayerStep(p)
      PROVE  Next
  BY <1>3 DEF HandleSettle, OtherPlayerStep, ByPlayer, Next, PlayerStep,
              PlayerNext, PlCalls
<1>4. ASSUME HandleFinalize \/ FinalizeReturns \/ OtherOperatorStep
      PROVE  Next
  BY <1>4 DEF HandleFinalize, FinalizeReturns, OtherOperatorStep, ByOperator,
              Next, OperatorStep, OperatorNext, OpCalls, OpProceeds
<1>5. ASSUME NEW x \in Parties, CrashStep(x) \/ FundFromFile(x) \/ RefundFromFile(x)
      PROVE  Next
  BY <1>5 DEF FundFromFile, RefundFromFile, OnChain, Next, ChainStep, ChainNext
<1>6. ASSUME SettleFromFile \/ OnChain(NewBlock)
      PROVE  Next
  BY <1>6 DEF SettleFromFile, OnChain, Next, ChainStep, ChainNext
<1>7. ASSUME UNCHANGED hostsVars PROVE UNCHANGED vars
  BY <1>7 DEF hostsVars
<1> QED  BY <1>1, <1>2, <1>3, <1>4, <1>5, <1>6, <1>7 DEF HostsNext

(***************************************************************************)
(* A shell with its files is a host of the contract: everything proved of  *)
(* Auntie holds when calls are made by commands, and money moves through   *)
(* files (the handlers of both main.c).                                    *)
(***************************************************************************)
THEOREM HostsAreHosts == HostsSpec => Spec
<1>1. HostsInit => Init
  BY DEF HostsInit
<1> QED  BY <1>1, HostsStepIsStep, PTL DEF HostsSpec, Spec

(***************************************************************************)
(* Commands that are repeated, refused or without effect on their file     *)
(* keep the promises of the abstract contract: a payout only after the     *)
(* settlement is out, and that only with everybody's consent, whatever the *)
(* shells do (the handlers of both main.c, the ECALLs of both entry.c).    *)
(***************************************************************************)
THEOREM HostsKeepTheContract == HostsSpec => ImplementsContract
  BY HostsAreHosts, Implementation, PTL

-----------------------------------------------------------------------------
(***************************************************************************)
(* The invariant, one host at a time.                                      *)
(***************************************************************************)
FilesTypeOK == /\ complete \in [Parties -> SUBSET Commands]
               /\ returned \in [Parties -> SUBSET Commands]

HostOK(x) ==
    /\ "initialize" \in complete[x] => wallet[x]
    /\ tee[x] = "up" => /\ "initialize" \in returned[x] <=> wallet[x]
                        /\ "conclude" \in returned[x] <=> Concluded(x)

HostsOK == /\ FilesTypeOK
           /\ \A x \in Parties : HostOK(x)

(***************************************************************************)
(* What a step leaves to a host it is not about.                           *)
(***************************************************************************)
SameEnclave(x) == /\ wallet'[x] = wallet[x]
                  /\ tee'[x] = "up" => tee[x] = "up"
                  /\ Concluded(x)' <=> Concluded(x)

LEMMA OtherEnclaves ==
    ASSUME TypeOK, NEW x \in Parties, ByParty(x, OperatorNext, PlayerNext(x)),
           NEW y \in Parties \ {x}
    PROVE  SameEnclave(y)
<1>1. CASE x = Operator
  BY <1>1, PartiesSplit, OperatorFrame DEF ByParty, SameEnclave, Concluded, plVars
<1>2. CASE x \in Players
  BY <1>2, PartiesSplit, PlayerFrame DEF ByParty, SameEnclave, Concluded, opVars
<1> QED  BY <1>1, <1>2, PartiesSplit

LEMMA FilesUpdate ==
    ASSUME FilesTypeOK, NEW x \in Parties, NEW command \in Commands
    PROVE  /\ Rewritten(x, command) =>
                /\ complete' \in [Parties -> SUBSET Commands]
                /\ complete'[x] = complete[x] \cup {command}
                /\ \A y \in Parties \ {x} : complete'[y] = complete[y]
           /\ Emptied(x, command) =>
                /\ complete' \in [Parties -> SUBSET Commands]
                /\ complete'[x] = complete[x] \ {command}
                /\ \A y \in Parties \ {x} : complete'[y] = complete[y]
           /\ Returns0(x, command) =>
                /\ returned' \in [Parties -> SUBSET Commands]
                /\ returned'[x] = returned[x] \cup {command}
                /\ \A y \in Parties \ {x} : returned'[y] = returned[y]
  BY DEF FilesTypeOK, Rewritten, Emptied, Returns0

LEMMA FilesKept ==
    ASSUME HostsOK, UNCHANGED fileVars, \A x \in Parties : SameEnclave(x)
    PROVE  HostsOK'
  BY DEF HostsOK, FilesTypeOK, HostOK, SameEnclave, fileVars

(***************************************************************************)
(* A step about host x alone: the files of the others stay.                *)
(***************************************************************************)
LEMMA OneHost ==
    ASSUME HostsOK, NEW x \in Parties,
           complete' \in [Parties -> SUBSET Commands],
           returned' \in [Parties -> SUBSET Commands],
           \A y \in Parties \ {x} : /\ complete'[y] = complete[y]
                                    /\ returned'[y] = returned[y]
                                    /\ SameEnclave(y),
           HostOK(x)'
    PROVE  HostsOK'
<1>1. \A y \in Parties \ {x} : HostOK(y)'
  BY DEF HostsOK, HostOK, SameEnclave
<1> QED  BY <1>1 DEF HostsOK, FilesTypeOK

LEMMA CommandNames == {"initialize", "refund", "conclude"} \subseteq Commands
  BY DEF Commands

LEMMA InitializeKeepsFiles ==
    ASSUME Consistent, HostsOK, NEW x \in Parties, HandleInitialize(x)
    PROVE  HostsOK'
<1>0. TypeOK /\ WalletsLive /\ HostOK(x) /\ FilesTypeOK /\ wallet \in [Parties -> BOOLEAN]
  BY DEF Consistent, HostsOK, TypeOK, PartiesTypeOK
<1>1. \A y \in Parties \ {x} : SameEnclave(y)
  BY <1>0, CommandIsCall, OtherEnclaves
<1>2. /\ ~ wallet[x]
      /\ tee'[x] = tee[x] /\ tee[x] = "up"
      /\ ~ Concluded(x)
      /\ ~ Concluded(x)'
  <2>1. CASE x = Operator
    BY <1>0, <2>1, PartiesSplit
    DEF HandleInitialize, ByParty, ByOperator, OpInitialize, OperatorReady,
        WalletsLive, Concluded
  <2>2. CASE x \in Players
    BY <1>0, <2>2, PartiesSplit
    DEF HandleInitialize, ByParty, ByPlayer, PlInitialize, PlayerReady,
        WalletsLive, Concluded, TypeOK, PlayerTypeOK
  <2> QED  BY <2>1, <2>2, PartiesSplit
<1>3. /\ complete' \in [Parties -> SUBSET Commands]
      /\ returned' \in [Parties -> SUBSET Commands]
      /\ \A y \in Parties \ {x} : complete'[y] = complete[y] /\ returned'[y] = returned[y]
      /\ "initialize" \in complete'[x] => wallet'[x]
      /\ "initialize" \in returned'[x] <=> wallet'[x]
      /\ "conclude" \in returned'[x] <=> "conclude" \in returned[x]
  BY <1>0, <1>2, FilesUpdate, CommandNames
  DEF HandleInitialize, Output, AddressHandedOut, FilesTypeOK, HostOK
<1> QED
  BY <1>0, <1>1, <1>2, <1>3, OneHost DEF HostOK

LEMMA RefundKeepsFiles ==
    ASSUME Consistent, HostsOK, NEW x \in Parties, HandleRefund(x) \/ RefundFaults(x)
    PROVE  HostsOK'
<1>0. TypeOK /\ HostOK(x) /\ FilesTypeOK
  BY DEF Consistent, HostsOK
<1>1. \A y \in Parties \ {x} : SameEnclave(y)
  BY <1>0, CommandIsCall, OtherEnclaves
<1>2. SameEnclave(x)
  <2>1. CASE x = Operator
    BY <1>0, <2>1, PartiesSplit, PartiesFacts
    DEF HandleRefund, RefundFaults, ByParty, ByOperator, OpRefund, OpRefundFaults,
        OpRefundAllowed, SameEnclave, Concluded, opVars, TypeOK, PartiesTypeOK
  <2>2. CASE x \in Players
    BY <1>0, <2>2, PartiesSplit
    DEF HandleRefund, RefundFaults, ByParty, ByPlayer, PlRefund, PlRefundFaults,
        PlRefundAllowed, SameEnclave, Concluded, plVars, TypeOK, PlayerTypeOK,
        PartiesTypeOK
  <2> QED  BY <2>1, <2>2, PartiesSplit
<1>3. /\ complete' \in [Parties -> SUBSET Commands]
      /\ returned' \in [Parties -> SUBSET Commands]
      /\ \A y \in Parties \ {x} : complete'[y] = complete[y] /\ returned'[y] = returned[y]
      /\ "initialize" \in complete'[x] => "initialize" \in complete[x]
      /\ "initialize" \in returned'[x] <=> "initialize" \in returned[x]
      /\ "conclude" \in returned'[x] <=> "conclude" \in returned[x]
  BY <1>0, FilesUpdate, CommandNames DEF HandleRefund, RefundFaults, FilesTypeOK
<1> QED
  BY <1>0, <1>1, <1>2, <1>3, OneHost DEF HostOK, SameEnclave

LEMMA SettleKeepsFiles ==
    ASSUME Consistent, HostsOK, NEW p \in Players, HandleSettle(p)
    PROVE  HostsOK'
<1>0. TypeOK /\ HostOK(p) /\ FilesTypeOK /\ p \in Parties /\ p # Operator
  BY PartiesSplit DEF Consistent, HostsOK
<1>1. \A y \in Parties \ {p} : SameEnclave(y)
  BY <1>0, OtherEnclaves
  DEF HandleSettle, ByParty, ByPlayer, PlayerNext, PlCalls
<1>2. wallet' = wallet /\ tee[p] = "up" /\ Concluded(p)'
  BY <1>0 DEF HandleSettle, ByPlayer, PlSettle, PlayerReady, Concluded, TypeOK, PlayerTypeOK
<1>3. /\ complete' \in [Parties -> SUBSET Commands]
      /\ returned' \in [Parties -> SUBSET Commands]
      /\ \A y \in Parties \ {p} : complete'[y] = complete[y] /\ returned'[y] = returned[y]
      /\ "initialize" \in complete'[p] => "initialize" \in complete[p]
      /\ "initialize" \in returned'[p] <=> "initialize" \in returned[p]
      /\ tee'[p] = "up" => "conclude" \in returned'[p]
  BY <1>0, FilesUpdate, CommandNames
  DEF HandleSettle, Output, ReturnsInAnyCase, FilesTypeOK
<1> QED
  BY <1>0, <1>1, <1>2, <1>3, OneHost DEF HostOK

LEMMA FinalizeKeepsFiles ==
    ASSUME Consistent, HostsOK, HandleFinalize \/ FinalizeReturns
    PROVE  HostsOK'
<1>0. TypeOK /\ OneSettlement /\ HostOK(Operator) /\ FilesTypeOK /\ Operator \in Parties
  BY PartiesSplit DEF Consistent, HostsOK
<1>1. \A y \in Parties \ {Operator} : SameEnclave(y)
  BY <1>0, OtherEnclaves
  DEF HandleFinalize, FinalizeReturns, ByParty, ByOperator, OperatorNext, OpCalls,
      OpProceeds
<1>2. wallet' = wallet /\ tee' = tee /\ tee[Operator] = "up" /\ ~ Concluded(Operator)
  BY <1>0
  DEF HandleFinalize, FinalizeReturns, ByOperator, OpFinalize, OpAuthorize,
      OperatorReady, Concluded, partyVars, OneSettlement, FinalizePcs
<1>3. "conclude" \in returned'[Operator] <=> Concluded(Operator)'
  <2>1. CASE HandleFinalize
    BY <1>0, <1>2, <2>1
    DEF HandleFinalize, ByOperator, OpFinalize, Concluded, HostOK
  <2>2. CASE FinalizeReturns
    <3>1. Concluded(Operator)' <=> opState' = "FINALIZED"
      BY DEF Concluded
    <3>2. "conclude" \notin returned[Operator]
      BY <1>0, <1>2 DEF HostOK
    <3> QED
      BY <1>0, <2>2, <3>1, <3>2, FilesUpdate, CommandNames
      DEF FinalizeReturns, ReturnsInAnyCase
  <2> QED  BY <2>1, <2>2
<1>4. /\ complete' \in [Parties -> SUBSET Commands]
      /\ returned' \in [Parties -> SUBSET Commands]
      /\ \A y \in Parties \ {Operator} : complete'[y] = complete[y] /\ returned'[y] = returned[y]
      /\ "initialize" \in complete'[Operator] => "initialize" \in complete[Operator]
      /\ "initialize" \in returned'[Operator] <=> "initialize" \in returned[Operator]
  BY <1>0, FilesUpdate, CommandNames
  DEF HandleFinalize, FinalizeReturns, Output, ReturnsInAnyCase, FilesTypeOK
<1> QED
  BY <1>0, <1>1, <1>2, <1>3, <1>4, OneHost DEF HostOK

LEMMA OtherStepKeepsFiles ==
    ASSUME Consistent, HostsOK, UNCHANGED fileVars,
           \/ OtherOperatorStep
           \/ \E p \in Players : OtherPlayerStep(p)
           \/ \E x \in Parties : CrashStep(x)
           \/ ChainStep
    PROVE  HostsOK'
<1>0. TypeOK /\ OneSettlement /\ PlayersKnowledge /\ FilesTypeOK
  BY DEF Consistent, HostsOK
<1>1. CASE OtherOperatorStep
  <2>1. \A y \in Parties \ {Operator} : SameEnclave(y)
    BY <1>0, <1>1, PartiesSplit, OtherEnclaves
    DEF OtherOperatorStep, ByParty, ByOperator, OperatorNext, OpCalls, OpProceeds
  <2>2. SameEnclave(Operator)
    <3>1. /\ wallet' = wallet
          /\ tee' = tee \/ tee' = [tee EXCEPT ![Operator] = "gone"]
      BY <1>1
      DEF OtherOperatorStep, ByOperator, OpClearContract, OpCollect, OpEvaluate,
          OpSend, OpOutputDeposits, OpGather, OpFails, OpClearFails, OpSendFails,
          ClearAborts, OpEvaluateFaults, OpFinalizeFails, OpAuthorizeFails, partyVars
    <3>2. /\ opState # "FINALIZED"
          /\ opState' # "FINALIZED"
      BY <1>0, <1>1
      DEF OneSettlement, ClearPcs, FinalizePcs, OtherOperatorStep, ByOperator,
          OpClearContract, OpCollect, OpEvaluate, OpSend, OpOutputDeposits, OpGather,
          OpFails, OpClearFails, OpSendFails, ClearAborts, OpEvaluateFaults,
          OpFinalizeFails, OpAuthorizeFails, opVars
    <3> QED
      BY <1>0, <3>1, <3>2, PartiesSplit DEF SameEnclave, Concluded, TypeOK, PartiesTypeOK
  <2> QED  BY <2>1, <2>2, FilesKept
<1>2. ASSUME NEW p \in Players, OtherPlayerStep(p)
      PROVE  HostsOK'
  <2>1. \A y \in Parties \ {p} : SameEnclave(y)
    BY <1>0, <1>2, PartiesSplit, OtherEnclaves
    DEF OtherPlayerStep, ByParty, ByPlayer, PlayerNext, PlCalls
  <2>2. SameEnclave(p)
    <3>1. wallet' = wallet /\ tee' = tee
      BY <1>2
      DEF OtherPlayerStep, ByPlayer, PlDepositAndInput, PlGetDeposits,
          PlConfirmDeposits, PlReceive, PlReceiveFails, partyVars
    <3>2. plState[p] # "SETTLED" /\ plState'[p] # "SETTLED"
      BY <1>0, <1>2
      DEF OtherPlayerStep, ByPlayer, PlDepositAndInput, PlGetDeposits,
          PlConfirmDeposits, PlReceive, PlReceiveFails, PlayersKnowledge, TypeOK,
          PlayerTypeOK
    <3> QED  BY <3>1, <3>2, PartiesSplit DEF SameEnclave, Concluded
  <2> QED  BY <2>1, <2>2, PartiesSplit, FilesKept
<1>3. ASSUME NEW x \in Parties, CrashStep(x)
      PROVE  HostsOK'
  <2>1. \A y \in Parties : SameEnclave(y)
    BY <1>0, <1>3
    DEF CrashStep, Crash, SameEnclave, Concluded, opVars, plVars, TypeOK, PartiesTypeOK
  <2> QED  BY <2>1, FilesKept
<1>4. CASE ChainStep
  <2>1. \A y \in Parties : SameEnclave(y)
    BY <1>4 DEF ChainStep, OnChain, SameEnclave, Concluded, partyVars, opVars, plVars
  <2> QED  BY <2>1, FilesKept
<1> QED  BY <1>1, <1>2, <1>3, <1>4

LEMMA HostsInitOK == HostsInit => Consistent /\ HostsOK
<1> SUFFICES ASSUME HostsInit PROVE Consistent /\ HostsOK
  OBVIOUS
<1>1. Consistent
  BY ConsistentInit DEF HostsInit
<1>2. \A x \in Parties : ~ wallet[x] /\ ~ Concluded(x)
  BY PartiesSplit
  DEF HostsInit, Init, PartiesInit, OperatorInit, PlayerInit, Concluded
<1> QED  BY <1>1, <1>2 DEF HostsInit, HostsOK, FilesTypeOK, HostOK

LEMMA HostsStepOK == Consistent /\ HostsOK /\ [HostsNext]_hostsVars => HostsOK'
<1> SUFFICES ASSUME Consistent, HostsOK, [HostsNext]_hostsVars PROVE HostsOK'
  OBVIOUS
<1>1. CASE \E x \in Parties : HandleInitialize(x)
  BY <1>1, InitializeKeepsFiles
<1>2. CASE \E x \in Parties : HandleRefund(x) \/ RefundFaults(x)
  BY <1>2, RefundKeepsFiles
<1>3. CASE \E x \in Parties, command \in Commands : Refused(x, command)
  <2>1. PICK x \in Parties, command \in Commands : Refused(x, command)
    BY <1>3
  <2>2. \A y \in Parties : SameEnclave(y)
    BY <2>1 DEF Refused, SameEnclave, Concluded, vars, partyVars, opVars, plVars
  <2>3. HostOK(x)'
    BY <2>1, <2>2, FilesUpdate DEF Refused, HostsOK, HostOK, SameEnclave
  <2> QED
    BY <2>1, <2>2, <2>3, FilesUpdate, OneHost DEF Refused, HostsOK, FilesTypeOK
<1>4. CASE \E p \in Players : HandleSettle(p)
  BY <1>4, SettleKeepsFiles
<1>5. CASE HandleFinalize \/ FinalizeReturns
  BY <1>5, FinalizeKeepsFiles
<1>6. CASE /\ \/ OtherOperatorStep
              \/ \E p \in Players : OtherPlayerStep(p)
              \/ \E x \in Parties : CrashStep(x)
              \/ ChainStep
           /\ UNCHANGED fileVars
  BY <1>6, OtherStepKeepsFiles
<1>7. CASE UNCHANGED hostsVars
  <2>1. \A y \in Parties : SameEnclave(y)
    BY <1>7 DEF SameEnclave, Concluded, hostsVars, vars, partyVars, opVars, plVars
  <2> QED  BY <1>7, <2>1, FilesKept DEF hostsVars
<1>8. ASSUME SettleFromFile \/ OnChain(NewBlock)
             \/ \E x \in Parties : FundFromFile(x) \/ RefundFromFile(x)
      PROVE  ChainStep
  BY <1>8 DEF SettleFromFile, FundFromFile, RefundFromFile, OnChain, ChainStep, ChainNext
<1> QED  BY <1>1, <1>2, <1>3, <1>4, <1>5, <1>6, <1>7, <1>8 DEF HostsNext

LEMMA FilesAgree == HostsSpec => [](Consistent /\ HostsOK)
<1>1. Consistent /\ [HostsNext]_hostsVars => Consistent'
  BY HostsStepIsStep, ConsistentStep
<1> QED  BY <1>1, HostsInitOK, HostsStepOK, PTL DEF HostsSpec

-----------------------------------------------------------------------------
(***************************************************************************)
(* No deposit is paid to an address without a wallet: initialize hands the *)
(* address out last and releases the wallet of a failed attempt, and no    *)
(* later call gives a wallet up (both core.c, ecall_initialize_impl).      *)
(***************************************************************************)
THEOREM AddressIsLive == HostsSpec => []AddressLive
<1>1. HostsOK => AddressLive
  BY DEF HostsOK, HostOK, AddressLive
<1> QED  BY <1>1, FilesAgree, PTL

(***************************************************************************)
(* A host can tell from what its calls returned whether there is a wallet  *)
(* and whether its contract is decided, whatever fails in its callbacks    *)
(* (player core.c:319-322, operator core.c:401-404).                       *)
(***************************************************************************)
THEOREM ReturnsAreTrue == HostsSpec => []ReturnsTellTheState
<1>1. HostsOK => ReturnsTellTheState
  BY DEF HostsOK, HostOK, FilesTypeOK, ReturnsTellTheState
<1> QED  BY <1>1, FilesAgree, PTL
=============================================================================
