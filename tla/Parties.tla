------------------------------ MODULE Parties ------------------------------
(***************************************************************************)
(* The parties of an Auntie contract and what crosses the boundary of      *)
(* their enclaves.  Party 0 is the operator, parties 1..NumPlayers are the *)
(* players (AUNTIE_NUM_PLAYERS), the indexing of the paper that            *)
(* operator/trusted/core.c:266 restores in its messages.                   *)
(*                                                                         *)
(* An enclave is entered by one thread of a single-threaded shell, so a    *)
(* party executes one ECALL at a time.  It talks to its peers over one     *)
(* authenticated, ordered channel per player and to its host through       *)
(* OCALLs.  What an OCALL hands out is public from then on.                *)
(***************************************************************************)
EXTENDS Naturals, Sequences

CONSTANTS
    NumPlayers,   \* AUNTIE_NUM_PLAYERS
    RefundDelay,  \* AUNTIE_REFUND_DELAY_BLOCKS
    SettleDelay,  \* AUNTIE_SETTLE_DELAY_BLOCKS
    Faults        \* the kinds of misfortune a run considers

ASSUME NumPlayersAssumption == NumPlayers \in Nat \ {0}
ASSUME DelayAssumption == /\ RefundDelay \in Nat \ {0}
                          /\ SettleDelay \in Nat
                          /\ RefundDelay <= SettleDelay

(***************************************************************************)
(* crash       a host is gone for good, and with it the enclave's keys:    *)
(*             nothing is sealed to disk                                   *)
(* call_error  an ECALL in progress fails: SIGINT interrupts a blocking    *)
(*             read, the peer resets the connection, malloc returns NULL,  *)
(*             an argument or a payload does not import                    *)
(* host_io     a callback that writes to the host's file reports an error  *)
(***************************************************************************)
FaultKinds == {"crash", "call_error", "host_io"}
ASSUME FaultsAssumption == Faults \subseteq FaultKinds

Players  == 1..NumPlayers
Operator == 0
Parties  == 0..NumPlayers

(***************************************************************************)
(* A settlement transaction is identified by the number of settlements the *)
(* operator's enclave had created when it created this one; it stands for  *)
(* the sighash and the txid alike.  0 is the zeroed static buffer of       *)
(* player/trusted/core.c:15-16 and the NULL pointer of the operator.       *)
(***************************************************************************)
NoHash == 0

VARIABLES
    toOperator,     \* [Players -> Seq(Message)], player p's channel upwards
    toPlayer,       \* [Players -> Seq(Message)], the same channel downwards
    tee,            \* [Parties -> {"up", "faulted", "gone"}]
    wallet,         \* [Parties -> BOOLEAN], deposit_wallet is not NULL
    depositKeyOut,  \* [Parties -> BOOLEAN], ocall_refund_callback took the key
    payoutOut,      \* [Players -> BOOLEAN], ocall_settle_callback took the
                    \* payout key and the functionality's output
    settlementOut   \* the settlement ocall_finalize_callback took, or NoHash

partyVars == <<toOperator, toPlayer, tee, wallet, depositKeyOut, payoutOut,
               settlementOut>>

(***************************************************************************)
(* Messages of messages.h that the contract uses.  hash is the settlement  *)
(* a CLEAR_CONTRACT announces, or the one a CONFIRM_DEPOSITS signs; the    *)
(* signer is the owner of the channel.                                     *)
(***************************************************************************)
Message == [type : {"DEPOSIT_AND_INPUT", "CLEAR_CONTRACT", "CONFIRM_DEPOSITS"},
            hash : Nat]

DepositAndInput    == [type |-> "DEPOSIT_AND_INPUT", hash |-> NoHash]
ClearContractMsg(h)   == [type |-> "CLEAR_CONTRACT", hash |-> h]
ConfirmDepositsMsg(h) == [type |-> "CONFIRM_DEPOSITS", hash |-> h]

PartiesTypeOK ==
    /\ toOperator \in [Players -> Seq(Message)]
    /\ toPlayer \in [Players -> Seq(Message)]
    /\ tee \in [Parties -> {"up", "faulted", "gone"}]
    /\ wallet \in [Parties -> BOOLEAN]
    /\ depositKeyOut \in [Parties -> BOOLEAN]
    /\ payoutOut \in [Players -> BOOLEAN]
    /\ settlementOut \in Nat

PartiesInit ==
    /\ toOperator = [p \in Players |-> <<>>]
    /\ toPlayer = [p \in Players |-> <<>>]
    /\ tee = [x \in Parties |-> "up"]
    /\ wallet = [x \in Parties |-> FALSE]
    /\ depositKeyOut = [x \in Parties |-> FALSE]
    /\ payoutOut = [p \in Players |-> FALSE]
    /\ settlementOut = NoHash

(***************************************************************************)
(* The host of x quits its shell, is killed, or loses power.               *)
(***************************************************************************)
Crash(x) ==
    /\ "crash" \in Faults
    /\ tee[x] = "up"
    /\ tee' = [tee EXCEPT ![x] = "gone"]

(***************************************************************************)
(* How a send ends for its caller: delivered and reported so; or reported  *)
(* as failed, which the untrusted host can also say of bytes it forwarded. *)
(***************************************************************************)
Delivered(channel, p, m)    == channel' = [channel EXCEPT ![p] = Append(@, m)]
MaybeDelivered(channel, p, m) == Delivered(channel, p, m) \/ channel' = channel
=============================================================================
