------------------------------- MODULE Terms -------------------------------
(***************************************************************************)
(* The terms of a contract: who pays what, who is paid what and what every *)
(* party is shown.  The module follows the data from the players' deposits *)
(* and inputs, through the offsets of the two messages that carry them,    *)
(* into the lottery and the settlement transaction, and back to the        *)
(* players.  Failing sends and the order of the calls are the business of  *)
(* Auntie; here every message arrives and the operator's host calls        *)
(* clear_contract once.                                                    *)
(*                                                                         *)
(* A buffer is a sequence of cells <<kind, party, index>>: an action of a  *)
(* party's deposit transaction, a byte of its input, its address, its      *)
(* advice.  An item is imported only if the cells copied are that item.    *)
(***************************************************************************)
EXTENDS Loops, FiniteSets

CONSTANTS N,               \* AUNTIE_NUM_PLAYERS
          Collateral,      \* AUNTIE_OPERATOR_COLLATERAL
          MinerFee,        \* AUNTIE_MINER_FEE_PER_PARTY
          OperatorFee,     \* AUNTIE_OPERATOR_FEE_PER_PLAYER
          Bundles,         \* the deposit transactions a host may make
          MaxInput,        \* bound on the length of a player's input
          MaxRandom,       \* bound on the word sgx_read_rand returns
          MaxMoney,        \* no deposit is larger (the money supply of Zcash)
          ZatRange         \* zat_t wraps at this value (2^64 in the code)

Players == 1..N
Parties == 0..N            \* the operator at index 0, as in the paper

\* The sum of the notes of a transaction that are for its party's wallet.
AmountOf(bundle) ==
    SumTo([k \in DOMAIN bundle |-> IF bundle[k].mine THEN bundle[k].value ELSE 0], Len(bundle))

\* The players are counted with an int.
ASSUME NumbersAreNatural ==
    /\ N \in Nat \ {0} /\ N <= INT_MAX
    /\ {Collateral, MinerFee, OperatorFee, MaxInput, MaxRandom, MaxMoney} \subseteq Nat
    /\ ZatRange \in Nat

ASSUME BundlesAreTransactions ==
    \A b \in Bundles : b \in Seq([mine : BOOLEAN, value : Nat]) /\ b # <<>>

\* The deposits together fit a zat_t: 2.1e15 zatoshi each at most, of 2^64.
ASSUME AmountsFit ==
    /\ \A b \in Bundles : AmountOf(b) <= MaxMoney
    /\ MaxMoney * (N + 1) < ZatRange

VARIABLES
    deposit,     \* the deposit transaction of each party, made by its host
    input,       \* the input of each player to the functionality
    packed,      \* the deposit-and-input message of a player, once it is sent
    refused,     \* the players whose deposit_and_input returned -EINVAL
    clearing,    \* where ecall_clear_contract_impl stands
    missing,     \* which of the Merkle paths its argument lacks, if any
    collected,   \* what it has imported from each party
    passed,      \* the input it hands to the functionality for each player
    result,      \* the payouts and outputs of the functionality
    settlement,  \* the notes it spends and the payouts it makes
    shown        \* what get_deposits has shown and saved for each player

vars == <<deposit, input, packed, refused, clearing, missing, collected, passed, result, settlement, shown>>

-----------------------------------------------------------------------------
(* Buffers *)

Cells(kind, p, n) == [k \in 1..n |-> <<kind, p, k>>]
Junk == <<"junk", 0, 0>>
Zat(n) == n % ZatRange

\* memcpy of n bytes from an offset: past the end of the buffer it reads
\* whatever is there.
Copied(data, offset, n) ==
    [k \in 1..n |-> IF offset + k <= Len(data) THEN data[offset + k] ELSE Junk]

\* zcash_import_transaction, zcash_import_address and zcash_import_advice
\* refuse what is not one item of their kind.
ImportsTransaction(cells) ==
    \E p \in Parties : cells = Cells("action", p, Len(deposit[p]))
ImportsOne(kind, cells) == \E p \in Parties : cells = Cells(kind, p, 1)

-----------------------------------------------------------------------------
(* The player's side of deposit_and_input *)

Note(cell) == deposit[cell[2]][cell[3]]

DepositedAmount(p) == AmountOf(deposit[p])

CoversTheFees(amount) == amount >= MinerFee + OperatorFee

Pack(p) ==
    LET transaction == Cells("action", p, Len(deposit[p]))
        inputAt == Len(transaction)
        addressAt == inputAt + Len(input[p])
        adviceAt == addressAt + 1
    IN  [amount |-> DepositedAmount(p),
         transaction |-> 0, input |-> inputAt, address |-> addressAt, advice |-> adviceAt,
         data |-> transaction \o input[p] \o Cells("address", p, 1) \o Cells("advice", p, 1)]

PackDepositAndInput(p) ==
    /\ packed[p] = <<>> /\ p \notin refused
    /\ IF CoversTheFees(DepositedAmount(p))
       THEN packed' = [packed EXCEPT ![p] = <<Pack(p)>>] /\ UNCHANGED refused
       ELSE refused' = refused \union {p} /\ UNCHANGED packed
    /\ UNCHANGED <<deposit, input, clearing, missing, collected, passed, result, settlement, shown>>

-----------------------------------------------------------------------------
(* The operator's side: ecall_clear_contract_impl, step by step *)

CollateralWithoutTheFee(amount) == amount >= Collateral
CollateralSuffices(amount) == amount >= Collateral + MinerFee

ImportCollateral ==
    /\ clearing = "idle"
    /\ missing' \in {"none", "first", "last"}
    /\ IF CollateralSuffices(DepositedAmount(0))
       THEN /\ collected' = <<[amount |-> DepositedAmount(0),
                               transaction |-> Cells("action", 0, Len(deposit[0])),
                               address |-> Cells("address", 0, 1),
                               advice |-> Cells("advice", 0, 1)]>>
            /\ clearing' = "collecting"
       ELSE clearing' = "failed" /\ UNCHANGED collected
    /\ UNCHANGED <<deposit, input, packed, refused, passed, result, settlement, shown>>

\* The players are served in order; fields are told apart by their offsets.
Unpack(msg) ==
    [amount |-> Zat(Zat(msg.amount - MinerFee) - OperatorFee),
     transaction |-> Copied(msg.data, msg.transaction, msg.input - msg.transaction),
     address |-> Copied(msg.data, msg.address, msg.advice - msg.address),
     advice |-> Copied(msg.data, msg.advice, Len(msg.data) - msg.advice)]

\* core.c:171-180: the length is that of the input, the offset that of the
\* payout address.
PassedInput(msg) == Copied(msg.data, msg.address, msg.address - msg.input)

CollectFrom(p) ==
    /\ clearing = "collecting" /\ Len(collected) = p /\ packed[p] # <<>>
    /\ LET msg == Head(packed[p])
           party == Unpack(msg)
       IN  IF /\ CoversTheFees(msg.amount)
              /\ ImportsTransaction(party.transaction)
              /\ ImportsOne("address", party.address)
              /\ ImportsOne("advice", party.advice)
           THEN /\ collected' = Append(collected, party)
                /\ passed' = Append(passed, PassedInput(msg))
                /\ UNCHANGED clearing
           ELSE clearing' = "failed" /\ UNCHANGED <<collected, passed>>
    /\ UNCHANGED <<deposit, input, packed, refused, missing, result, settlement, shown>>

\* move is 1 if the two words are equal and 0 otherwise, without a branch: the
\* bits in which they differ are folded onto the lowest one.
ExclusiveOr(a, b) == (a \ b) \union (b \ a)
OrShifted(word, shift) == word \union {b - shift : b \in {c \in word : c >= shift}}
FoldButTheLast(word) ==
    OrShifted(OrShifted(OrShifted(OrShifted(word, 16), 8), 4), 2)
Fold(word) ==
    OrShifted(OrShifted(OrShifted(OrShifted(OrShifted(word, 16), 8), 4), 2), 1)
Move(i, winner) == IF 0 \in Fold(ExclusiveOr(Bits(i), Bits(winner))) THEN 0 ELSE 1

\* The lottery: the pot moves to the winner, nobody else is paid.
Evaluate(random) ==
    /\ clearing = "collecting" /\ Len(collected) = N + 1
    /\ LET winner == random % N
           pot == SumTo([p \in Players |-> collected[p + 1].amount], N)
           wins(p) == Move(p - 1, winner) = 1
       IN  result' = [payouts |-> <<Zat(Zat(collected[1].amount - MinerFee) + OperatorFee * N)>>
                                  \o [p \in Players |-> IF wins(p) THEN Zat(pot) ELSE 0],
                      outputs |-> [p \in Players |-> Cells(IF wins(p) THEN "YOU WIN!" ELSE "YOU LOSE", 0, 2)]]
    /\ clearing' = "issuing"
    /\ UNCHANGED <<deposit, input, packed, refused, missing, collected, passed, settlement, shown>>

\* The Merkle paths the host should give: one per action, bundle by bundle.
RightPaths == JoinTo([i \in 1..(N + 1) |-> Cells("path", i - 1, Len(deposit[i - 1]))], N + 1)

MerklePaths == CASE missing = "none" -> RightPaths
                 [] missing = "first" -> Tail(RightPaths)
                 [] missing = "last" -> SubSeq(RightPaths, 1, Len(RightPaths) - 1)

\* How many actions the transactions of the first n parties have.
ActionsOf(n) == SumTo([i \in 1..n |-> Len(collected[i].transaction)], n)

PathsFromTheStart(i) == SubSeq(MerklePaths, 1, Len(collected[i].transaction))

\* Each bundle takes as many paths as it has actions from where the bundle
\* before it stopped.
PathsFor(i) ==
    LET taken == ActionsOf(i - 1)
        upTo == ActionsOf(i)
    IN  SubSeq(MerklePaths, taken + 1, IF upTo < Len(MerklePaths) THEN upTo ELSE Len(MerklePaths))

\* The notes of a bundle that the advice decrypts, among the actions that
\* have a path.
NotesOf(i) ==
    {k \in 1..Len(PathsFor(i)) :
        LET cell == collected[i].transaction[k]
        IN  cell[2] = collected[i].advice[1][2] /\ Note(cell).mine}

HasSomeNote(i) == NotesOf(i) # {}
HasUniqueNote(i) == Cardinality(NotesOf(i)) = 1

Spend(i) ==
    LET k == CHOOSE k \in NotesOf(i) : TRUE
    IN  [note |-> collected[i].transaction[k], path |-> PathsFor(i)[k]]

\* The builder checks every note's path against the anchor (orchard crate).
PathFits(spend) == spend.path[2] = spend.note[2] /\ spend.path[3] = spend.note[3]

CreateTransaction ==
    /\ clearing = "issuing"
    /\ IF /\ \A i \in 1..(N + 1) : HasUniqueNote(i)
          /\ \A i \in 1..(N + 1) : PathFits(Spend(i))
       THEN /\ settlement' =
                   [spends |-> [i \in 1..(N + 1) |-> Spend(i).note],
                    pays |-> [i \in 1..(N + 1) |->
                                [to |-> collected[i].address, value |-> result.payouts[i]]]]
            /\ clearing' = "cleared"
       ELSE clearing' = "failed" /\ UNCHANGED settlement
    /\ UNCHANGED <<deposit, input, packed, refused, missing, collected, passed, result, shown>>

-----------------------------------------------------------------------------
(* The clear-contract message and get_deposits *)

DepositsFirst(p) == [i \in 1..(N + 1) |-> ActionsOf(i - 1)]

\* deposit_transactions_offsets: the output comes first, then the collateral,
\* then the deposits of the players.
Offsets(p) == [i \in 1..(N + 1) |-> Len(result.outputs[p]) + ActionsOf(i - 1)]

ClearContract(p) ==
    [output |-> 0, deposits |-> Offsets(p),
     data |-> result.outputs[p]
              \o JoinTo([i \in 1..(N + 1) |-> collected[i].transaction], N + 1)]

GetDeposits(p) ==
    /\ clearing = "cleared" /\ shown[p].deposits = <<>>
    /\ LET msg == ClearContract(p)
           end(i) == IF i <= N THEN msg.deposits[i + 1] ELSE Len(msg.data)
       IN  shown' = [shown EXCEPT ![p] =
               [output |-> Copied(msg.data, msg.output, msg.deposits[1] - msg.output),
                deposits |-> [i \in 1..(N + 1) |->
                    Copied(msg.data, msg.deposits[i], end(i) - msg.deposits[i])]]]
    /\ UNCHANGED <<deposit, input, packed, refused, clearing, missing, collected, passed, result, settlement>>

-----------------------------------------------------------------------------

TermsInit ==
    /\ deposit \in [Parties -> Bundles]
    /\ \E length \in [Players -> 0..MaxInput] :
            input = [p \in Players |-> Cells("input", p, length[p])]
    /\ packed = [p \in Players |-> <<>>]
    /\ refused = {}
    /\ clearing = "idle"
    /\ missing = "none"
    /\ collected = <<>>
    /\ passed = <<>>
    /\ result = [payouts |-> <<>>, outputs |-> <<>>]
    /\ settlement = [spends |-> <<>>, pays |-> <<>>]
    /\ shown = [p \in Players |-> [output |-> <<>>, deposits |-> <<>>]]

TermsNext ==
    \/ \E p \in Players : PackDepositAndInput(p)
    \/ ImportCollateral
    \/ \E p \in Players : CollectFrom(p)
    \/ \E random \in 0..MaxRandom : Evaluate(random)
    \/ CreateTransaction
    \/ \E p \in Players : GetDeposits(p)

TermsSpec == TermsInit /\ [][TermsNext]_vars

-----------------------------------------------------------------------------
(* What the terms promise *)

Settled == clearing = "cleared"
Shown(p) == shown[p].deposits # <<>>
SpentValue == SumTo([i \in 1..(N + 1) |-> Note(settlement.spends[i]).value], N + 1)
PaidValue == SumTo([i \in 1..(N + 1) |-> settlement.pays[i].value], N + 1)

Notes(p) == {k \in DOMAIN deposit[p] : deposit[p][k].mine}

\* A settlement made with all the Merkle paths leaves exactly the miner's fee
\* of every party: the amounts are sums over all the notes of a deposit
\* (zcash_deposited_amount), the transaction spends one note of each
\* (extract_unique_note).
FeesCovered ==
    Settled /\ missing = "none" => SpentValue = PaidValue + MinerFee * (N + 1)

\* The operator gets the collateral back and a fee from every player, at the
\* operator's own address (core.c:111 and 219).
OperatorRewarded ==
    Settled => /\ settlement.pays[1].to = Cells("address", 0, 1)
               /\ settlement.pays[1].value >= Collateral + OperatorFee * N

\* A player is told YOU WIN! exactly if the settlement pays the whole pot to
\* that player's address; one player is, and every other gets a payout of
\* zero (functionality.c:57-80 and the indices of core.c:206-219).
Pot == SumTo([p \in Players |-> DepositedAmount(p) - MinerFee - OperatorFee], N)
PaidTo(p) ==
    SumTo([i \in 1..(N + 1) |-> IF settlement.pays[i].to = Cells("address", p, 1)
                                 THEN settlement.pays[i].value ELSE 0], N + 1)
WinnerTakesThePot ==
    Settled =>
        \E winner \in Players : \A p \in Players :
            /\ PaidTo(p) = IF p = winner THEN Pot ELSE 0
            /\ Shown(p) =>
                 shown[p].output = Cells(IF p = winner THEN "YOU WIN!" ELSE "YOU LOSE", 0, 2)

\* What get_deposits shows a player for inspection are the very transactions
\* that the settlement spends, the collateral first and then the deposits in
\* the players' order (core.c:261-274 packs them, the player's core.c:203-223
\* cuts them apart).
DepositsShown ==
    \A p \in Players : Shown(p) =>
        \A i \in 1..(N + 1) :
            /\ shown[p].deposits[i] = Cells("action", i - 1, Len(deposit[i - 1]))
            /\ \E k \in DOMAIN shown[p].deposits[i] :
                    shown[p].deposits[i][k] = settlement.spends[i]

\* With the right Merkle paths only a deposit fails a contract: one of the
\* parties paid in too little, or in more notes than one.
PaysEnough(p) ==
    IF p = 0 THEN CollateralSuffices(DepositedAmount(p)) ELSE CoversTheFees(DepositedAmount(p))
Good(p) == Cardinality(Notes(p)) = 1 /\ PaysEnough(p)
GoodDepositsSettle ==
    clearing = "failed" /\ missing = "none" => \E p \in Parties : ~Good(p)

\* "Transform the deposit amounts (d_i in the paper) and inputs (x_i in the
\* paper) into payouts" (README.md:39): the functionality is given the inputs
\* the players' hosts passed to deposit_and_input.
InputsReachTheFunctionality == \A p \in DOMAIN passed : passed[p] = input[p]

=============================================================================
