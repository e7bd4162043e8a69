--------------------------- MODULE TermsInductive ---------------------------
(***************************************************************************)
(* The inductive invariant behind the terms of a contract: what every      *)
(* buffer that has been filled contains, in terms of the deposits.         *)
(***************************************************************************)
EXTENDS Terms

Fees(p) == IF p = 0 THEN 0 ELSE MinerFee + OperatorFee

\* What the operator's enclave has of a party.
Item(p) == [amount |-> DepositedAmount(p) - Fees(p),
            transaction |-> Cells("action", p, Len(deposit[p])),
            address |-> Cells("address", p, 1),
            advice |-> Cells("advice", p, 1)]

HostsGave ==
    /\ deposit \in [Parties -> Bundles]
    /\ \A p \in Players : /\ Len(input[p]) \in Nat
                          /\ input[p] = Cells("input", p, Len(input[p]))
    /\ missing \in {"none", "first", "last"}
    /\ clearing \in {"idle", "collecting", "issuing", "cleared", "failed"}

MessagesMade ==
    /\ packed = [p \in Players |-> packed[p]]
    /\ \A p \in Players : packed[p] = <<>> \/ (packed[p] = <<Pack(p)>> /\ PaysEnough(p))

CollectedInOrder ==
    /\ Len(collected) \in 0..(N + 1)
    /\ collected = [i \in 1..Len(collected) |-> Item(i - 1)]
    /\ \A i \in 1..Len(collected) : PaysEnough(i - 1)
    /\ clearing = "idle" => Len(collected) = 0
    /\ clearing = "collecting" => Len(collected) > 0
    /\ clearing \in {"issuing", "cleared"} => Len(collected) = N + 1

Message(p, winner) == Cells(IF p = winner THEN "YOU WIN!" ELSE "YOU LOSE", 0, 2)

EvaluatedFor(winner) ==
    /\ Len(result.payouts) = N + 1
    /\ result.payouts[1] = DepositedAmount(0) - MinerFee + OperatorFee * N
    /\ \A p \in Players : /\ result.payouts[p + 1] = IF p = winner THEN Pot ELSE 0
                          /\ result.outputs[p] = Message(p, winner)

OneWinner == clearing \in {"issuing", "cleared"} => \E winner \in Players : EvaluatedFor(winner)

SettlesTheDeposits ==
    clearing = "cleared" => \A i \in 1..(N + 1) :
        /\ settlement.pays[i] = [to |-> Cells("address", i - 1, 1), value |-> result.payouts[i]]
        /\ \E k \in Notes(i - 1) : /\ settlement.spends[i] = <<"action", i - 1, k>>
                                   /\ missing = "none" => Notes(i - 1) = {k}

ShowsTheDeposits ==
    /\ shown = [p \in Players |-> shown[p]]
    /\ \A p \in Players : Shown(p) =>
           /\ clearing = "cleared"
           /\ shown[p].output = result.outputs[p]
           /\ \A i \in 1..(N + 1) :
                  shown[p].deposits[i] = Cells("action", i - 1, Len(deposit[i - 1]))

(***************************************************************************)
(* The conjunction is inductive: it holds of the initial states and every  *)
(* step preserves it.                                                      *)
(***************************************************************************)
TermsConsistent ==
    /\ HostsGave
    /\ MessagesMade
    /\ CollectedInOrder
    /\ OneWinner
    /\ SettlesTheDeposits
    /\ ShowsTheDeposits
    /\ GoodDepositsSettle
=============================================================================
