----------------------------- MODULE TermsProofs -----------------------------
(***************************************************************************)
(* Proofs about the terms of a contract, for every number of players, every*)
(* set of deposit transactions, inputs of every length and every outcome of*)
(* the lottery.                                                            *)
(***************************************************************************)
EXTENDS TermsInductive, LoopsProofs, FiniteSetTheorems

(***************************************************************************)
(* Buffers.                                                                *)
(***************************************************************************)
Kinds == {"action", "input", "address", "advice", "path", "YOU WIN!", "YOU LOSE", "junk"}
Cell == Kinds \X Nat \X Nat

LEMMA CellsFacts ==
    ASSUME NEW kind, kind \in Kinds, NEW p \in Nat, NEW n \in Nat
    PROVE  /\ Cells(kind, p, n) \in Seq(Cell)
           /\ Len(Cells(kind, p, n)) = n
           /\ \A k \in 1..n : Cells(kind, p, n)[k] = <<kind, p, k>>
<1>1. \A k \in 1..n : <<kind, p, k>> \in Cell
  BY DEF Cell
<1>2. Cells(kind, p, n) \in [1..n -> Cell]
  BY <1>1 DEF Cells
<1>3. Cells(kind, p, n) \in Seq(Cell) /\ Len(Cells(kind, p, n)) = n
  BY <1>2, LenProperties
<1> QED  BY <1>3 DEF Cells

LEMMA OneCell ==
    ASSUME NEW kind, NEW p, NEW q, Cells(kind, p, 1) = Cells(kind, q, 1)
    PROVE  p = q
<1>1. 1 \in 1..1
  OBVIOUS
<1>2. Cells(kind, p, 1)[1] = <<kind, p, 1>> /\ Cells(kind, q, 1)[1] = <<kind, q, 1>>
  BY <1>1 DEF Cells
<1> QED  BY <1>2

(***************************************************************************)
(* The middle piece of a buffer is what is copied from where it starts.    *)
(***************************************************************************)
LEMMA CopiedPiece ==
    ASSUME NEW C, NEW data \in Seq(C), NEW piece \in Seq(C), NEW offset \in Nat,
           offset + Len(piece) <= Len(data),
           \A k \in 1..Len(piece) : data[offset + k] = piece[k]
    PROVE  Copied(data, offset, Len(piece)) = piece
<1>1. piece = [k \in 1..Len(piece) |-> piece[k]]
  OBVIOUS
<1>2. \A k \in 1..Len(piece) :
          (IF offset + k <= Len(data) THEN data[offset + k] ELSE Junk) = piece[k]
  BY LenProperties
<1>3. [k \in 1..Len(piece) |-> IF offset + k <= Len(data) THEN data[offset + k] ELSE Junk]
      = [k \in 1..Len(piece) |-> piece[k]]
  BY <1>2
<1> QED  BY <1>1, <1>3 DEF Copied

(***************************************************************************)
(* Where the cells of an item are in a buffer.                             *)
(***************************************************************************)
Contains(data, offset, kind, p, n) ==
    offset + n <= Len(data) /\ \A k \in 1..n : data[offset + k] = <<kind, p, k>>

LEMMA CopiedCells ==
    ASSUME NEW kind, kind \in Kinds, NEW p \in Nat, NEW n \in Nat,
           NEW data \in Seq(Cell), NEW offset \in Nat, Contains(data, offset, kind, p, n)
    PROVE  Copied(data, offset, n) = Cells(kind, p, n)
<1>1. PICK piece : piece = Cells(kind, p, n)
  OBVIOUS
<1>2. piece \in Seq(Cell) /\ Len(piece) = n /\ \A k \in 1..n : piece[k] = <<kind, p, k>>
  BY <1>1, CellsFacts
<1>3. offset + Len(piece) <= Len(data) /\ \A k \in 1..Len(piece) : data[offset + k] = piece[k]
  BY <1>2 DEF Contains
<1>4. Copied(data, offset, Len(piece)) = piece
  BY <1>2, <1>3, CopiedPiece
<1> QED  BY <1>1, <1>2, <1>4

LEMMA ContainsCells ==
    ASSUME NEW kind, kind \in Kinds, NEW p \in Nat, NEW n \in Nat
    PROVE  Cells(kind, p, n) \in Seq(Cell) /\ Len(Cells(kind, p, n)) = n /\ Contains(Cells(kind, p, n), 0, kind, p, n)
<1>1. PICK piece : piece = Cells(kind, p, n)
  OBVIOUS
<1>2. piece \in Seq(Cell) /\ Len(piece) = n /\ \A k \in 1..n : piece[k] = <<kind, p, k>>
  BY <1>1, CellsFacts
<1>3. Contains(piece, 0, kind, p, n)
  BY <1>2 DEF Contains
<1> QED  BY <1>1, <1>2, <1>3

LEMMA Joined ==
    ASSUME NEW s \in Seq(Cell), NEW t \in Seq(Cell)
    PROVE  s \o t \in Seq(Cell) /\ Len(s \o t) = Len(s) + Len(t)
  OBVIOUS

LEMMA ContainsLeft ==
    ASSUME NEW s \in Seq(Cell), NEW t \in Seq(Cell), NEW kind, NEW p, NEW n \in Nat, NEW offset \in Nat,
           Contains(s, offset, kind, p, n)
    PROVE  Contains(s \o t, offset, kind, p, n)
<1>1. offset + n <= Len(s) /\ \A k \in 1..n : s[offset + k] = <<kind, p, k>>
  BY DEF Contains
<1>2. Len(s) \in Nat /\ Len(t) \in Nat /\ Len(s \o t) = Len(s) + Len(t)
  OBVIOUS
<1>3. \A k \in 1..n : (s \o t)[offset + k] = s[offset + k]
  <2>1. SUFFICES ASSUME NEW k \in 1..n PROVE (s \o t)[offset + k] = s[offset + k]
    OBVIOUS
  <2>2. PICK x : x = offset + k
    OBVIOUS
  <2>3. x \in 1..(Len(s) + Len(t)) /\ x <= Len(s)
    BY <1>1, <1>2, <2>2
  <2>4. (s \o t)[x] = s[x]
    BY <2>3, ConcatProperties
  <2> QED  BY <2>2, <2>4
<1>4. offset + n <= Len(s \o t)
  BY <1>1, <1>2
<1> QED  BY <1>1, <1>3, <1>4 DEF Contains

LEMMA ContainsRight ==
    ASSUME NEW s \in Seq(Cell), NEW t \in Seq(Cell), NEW kind, NEW p, NEW n \in Nat,
           NEW offset, offset = Len(s), Contains(t, 0, kind, p, n)
    PROVE  Contains(s \o t, offset, kind, p, n)
<1>1. n <= Len(t) /\ \A k \in 1..n : t[k] = <<kind, p, k>>
  BY DEF Contains
<1>2. Len(s) \in Nat /\ Len(t) \in Nat /\ Len(s \o t) = Len(s) + Len(t)
  OBVIOUS
<1>3. \A k \in 1..n : (s \o t)[offset + k] = t[k]
  <2>1. SUFFICES ASSUME NEW k \in 1..n PROVE (s \o t)[offset + k] = t[k]
    OBVIOUS
  <2>2. PICK x : x = offset + k
    OBVIOUS
  <2>3. x \in 1..(Len(s) + Len(t)) /\ ~(x <= Len(s)) /\ x - Len(s) = k
    BY <1>1, <1>2, <2>2
  <2>4. (s \o t)[x] = t[x - Len(s)]
    BY <2>3, ConcatProperties
  <2> QED  BY <2>2, <2>3, <2>4
<1>4. offset + n <= Len(s \o t)
  BY <1>1, <1>2
<1> QED  BY <1>1, <1>3, <1>4 DEF Contains

-----------------------------------------------------------------------------
(***************************************************************************)
(* Amounts.                                                                *)
(***************************************************************************)
LEMMA Numbers ==
    /\ N \in Nat /\ N >= 1 /\ N <= INT_MAX
    /\ Collateral \in Nat /\ MinerFee \in Nat /\ OperatorFee \in Nat /\ MaxMoney \in Nat
    /\ ZatRange \in Nat
  BY NumbersAreNatural

LEMMA ZatFits ==
    ASSUME NEW x \in Nat, x <= MaxMoney * N + MaxMoney
    PROVE  Zat(x) = x
<1>1. MaxMoney * (N + 1) = MaxMoney * N + MaxMoney
  BY Numbers
<1>2. MaxMoney * N + MaxMoney < ZatRange /\ MaxMoney * N + MaxMoney \in Nat
  BY <1>1, Numbers, AmountsFit
<1>3. x < ZatRange
  BY <1>2, Numbers
<1> QED  BY <1>3, Numbers DEF Zat

Action == [mine : BOOLEAN, value : Nat]

LEMMA DepositFacts ==
    ASSUME HostsGave, NEW p \in Parties
    PROVE  /\ p \in Nat
           /\ deposit[p] \in Seq(Action)
           /\ Len(deposit[p]) \in Nat /\ DOMAIN deposit[p] = 1..Len(deposit[p])
           /\ DepositedAmount(p) \in 0..MaxMoney
<1>1. deposit[p] \in Bundles
  BY DEF HostsGave
<1>2. deposit[p] \in Seq(Action) /\ AmountOf(deposit[p]) <= MaxMoney
  BY <1>1, BundlesAreTransactions, AmountsFit DEF Action
<1>3. Len(deposit[p]) \in Nat /\ DOMAIN deposit[p] = 1..Len(deposit[p])
  BY <1>2
<1> DEFINE v == [k \in DOMAIN deposit[p] |-> IF deposit[p][k].mine THEN deposit[p][k].value ELSE 0]
<1>4. \A k \in 1..Len(deposit[p]) : v[k] \in Nat
  <2>1. SUFFICES ASSUME NEW k \in 1..Len(deposit[p]) PROVE v[k] \in Nat
    OBVIOUS
  <2>2. deposit[p][k] \in Action
    BY <1>2
  <2>3. deposit[p][k].value \in Nat
    BY <2>2 DEF Action
  <2>4. k \in DOMAIN deposit[p]
    BY <1>3
  <2>5. v[k] = IF deposit[p][k].mine THEN deposit[p][k].value ELSE 0
    BY <2>4
  <2> QED  BY <2>3, <2>5
<1>5. AmountOf(deposit[p]) = SumTo(v, Len(deposit[p]))
  BY DEF AmountOf
<1> HIDE DEF v
<1>6. SumTo(v, 0) <= SumTo(v, Len(deposit[p])) /\ 0 \in 0..Len(deposit[p])
  BY <1>3, <1>4, SumGrows
<1>7. SumTo(v, Len(deposit[p])) \in Int
  <2>1. \A k \in 1..Len(deposit[p]) : v[k] \in Int
    BY <1>4
  <2>2. \A m \in 0..Len(deposit[p]) : SumTo(v, m) \in Int
    BY <1>3, <2>1, SumType
  <2> QED  BY <1>3, <2>2
<1>8. AmountOf(deposit[p]) \in 0..MaxMoney
  BY <1>2, <1>5, <1>6, <1>7, SumEmpty, Numbers
<1>9. p \in Nat
  BY Numbers DEF Parties
<1> QED  BY <1>2, <1>3, <1>8, <1>9 DEF DepositedAmount

(***************************************************************************)
(* A deposit with one note for the wallet has its whole amount in it.      *)
(***************************************************************************)
LEMMA OneNote ==
    ASSUME HostsGave, NEW p \in Parties, NEW k, Notes(p) = {k}
    PROVE  deposit[p][k].value = DepositedAmount(p)
<1>1. deposit[p] \in Seq(Action) /\ Len(deposit[p]) \in Nat /\ DOMAIN deposit[p] = 1..Len(deposit[p])
  BY DepositFacts
<1>2. k \in 1..Len(deposit[p]) /\ deposit[p][k].mine
  BY <1>1 DEF Notes
<1>3. \A i \in 1..Len(deposit[p]) : i # k => ~ deposit[p][i].mine
  BY <1>1 DEF Notes
<1> DEFINE v == [i \in DOMAIN deposit[p] |-> IF deposit[p][i].mine THEN deposit[p][i].value ELSE 0]
<1>4. v[k] = deposit[p][k].value /\ v[k] \in Int
  <2>1. deposit[p][k] \in Action
    BY <1>1, <1>2
  <2>2. deposit[p][k].value \in Int
    BY <2>1 DEF Action
  <2>3. k \in DOMAIN deposit[p]
    BY <1>1, <1>2
  <2> QED  BY <1>2, <2>2, <2>3
<1>5. \A i \in 1..Len(deposit[p]) : i # k => v[i] = 0
  BY <1>1, <1>3
<1>6. AmountOf(deposit[p]) = SumTo(v, Len(deposit[p]))
  BY DEF AmountOf
<1> HIDE DEF v
<1>7. SumTo(v, Len(deposit[p])) = v[k]
  BY <1>1, <1>2, <1>4, <1>5, SumOfOne
<1> QED  BY <1>4, <1>6, <1>7 DEF DepositedAmount

-----------------------------------------------------------------------------
(***************************************************************************)
(* The message of deposit_and_input: the operator cuts out of it what the  *)
(* player's enclave has put there.                                         *)
(***************************************************************************)
LEMMA PlayersAreParties == ASSUME NEW p \in Players PROVE p \in Parties /\ p \in Nat /\ p # 0 /\ p >= 1 /\ p <= N
  BY Numbers DEF Players, Parties

LaidOut(m, data, p, actions, bytes) ==
    /\ actions \in Nat /\ bytes \in Nat
    /\ m.amount = DepositedAmount(p)
    /\ m.transaction = 0 /\ m.input = actions
    /\ m.address = actions + bytes /\ m.advice = actions + bytes + 1
    /\ data \in Seq(Cell) /\ Len(data) = actions + bytes + 2
    /\ Contains(data, 0, "action", p, actions)
    /\ Contains(data, actions + bytes, "address", p, 1)
    /\ Contains(data, actions + bytes + 1, "advice", p, 1)

LEMMA MessageLayout ==
    ASSUME HostsGave, NEW p \in Players
    PROVE  LaidOut(Pack(p), Pack(p).data, p, Len(deposit[p]), Len(input[p]))
<1>0. PICK actions, bytes, m, data :
          actions = Len(deposit[p]) /\ bytes = Len(input[p]) /\ m = Pack(p) /\ data = m.data
  OBVIOUS
<1>1. actions \in Nat /\ bytes \in Nat /\ p \in Nat /\ input[p] = Cells("input", p, bytes)
  BY <1>0, PlayersAreParties, DepositFacts DEF HostsGave
<1>2. /\ "action" \in Kinds /\ "input" \in Kinds /\ "address" \in Kinds /\ "advice" \in Kinds
      /\ 1 \in Nat /\ 0 \in Nat
  BY DEF Kinds
<1>3. PICK a, b, c, d : /\ a = Cells("action", p, actions) /\ b = Cells("input", p, bytes)
                       /\ c = Cells("address", p, 1) /\ d = Cells("advice", p, 1)
  OBVIOUS
<1>4. a \in Seq(Cell) /\ Len(a) = actions /\ Contains(a, 0, "action", p, actions)
  BY <1>1, <1>2, <1>3, ContainsCells
<1>5. b \in Seq(Cell) /\ Len(b) = bytes
  BY <1>1, <1>2, <1>3, ContainsCells
<1>6. c \in Seq(Cell) /\ Len(c) = 1 /\ Contains(c, 0, "address", p, 1)
  BY <1>1, <1>2, <1>3, ContainsCells
<1>7. d \in Seq(Cell) /\ Len(d) = 1 /\ Contains(d, 0, "advice", p, 1)
  BY <1>1, <1>2, <1>3, ContainsCells
<1>8. m = [amount |-> DepositedAmount(p),
           transaction |-> 0, input |-> Len(a), address |-> Len(a) + Len(b), advice |-> Len(a) + Len(b) + 1,
           data |-> a \o b \o c \o d]
  BY <1>0, <1>1, <1>3, Zenon DEF Pack
<1>9. PICK ab, abc, at, last : /\ ab = a \o b /\ abc = ab \o c
                              /\ at = actions + bytes /\ last = actions + bytes + 1
  OBVIOUS
<1>10. at \in Nat /\ last \in Nat
  BY <1>1, <1>9
<1>11. ab \in Seq(Cell) /\ Len(ab) = at
  <2>1. ab \in Seq(Cell) /\ Len(ab) = Len(a) + Len(b)
    BY <1>4, <1>5, <1>9, Joined
  <2> QED  BY <1>4, <1>5, <1>9, <2>1
<1>12. abc \in Seq(Cell) /\ Len(abc) = last
  <2>1. abc \in Seq(Cell) /\ Len(abc) = Len(ab) + Len(c)
    BY <1>6, <1>9, <1>11, Joined
  <2>2. Len(ab) + Len(c) = last
    BY <1>6, <1>9, <1>11
  <2> QED  BY <2>1, <2>2
<1>13. data = abc \o d
  BY <1>0, <1>8, <1>9
<1>14. data \in Seq(Cell) /\ Len(data) = actions + bytes + 2
  <2>1. data \in Seq(Cell) /\ Len(data) = Len(abc) + Len(d)
    BY <1>7, <1>12, <1>13, Joined
  <2>2. Len(abc) + Len(d) = actions + bytes + 2
    BY <1>1, <1>7, <1>9, <1>12
  <2> QED  BY <2>1, <2>2
<1>15. Contains(data, 0, "action", p, actions)
  <2>1. Contains(ab, 0, "action", p, actions)
    BY <1>1, <1>2, <1>4, <1>5, <1>9, ContainsLeft
  <2>2. Contains(abc, 0, "action", p, actions)
    BY <1>1, <1>2, <1>6, <1>9, <1>11, <2>1, ContainsLeft
  <2> QED  BY <1>1, <1>2, <1>7, <1>12, <1>13, <2>2, ContainsLeft
<1>16. Contains(data, at, "address", p, 1)
  <2>1. Contains(abc, at, "address", p, 1)
    BY <1>2, <1>6, <1>9, <1>11, ContainsRight
  <2> QED  BY <1>2, <1>7, <1>10, <1>12, <1>13, <2>1, ContainsLeft
<1>17. Contains(data, last, "advice", p, 1)
  BY <1>2, <1>7, <1>12, <1>13, ContainsRight
<1>18. m.transaction = 0 /\ m.input = actions /\ m.address = at /\ m.advice = last
  <2>1. Len(a) + Len(b) = at /\ Len(a) + Len(b) + 1 = last
    BY <1>4, <1>5, <1>9
  <2> QED  BY <1>4, <1>8, <2>1
<1>19. m.amount = DepositedAmount(p)
  BY <1>8
<1>20. LaidOut(m, data, p, actions, bytes)
  BY <1>1, <1>9, <1>14, <1>15, <1>16, <1>17, <1>18, <1>19 DEF LaidOut
<1> QED  BY <1>0, <1>20

LEMMA Unpacked ==
    ASSUME HostsGave, NEW p \in Players, PaysEnough(p)
    PROVE  Unpack(Pack(p)) = Item(p)
<1>1. PICK actions, bytes, m, data :
          actions = Len(deposit[p]) /\ bytes = Len(input[p]) /\ m = Pack(p) /\ data = m.data
  OBVIOUS
<1>2. /\ actions \in Nat /\ bytes \in Nat
      /\ m.amount = DepositedAmount(p) /\ m.transaction = 0 /\ m.input = actions
      /\ m.address = actions + bytes /\ m.advice = actions + bytes + 1
      /\ data \in Seq(Cell) /\ Len(data) = actions + bytes + 2
      /\ Contains(data, 0, "action", p, actions)
      /\ Contains(data, actions + bytes, "address", p, 1)
      /\ Contains(data, actions + bytes + 1, "advice", p, 1)
  <2>1. LaidOut(m, data, p, actions, bytes)
    BY <1>1, MessageLayout
  <2> QED  BY <2>1 DEF LaidOut
<1>3. p \in Nat /\ p # 0 /\ p \in Parties /\ 1 \in Nat /\ 0 \in Nat
  BY PlayersAreParties
<1>4. "action" \in Kinds /\ "address" \in Kinds /\ "advice" \in Kinds
  BY DEF Kinds
<1>5. Zat(Zat(m.amount - MinerFee) - OperatorFee) = DepositedAmount(p) - Fees(p)
  <2>1. DepositedAmount(p) \in 0..MaxMoney /\ DepositedAmount(p) >= MinerFee + OperatorFee
    BY <1>3, DepositFacts DEF PaysEnough, CoversTheFees
  <2>2. MaxMoney * N \in Nat
    BY Numbers
  <2>3. /\ DepositedAmount(p) - MinerFee \in Nat
        /\ DepositedAmount(p) - MinerFee <= MaxMoney * N + MaxMoney
        /\ (DepositedAmount(p) - MinerFee) - OperatorFee \in Nat
        /\ (DepositedAmount(p) - MinerFee) - OperatorFee <= MaxMoney * N + MaxMoney
    BY <2>1, <2>2, Numbers
  <2>4. Zat(m.amount - MinerFee) = DepositedAmount(p) - MinerFee
    BY <1>2, <2>3, ZatFits
  <2>5. Zat((DepositedAmount(p) - MinerFee) - OperatorFee) = (DepositedAmount(p) - MinerFee) - OperatorFee
    BY <2>3, ZatFits
  <2> QED  BY <1>3, <2>1, <2>4, <2>5, Numbers DEF Fees
<1>6. Copied(data, m.transaction, m.input - m.transaction) = Cells("action", p, Len(deposit[p]))
  <2>1. Copied(data, 0, actions) = Cells("action", p, actions)
    BY <1>2, <1>3, <1>4, CopiedCells
  <2>2. m.input - m.transaction = actions
    BY <1>2
  <2> QED  BY <1>1, <1>2, <2>1, <2>2
<1>7. Copied(data, m.address, m.advice - m.address) = Cells("address", p, 1)
  <2>1. m.address \in Nat /\ Contains(data, m.address, "address", p, 1)
    BY <1>2
  <2>2. Copied(data, m.address, 1) = Cells("address", p, 1)
    BY <1>2, <1>3, <1>4, <2>1, CopiedCells
  <2>3. m.advice - m.address = 1
    BY <1>2
  <2> QED  BY <2>2, <2>3
<1>8. Copied(data, m.advice, Len(data) - m.advice) = Cells("advice", p, 1)
  <2>1. m.advice \in Nat /\ Contains(data, m.advice, "advice", p, 1)
    BY <1>2
  <2>2. Copied(data, m.advice, 1) = Cells("advice", p, 1)
    BY <1>2, <1>3, <1>4, <2>1, CopiedCells
  <2>3. Len(data) - m.advice = 1
    BY <1>2
  <2> QED  BY <2>2, <2>3
<1>9. Unpack(m) = Item(p)
  BY <1>1, <1>5, <1>6, <1>7, <1>8, Zenon DEF Unpack, Item
<1> QED  BY <1>1, <1>9

-----------------------------------------------------------------------------
(***************************************************************************)
(* The constant-time comparison of the lottery: folding a word onto its    *)
(* lowest bit tells whether it has any bit at all.                         *)
(***************************************************************************)
HasBelow(word, n) == word \subseteq 0..31 /\ \E b \in word : b < n

LEMMA ShiftHalves ==
    ASSUME NEW word, NEW shift \in Nat \ {0}, NEW n \in Nat, n = 2 * shift, HasBelow(word, n)
    PROVE  HasBelow(OrShifted(word, shift), shift)
<1>1. word \subseteq 0..31 /\ \E b \in word : b < n
  BY DEF HasBelow
<1>2. PICK b \in word : b < n
  BY <1>1
<1>3. OrShifted(word, shift) \subseteq 0..31
  <2>1. SUFFICES ASSUME NEW x \in OrShifted(word, shift) PROVE x \in 0..31
    OBVIOUS
  <2>2. x \in word \/ \E c \in word : c >= shift /\ x = c - shift
    BY <2>1 DEF OrShifted
  <2>3. ASSUME NEW c \in word, c >= shift, x = c - shift PROVE x \in 0..31
    <3>1. c \in 0..31
      BY <1>1
    <3> QED  BY <2>3, <3>1
  <2> QED  BY <1>1, <2>2, <2>3
<1>4. CASE b < shift
  BY <1>3, <1>4, <1>2 DEF HasBelow, OrShifted
<1>5. CASE b >= shift
  <2>1. b - shift \in OrShifted(word, shift)
    BY <1>5 DEF OrShifted
  <2>2. b \in 0..31 /\ b - shift < shift
    BY <1>1, <1>2
  <2> QED  BY <1>3, <2>1, <2>2 DEF HasBelow
<1>6. b \in 0..31
  BY <1>1
<1> QED  BY <1>4, <1>5, <1>6

LEMMA FoldLemma ==
    ASSUME NEW word, word \subseteq 0..31
    PROVE  0 \in Fold(word) <=> word # {}
<1>1. ASSUME word = {} PROVE 0 \notin Fold(word)
  <2>1. \A shift : OrShifted({}, shift) = {}
    BY DEF OrShifted
  <2> QED  BY <1>1, <2>1 DEF Fold
<1>2. ASSUME word # {} PROVE 0 \in Fold(word)
  <2>1. PICK w1, w2, w3, w4, w5 :
            /\ w1 = OrShifted(word, 16) /\ w2 = OrShifted(w1, 8) /\ w3 = OrShifted(w2, 4)
            /\ w4 = OrShifted(w3, 2) /\ w5 = OrShifted(w4, 1)
    OBVIOUS
  <2>2. /\ 16 \in Nat \ {0} /\ 8 \in Nat \ {0} /\ 4 \in Nat \ {0} /\ 2 \in Nat \ {0} /\ 1 \in Nat \ {0}
        /\ 32 = 2 * 16 /\ 16 = 2 * 8 /\ 8 = 2 * 4 /\ 4 = 2 * 2 /\ 2 = 2 * 1 /\ 32 \in Nat
    OBVIOUS
  <2>3. HasBelow(word, 32)
    <3>1. PICK b \in word : TRUE
      BY <1>2
    <3>2. b \in 0..31
      OBVIOUS
    <3>3. b < 32
      BY <3>2
    <3> QED  BY <3>1, <3>3 DEF HasBelow
  <2>4. HasBelow(w1, 16)
    BY <2>1, <2>2, <2>3, ShiftHalves
  <2>5. HasBelow(w2, 8)
    BY <2>1, <2>2, <2>4, ShiftHalves
  <2>6. HasBelow(w3, 4)
    BY <2>1, <2>2, <2>5, ShiftHalves
  <2>7. HasBelow(w4, 2)
    BY <2>1, <2>2, <2>6, ShiftHalves
  <2>8. HasBelow(w5, 1)
    BY <2>1, <2>2, <2>7, ShiftHalves
  <2>9. 0 \in w5
    <3>1. PICK b \in w5 : b < 1 /\ b \in 0..31
      BY <2>8 DEF HasBelow
    <3>2. b = 0
      BY <3>1
    <3> QED  BY <3>1, <3>2
  <2>10. Fold(word) = w5
    BY <2>1 DEF Fold
  <2> QED  BY <2>9, <2>10
<1> QED  BY <1>1, <1>2

LEMMA MoveTells ==
    ASSUME NEW i \in Nat, NEW winner \in Nat, i <= INT_MAX, winner <= INT_MAX
    PROVE  Move(i, winner) = 1 <=> i = winner
<1>1. PICK a, b : a = Bits(i) /\ b = Bits(winner)
  OBVIOUS
<1>2. ExclusiveOr(a, b) \subseteq 0..31
  BY <1>1 DEF ExclusiveOr, Bits
<1>3. 0 \in Fold(ExclusiveOr(a, b)) <=> ExclusiveOr(a, b) # {}
  BY <1>2, FoldLemma
<1>4. ExclusiveOr(a, b) = {} <=> a = b
  BY DEF ExclusiveOr
<1>5. a = b <=> i = winner
  BY <1>1, BitsDetermine
<1>6. Move(i, winner) = IF 0 \in Fold(ExclusiveOr(a, b)) THEN 0 ELSE 1
  BY <1>1 DEF Move
<1>7. Move(i, winner) = 1 <=> 0 \notin Fold(ExclusiveOr(a, b))
  BY <1>6
<1> QED  BY <1>3, <1>4, <1>5, <1>7

-----------------------------------------------------------------------------
(***************************************************************************)
(* What the operator's enclave has collected is never less than the fees,  *)
(* and the pot and the operator's payout fit a zat_t.                      *)
(***************************************************************************)
LEMMA Collected ==
    ASSUME HostsGave, CollectedInOrder, NEW p \in Parties, p + 1 <= Len(collected)
    PROVE  /\ p + 1 \in 1..Len(collected) /\ collected[p + 1] = Item(p)
           /\ collected[p + 1].amount = DepositedAmount(p) - Fees(p)
           /\ collected[p + 1].transaction = Cells("action", p, Len(deposit[p]))
           /\ collected[p + 1].address = Cells("address", p, 1)
           /\ collected[p + 1].advice = Cells("advice", p, 1)
           /\ PaysEnough(p)
<1>1. p \in Nat /\ Len(collected) \in Nat
  <2>1. Len(collected) \in 0..(N + 1)
    BY DEF CollectedInOrder
  <2>2. Len(collected) \in Nat
    BY <2>1, Numbers
  <2> QED  BY <2>2, DepositFacts
<1>2. PICK i : i = p + 1
  OBVIOUS
<1>3. i \in 1..Len(collected) /\ i - 1 = p
  BY <1>1, <1>2
<1>4. PICK c : c = [j \in 1..Len(collected) |-> Item(j - 1)]
  OBVIOUS
<1>5. c = collected
  BY <1>4 DEF CollectedInOrder
<1>6. c[i] = Item(i - 1)
  BY <1>3, <1>4
<1>7. collected[i] = Item(p)
  BY <1>3, <1>5, <1>6
<1>8. PaysEnough(p)
  BY <1>3 DEF CollectedInOrder
<1> QED  BY <1>2, <1>3, <1>7, <1>8 DEF Item

LEMMA FeesFit ==
    ASSUME HostsGave, NEW p \in Parties, PaysEnough(p)
    PROVE  DepositedAmount(p) - Fees(p) \in 0..MaxMoney /\ Fees(p) \in Nat
<1>1. DepositedAmount(p) \in 0..MaxMoney
  BY DepositFacts
<1> QED  BY <1>1, Numbers DEF PaysEnough, CollateralSuffices, CoversTheFees, Fees

LEMMA ProductGrows ==
    ASSUME NEW a \in Nat, NEW b \in Nat, NEW n \in Nat, a <= b
    PROVE  a * n <= b * n /\ a * n \in Nat /\ b * n \in Nat
<1>1. PICK d \in Nat : b = a + d
  <2>1. b - a \in Nat /\ b = a + (b - a)
    OBVIOUS
  <2> QED  BY <2>1
<1>2. a * n \in Nat /\ d * n \in Nat
  OBVIOUS
<1>3. (a + d) * n = a * n + d * n
  OBVIOUS
<1> QED  BY <1>1, <1>2, <1>3

PotShares == [p \in Players |-> DepositedAmount(p) - MinerFee - OperatorFee]

LEMMA PotFits ==
    ASSUME HostsGave, \A p \in Players : PaysEnough(p)
    PROVE  /\ Pot = SumTo(PotShares, N)
           /\ \A p \in Players : PotShares[p] = DepositedAmount(p) - Fees(p)
           /\ \A p \in 1..N : PotShares[p] \in 0..MaxMoney
           /\ Pot \in 0..(N * MaxMoney)
<1>1. \A p \in Players : PotShares[p] = DepositedAmount(p) - Fees(p) /\ PotShares[p] \in 0..MaxMoney
  <2>1. SUFFICES ASSUME NEW p \in Players
                 PROVE  PotShares[p] = DepositedAmount(p) - Fees(p) /\ PotShares[p] \in 0..MaxMoney
    OBVIOUS
  <2>2. p \in Parties /\ p # 0
    BY PlayersAreParties
  <2>3. DepositedAmount(p) \in 0..MaxMoney
    BY <2>2, DepositFacts
  <2>4. Fees(p) = MinerFee + OperatorFee
    BY <2>2 DEF Fees
  <2>5. DepositedAmount(p) - Fees(p) \in 0..MaxMoney
    BY <2>2, FeesFit
  <2>6. PotShares[p] = DepositedAmount(p) - MinerFee - OperatorFee
    BY DEF PotShares
  <2>7. PotShares[p] = DepositedAmount(p) - Fees(p)
    BY <2>3, <2>4, <2>6, Numbers
  <2> QED  BY <2>5, <2>7
<1>2. Pot = SumTo(PotShares, N)
  BY DEF Pot, PotShares
<1>3. \A p \in 1..N : PotShares[p] \in 0..MaxMoney
  BY <1>1 DEF Players
<1>4. N \in 0..N /\ N \in Nat /\ MaxMoney \in Nat
  BY Numbers
<1>5. \A m \in 0..N : SumTo(PotShares, m) \in 0..(m * MaxMoney)
  BY <1>3, <1>4, SumBounds
<1> QED  BY <1>1, <1>2, <1>3, <1>4, <1>5

LEMMA PayoutsFit ==
    ASSUME HostsGave, \A p \in Parties : PaysEnough(p)
    PROVE  /\ Zat(Pot) = Pot
           /\ Zat(Zat(DepositedAmount(0) - MinerFee) + OperatorFee * N)
              = DepositedAmount(0) - MinerFee + OperatorFee * N
<1>1. \A p \in Players : PaysEnough(p) /\ p \in Parties
  BY PlayersAreParties
<1>2. PICK most : most = MaxMoney * N
  OBVIOUS
<1>3. most \in Nat /\ N * MaxMoney = most
  BY <1>2, Numbers
<1>4. Pot \in Nat /\ Pot <= MaxMoney * N + MaxMoney
  <2>1. Pot \in 0..(N * MaxMoney)
    BY <1>1, PotFits
  <2> QED  BY <1>2, <1>3, <2>1, Numbers
<1>5. 0 \in Parties /\ 1 \in Players
  BY Numbers DEF Parties, Players
<1>6. DepositedAmount(0) \in 0..MaxMoney /\ DepositedAmount(0) >= Collateral + MinerFee
  BY <1>5, DepositFacts DEF PaysEnough, CollateralSuffices
<1>7. DepositedAmount(1) \in 0..MaxMoney /\ DepositedAmount(1) >= MinerFee + OperatorFee
  BY <1>1, <1>5, DepositFacts DEF PaysEnough, CoversTheFees
<1>8. OperatorFee <= MaxMoney
  BY <1>7, Numbers
<1>9. OperatorFee * N <= most /\ OperatorFee * N \in Nat
  BY <1>2, <1>8, Numbers, ProductGrows
<1>10. PICK fees : fees = OperatorFee * N
  OBVIOUS
<1>11. /\ DepositedAmount(0) - MinerFee \in Nat
       /\ DepositedAmount(0) - MinerFee <= most + MaxMoney
       /\ DepositedAmount(0) - MinerFee + fees \in Nat
       /\ DepositedAmount(0) - MinerFee + fees <= most + MaxMoney
  BY <1>3, <1>6, <1>9, <1>10, Numbers
<1>12. Zat(DepositedAmount(0) - MinerFee) = DepositedAmount(0) - MinerFee
  BY <1>2, <1>11, ZatFits
<1>13. Zat(DepositedAmount(0) - MinerFee + fees) = DepositedAmount(0) - MinerFee + fees
  BY <1>2, <1>11, ZatFits
<1>14. Zat(Pot) = Pot
  BY <1>4, ZatFits
<1> QED  BY <1>10, <1>12, <1>13, <1>14

-----------------------------------------------------------------------------
(***************************************************************************)
(* What only the hosts' choices determine changes with them only.          *)
(***************************************************************************)
LEMMA Frame ==
    ASSUME deposit' = deposit, input' = input
    PROVE  /\ \A p : /\ Item(p)' = Item(p)
                     /\ Pack(p)' = Pack(p)
                     /\ DepositedAmount(p)' = DepositedAmount(p)
                     /\ PaysEnough(p)' <=> PaysEnough(p)
                     /\ Good(p)' <=> Good(p)
                     /\ Notes(p)' = Notes(p)
           /\ Pot' = Pot
<1>1. \A p : DepositedAmount(p)' = DepositedAmount(p)
  BY DEF DepositedAmount
<1>2. \A p : Notes(p)' = Notes(p)
  BY DEF Notes
<1>3. \A p : Item(p)' = Item(p)
  BY <1>1 DEF Item
<1>4. \A p : Pack(p)' = Pack(p)
  BY <1>1 DEF Pack
<1>5. \A p : PaysEnough(p)' <=> PaysEnough(p)
  BY <1>1 DEF PaysEnough
<1>6. \A p : Good(p)' <=> Good(p)
  BY <1>2, <1>5 DEF Good
<1>7. Pot' = Pot
  BY <1>1 DEF Pot
<1> QED  BY <1>1, <1>2, <1>3, <1>4, <1>5, <1>6, <1>7

-----------------------------------------------------------------------------
(***************************************************************************)
(* A conjunct of the invariant is kept by a step that leaves alone what it *)
(* is about.                                                               *)
(***************************************************************************)
Clearings == {"idle", "collecting", "issuing", "cleared", "failed"}

LEMMA HostsKept ==
    ASSUME HostsGave, deposit' = deposit, input' = input,
           missing' = missing \/ missing' \in {"none", "first", "last"},
           clearing' \in Clearings
    PROVE  HostsGave'
  BY DEF HostsGave, Clearings

LEMMA MessagesKept ==
    ASSUME MessagesMade, deposit' = deposit, input' = input, packed' = packed
    PROVE  MessagesMade'
<1>1. ASSUME NEW p \in Players
      PROVE  packed'[p] = <<>> \/ (packed'[p] = <<Pack(p)'>> /\ PaysEnough(p)')
  <2>1. packed[p] = <<>> \/ (packed[p] = <<Pack(p)>> /\ PaysEnough(p))
    BY DEF MessagesMade
  <2>2. Pack(p)' = Pack(p) /\ (PaysEnough(p)' <=> PaysEnough(p))
    BY Frame
  <2> QED  BY <2>1, <2>2
<1>2. packed' = [p \in Players |-> packed'[p]]
  BY DEF MessagesMade
<1> QED  BY <1>1, <1>2 DEF MessagesMade

LEMMA CollectionKept ==
    ASSUME CollectedInOrder, deposit' = deposit, input' = input, collected' = collected,
           clearing' = "idle" => Len(collected) = 0,
           clearing' = "collecting" => Len(collected) > 0,
           clearing' \in {"issuing", "cleared"} => Len(collected) = N + 1
    PROVE  CollectedInOrder'
<1>1. \A p : Item(p)' = Item(p) /\ (PaysEnough(p)' <=> PaysEnough(p))
  BY Frame
<1>2. collected = [i \in 1..Len(collected) |-> Item(i - 1)]
  BY DEF CollectedInOrder
<1>3. collected' = [i \in 1..Len(collected') |-> Item(i - 1)']
  BY <1>1, <1>2
<1>4. \A i \in 1..Len(collected') : PaysEnough(i - 1)'
  BY <1>1 DEF CollectedInOrder
<1>5. Len(collected') \in 0..(N + 1)
  BY DEF CollectedInOrder
<1> QED  BY <1>3, <1>4, <1>5 DEF CollectedInOrder

LEMMA EvaluationKept ==
    ASSUME deposit' = deposit, input' = input, result' = result,
           NEW winner \in Players, EvaluatedFor(winner)
    PROVE  EvaluatedFor(winner)'
<1>1. DepositedAmount(0)' = DepositedAmount(0) /\ Pot' = Pot
  BY Frame
<1> QED  BY <1>1 DEF EvaluatedFor

LEMMA WinnerKept ==
    ASSUME OneWinner, deposit' = deposit, input' = input, result' = result,
           clearing' \in {"issuing", "cleared"} => clearing \in {"issuing", "cleared"}
    PROVE  OneWinner'
<1>1. SUFFICES ASSUME clearing' \in {"issuing", "cleared"}
               PROVE  \E winner \in Players : EvaluatedFor(winner)'
  BY DEF OneWinner
<1>2. PICK winner \in Players : EvaluatedFor(winner)
  BY <1>1 DEF OneWinner
<1> QED  BY <1>2, EvaluationKept

LEMMA SettlementKept ==
    ASSUME SettlesTheDeposits, deposit' = deposit, input' = input, result' = result,
           settlement' = settlement, missing' = missing,
           clearing' = "cleared" => clearing = "cleared"
    PROVE  SettlesTheDeposits'
<1>1. \A p : Notes(p)' = Notes(p)
  BY Frame
<1> QED  BY <1>1 DEF SettlesTheDeposits

LEMMA ShowingKept ==
    ASSUME ShowsTheDeposits, deposit' = deposit, input' = input, result' = result,
           shown' = shown, clearing = "cleared" => clearing' = "cleared"
    PROVE  ShowsTheDeposits'
  BY DEF ShowsTheDeposits, Shown

\* Before anything is settled nothing has been shown.
LEMMA NothingShown ==
    ASSUME ShowsTheDeposits, clearing # "cleared", deposit' = deposit, input' = input, shown' = shown
    PROVE  ShowsTheDeposits'
<1>1. \A p \in Players : ~Shown(p)
  BY DEF ShowsTheDeposits
<1>2. \A p \in Players : ~Shown(p)'
  BY <1>1 DEF Shown
<1>3. shown' = [p \in Players |-> shown'[p]]
  BY DEF ShowsTheDeposits
<1> QED  BY <1>2, <1>3 DEF ShowsTheDeposits

LEMMA FailureKept ==
    ASSUME GoodDepositsSettle, deposit' = deposit, input' = input, missing' = missing, clearing' = clearing
    PROVE  GoodDepositsSettle'
<1>1. \A p : Good(p)' <=> Good(p)
  BY Frame
<1> QED  BY <1>1 DEF GoodDepositsSettle

-----------------------------------------------------------------------------
(***************************************************************************)
(* Every step preserves the invariant.                                     *)
(***************************************************************************)
LEMMA PackKeeps ==
    ASSUME TermsConsistent, NEW p \in Players, PackDepositAndInput(p)
    PROVE  TermsConsistent'
<1> USE DEF PackDepositAndInput
<1>1. /\ HostsGave /\ MessagesMade /\ CollectedInOrder /\ OneWinner
      /\ SettlesTheDeposits /\ ShowsTheDeposits /\ GoodDepositsSettle
  BY DEF TermsConsistent
<1>2. HostsGave'
  BY <1>1, HostsKept DEF HostsGave, Clearings
<1>3. MessagesMade'
  <2>1. CASE CoversTheFees(DepositedAmount(p))
    <3>1. packed' = [packed EXCEPT ![p] = <<Pack(p)>>]
      BY <2>1
    <3>2. PaysEnough(p)
      BY <2>1, PlayersAreParties DEF PaysEnough
    <3>3. \A q : Pack(q)' = Pack(q) /\ (PaysEnough(q)' <=> PaysEnough(q))
      BY Frame
    <3>4. packed = [q \in Players |-> packed[q]]
      BY <1>1 DEF MessagesMade
    <3>5. packed' = [q \in Players |-> packed'[q]]
      BY <3>1, <3>4
    <3>6. ASSUME NEW q \in Players
          PROVE  packed'[q] = <<>> \/ (packed'[q] = <<Pack(q)'>> /\ PaysEnough(q)')
      <4>1. packed[q] = <<>> \/ (packed[q] = <<Pack(q)>> /\ PaysEnough(q))
        BY <1>1 DEF MessagesMade
      <4>2. packed'[q] = IF q = p THEN <<Pack(p)>> ELSE packed[q]
        BY <3>1, <3>4
      <4> QED  BY <3>2, <3>3, <4>1, <4>2
    <3> QED  BY <3>5, <3>6 DEF MessagesMade
  <2>2. CASE ~CoversTheFees(DepositedAmount(p))
    BY <1>1, <2>2, MessagesKept
  <2> QED  BY <2>1, <2>2
<1>4. CollectedInOrder'
  BY <1>1, CollectionKept DEF CollectedInOrder
<1>5. OneWinner'
  BY <1>1, WinnerKept
<1>6. SettlesTheDeposits'
  BY <1>1, SettlementKept
<1>7. ShowsTheDeposits'
  BY <1>1, ShowingKept
<1>8. GoodDepositsSettle'
  BY <1>1, FailureKept
<1> QED  BY <1>2, <1>3, <1>4, <1>5, <1>6, <1>7, <1>8 DEF TermsConsistent

LEMMA ImportCollateralKeeps ==
    ASSUME TermsConsistent, ImportCollateral
    PROVE  TermsConsistent'
<1> USE DEF ImportCollateral
<1>1. /\ HostsGave /\ MessagesMade /\ CollectedInOrder /\ OneWinner
      /\ SettlesTheDeposits /\ ShowsTheDeposits /\ GoodDepositsSettle
  BY DEF TermsConsistent
<1>2. /\ clearing = "idle" /\ clearing' \in {"collecting", "failed"}
      /\ deposit' = deposit /\ input' = input /\ packed' = packed /\ result' = result /\ shown' = shown
  OBVIOUS
<1>3. HostsGave'
  BY <1>1, <1>2, HostsKept DEF Clearings
<1>4. MessagesMade'
  BY <1>1, <1>2, MessagesKept
<1>5. 0 \in Parties /\ 1 \in 1..1
  BY Numbers DEF Parties
<1>6. CollectedInOrder'
  <2>1. CASE CollateralSuffices(DepositedAmount(0))
    <3>1. collected' = <<Item(0)>> /\ clearing' = "collecting"
      <4>1. Item(0) = [amount |-> DepositedAmount(0),
                       transaction |-> Cells("action", 0, Len(deposit[0])),
                       address |-> Cells("address", 0, 1),
                       advice |-> Cells("advice", 0, 1)]
        <5>1. DepositedAmount(0) - Fees(0) = DepositedAmount(0)
          <6>1. DepositedAmount(0) \in 0..MaxMoney
            BY <1>1, <1>5, DepositFacts
          <6> QED  BY <6>1, Numbers DEF Fees
        <5> QED  BY <5>1 DEF Item
      <4> QED  BY <2>1, <4>1
    <3>2. PaysEnough(0) /\ PaysEnough(0)'
      <4>1. PaysEnough(0)
        BY <2>1 DEF PaysEnough
      <4> QED  BY <1>2, <4>1, Frame
    <3>3. Len(collected') = 1 /\ collected' = [i \in 1..1 |-> Item(0)]
      BY <3>1
    <3>4. \A i \in 1..1 : i - 1 = 0
      OBVIOUS
    <3>5. \A i \in 1..1 : Item(i - 1)' = Item(0)
      <4>1. Item(0)' = Item(0)
        BY <1>2, Frame
      <4> QED  BY <3>4, <4>1
    <3>6. [i \in 1..1 |-> Item(i - 1)'] = [i \in 1..1 |-> Item(0)]
      BY <3>5
    <3>7. collected' = [i \in 1..Len(collected') |-> Item(i - 1)']
      BY <3>3, <3>6
    <3>8. \A i \in 1..Len(collected') : PaysEnough(i - 1)'
      BY <3>2, <3>3, <3>4
    <3>9. Len(collected') \in 0..(N + 1)
      BY <3>3, Numbers
    <3>10. Len(collected') > 0
      BY <3>3
    <3> QED  BY <3>1, <3>7, <3>8, <3>9, <3>10 DEF CollectedInOrder
  <2>2. CASE ~CollateralSuffices(DepositedAmount(0))
    <3>1. clearing' = "failed" /\ collected' = collected
      BY <2>2
    <3> QED  BY <1>1, <1>2, <3>1, CollectionKept
  <2> QED  BY <2>1, <2>2
<1>7. OneWinner'
  BY <1>2 DEF OneWinner
<1>8. SettlesTheDeposits'
  BY <1>2 DEF SettlesTheDeposits
<1>9. ShowsTheDeposits'
  BY <1>1, <1>2, NothingShown
<1>10. GoodDepositsSettle'
  <2>1. SUFFICES ASSUME clearing' = "failed" PROVE ~Good(0)'
    BY <1>5 DEF GoodDepositsSettle
  <2>2. ~CollateralSuffices(DepositedAmount(0))
    BY <2>1
  <2>3. ~Good(0)
    BY <2>2 DEF Good, PaysEnough
  <2> QED  BY <1>2, <2>3, Frame
<1> QED  BY <1>3, <1>4, <1>6, <1>7, <1>8, <1>9, <1>10 DEF TermsConsistent

LEMMA AppendOne ==
    ASSUME NEW n \in Nat, NEW f, NEW s, NEW x, s = [i \in 1..n |-> f[i]], f[n + 1] = x
    PROVE  Append(s, x) = [i \in 1..(n + 1) |-> f[i]] /\ Len(Append(s, x)) = n + 1
<1>1. PICK U : U = {f[i] : i \in 1..n} \union {x}
  OBVIOUS
<1>2. s \in Seq(U) /\ Len(s) = n /\ x \in U
  BY <1>1
<1>3. PICK t : t = Append(s, x)
  OBVIOUS
<1>4. t \in Seq(U) /\ Len(t) = n + 1
  BY <1>2, <1>3
<1>5. \A i \in 1..(n + 1) : t[i] = f[i]
  <2>1. SUFFICES ASSUME NEW i \in 1..(n + 1) PROVE t[i] = f[i]
    OBVIOUS
  <2>2. CASE i = n + 1
    BY <1>2, <1>3, <2>2
  <2>3. CASE i \in 1..n
    <3>1. t[i] = s[i]
      BY <1>2, <1>3, <2>3
    <3> QED  BY <2>3, <3>1
  <2> QED  BY <2>2, <2>3
<1>6. t = [i \in 1..(n + 1) |-> t[i]]
  BY <1>4
<1>7. t = [i \in 1..(n + 1) |-> f[i]]
  BY <1>5, <1>6
<1> QED  BY <1>3, <1>4, <1>7

LEMMA CollectFromKeeps ==
    ASSUME TermsConsistent, NEW p \in Players, CollectFrom(p)
    PROVE  TermsConsistent'
<1>1. /\ HostsGave /\ MessagesMade /\ CollectedInOrder /\ OneWinner
      /\ SettlesTheDeposits /\ ShowsTheDeposits /\ GoodDepositsSettle
  BY DEF TermsConsistent
<1>2. /\ clearing = "collecting" /\ Len(collected) = p /\ packed[p] # <<>>
      /\ deposit' = deposit /\ input' = input /\ packed' = packed /\ missing' = missing
      /\ result' = result /\ shown' = shown /\ settlement' = settlement
  BY DEF CollectFrom
<1>3. packed[p] = <<Pack(p)>> /\ PaysEnough(p)
  BY <1>1, <1>2 DEF MessagesMade
<1>4. Unpack(Pack(p)) = Item(p)
  BY <1>1, <1>3, Unpacked
<1>5. Pack(p).amount = DepositedAmount(p)
  BY DEF Pack
<1>6. p \in Nat /\ p # 0 /\ p \in Parties /\ p <= N
  BY PlayersAreParties
<1>7. /\ CoversTheFees(Pack(p).amount)
      /\ ImportsTransaction(Item(p).transaction)
      /\ ImportsOne("address", Item(p).address)
      /\ ImportsOne("advice", Item(p).advice)
  BY <1>3, <1>5, <1>6 DEF PaysEnough, Item, ImportsTransaction, ImportsOne
<1>8. Head(packed[p]) = Pack(p)
  BY <1>3
<1>9. collected' = Append(collected, Item(p)) /\ clearing' = clearing
  BY <1>4, <1>7, <1>8 DEF CollectFrom
<1>10. HostsGave'
  BY <1>1, <1>2, <1>9, HostsKept DEF HostsGave, Clearings
<1>11. MessagesMade'
  BY <1>1, <1>2, MessagesKept
<1>12. CollectedInOrder'
  <2>1. PICK f : f = [i \in 1..(N + 1) |-> Item(i - 1)]
    OBVIOUS
  <2>2. f[p + 1] = Item(p)
    <3>1. p + 1 \in 1..(N + 1) /\ (p + 1) - 1 = p
      BY <1>6, Numbers
    <3> QED  BY <2>1, <3>1
  <2>3. collected = [i \in 1..p |-> f[i]]
    <3>1. collected = [i \in 1..p |-> Item(i - 1)]
      BY <1>1, <1>2 DEF CollectedInOrder
    <3>2. \A i \in 1..p : i \in 1..(N + 1)
      BY <1>6, Numbers
    <3>3. \A i \in 1..p : f[i] = Item(i - 1)
      BY <2>1, <3>2
    <3> QED  BY <3>1, <3>3
  <2>4. collected' = [i \in 1..(p + 1) |-> f[i]] /\ Len(collected') = p + 1
    BY <1>6, <1>9, <2>2, <2>3, AppendOne
  <2>5. \A i \in 1..(p + 1) : i \in 1..(N + 1)
    BY <1>6, Numbers
  <2>6. \A i \in 1..(p + 1) : Item(i - 1)' = f[i]
    <3>1. \A q : Item(q)' = Item(q)
      BY <1>2, Frame
    <3> QED  BY <2>1, <2>5, <3>1
  <2>7. collected' = [i \in 1..Len(collected') |-> Item(i - 1)']
    BY <2>4, <2>6
  <2>8. \A i \in 1..Len(collected') : PaysEnough(i - 1)'
    <3>1. SUFFICES ASSUME NEW i \in 1..(p + 1) PROVE PaysEnough(i - 1)
      <4>1. \A q : PaysEnough(q)' <=> PaysEnough(q)
        BY <1>2, Frame
      <4> QED  BY <2>4, <4>1
    <3>2. i \in 1..p \/ i - 1 = p
      BY <1>6
    <3>3. \A j \in 1..p : PaysEnough(j - 1)
      BY <1>1, <1>2 DEF CollectedInOrder
    <3> QED  BY <1>3, <3>2, <3>3
  <2>9. Len(collected') \in 0..(N + 1) /\ Len(collected') > 0
    BY <1>6, <2>4, Numbers
  <2> QED  BY <1>2, <1>9, <2>7, <2>8, <2>9 DEF CollectedInOrder
<1>13. OneWinner' /\ SettlesTheDeposits'
  BY <1>2, <1>9 DEF OneWinner, SettlesTheDeposits
<1>14. ShowsTheDeposits'
  BY <1>1, <1>2, NothingShown
<1>15. GoodDepositsSettle'
  BY <1>2, <1>9 DEF GoodDepositsSettle
<1> QED  BY <1>10, <1>11, <1>12, <1>13, <1>14, <1>15 DEF TermsConsistent

LEMMA PrependOne ==
    ASSUME NEW n \in Nat, NEW f, NEW s, s = [i \in 1..n |-> f[i]], NEW x
    PROVE  /\ Len(<<x>> \o s) = n + 1 /\ (<<x>> \o s)[1] = x
           /\ \A i \in 1..n : (<<x>> \o s)[i + 1] = f[i]
<1>1. PICK U : U = {f[i] : i \in 1..n} \union {x}
  OBVIOUS
<1>2. s \in Seq(U) /\ Len(s) = n /\ x \in U /\ \A i \in 1..n : s[i] = f[i]
  BY <1>1
<1>3. PICK t : t = <<x>> \o s
  OBVIOUS
<1>4. Len(t) = n + 1 /\ t[1] = x
  BY <1>2, <1>3
<1>5. \A i \in 1..n : t[i + 1] = f[i]
  <2>1. SUFFICES ASSUME NEW i \in 1..n PROVE t[i + 1] = s[i]
    BY <1>2
  <2> QED  BY <1>2, <1>3
<1> QED  BY <1>3, <1>4, <1>5

LEMMA EvaluateKeeps ==
    ASSUME TermsConsistent, NEW random \in 0..MaxRandom, Evaluate(random)
    PROVE  TermsConsistent'
<1>1. /\ HostsGave /\ MessagesMade /\ CollectedInOrder /\ OneWinner
      /\ SettlesTheDeposits /\ ShowsTheDeposits /\ GoodDepositsSettle
  BY DEF TermsConsistent
<1>2. /\ clearing = "collecting" /\ clearing' = "issuing" /\ Len(collected) = N + 1
      /\ deposit' = deposit /\ input' = input /\ packed' = packed /\ missing' = missing
      /\ collected' = collected /\ shown' = shown /\ settlement' = settlement
  BY DEF Evaluate
<1>3. ASSUME NEW p \in Parties
      PROVE  collected[p + 1].amount = DepositedAmount(p) - Fees(p) /\ PaysEnough(p)
  <2>1. p + 1 <= Len(collected)
    BY <1>2, Numbers DEF Parties
  <2> QED  BY <1>1, <2>1, Collected
<1>4. \A p \in Players : p \in Parties
  BY PlayersAreParties
<1>5. PICK lot : lot = random % N
  OBVIOUS
<1>6. lot \in 0..(N - 1) /\ lot + 1 \in Players
  <2>1. random \in Nat
    BY Numbers, NumbersAreNatural
  <2>2. lot \in 0..(N - 1)
    BY <1>5, <2>1, Numbers
  <2> QED  BY <2>2, Numbers DEF Players
<1>7. \A p \in Players : Move(p - 1, lot) = 1 <=> p = lot + 1
  <2>1. SUFFICES ASSUME NEW p \in Players PROVE Move(p - 1, lot) = 1 <=> p = lot + 1
    OBVIOUS
  <2>2. p - 1 \in Nat /\ p - 1 <= INT_MAX /\ lot \in Nat /\ lot <= INT_MAX
    <3>1. INT_MAX \in Nat
      BY SMT DEF INT_MAX
    <3> QED  BY <1>6, <3>1, PlayersAreParties, Numbers
  <2>3. Move(p - 1, lot) = 1 <=> p - 1 = lot
    BY <2>2, MoveTells
  <2>4. p - 1 = lot <=> p = lot + 1
    BY <2>2, PlayersAreParties
  <2> QED  BY <2>3, <2>4
<1>8. SumTo([p \in Players |-> collected[p + 1].amount], N) = Pot
  <2>1. \A p \in Players : PotShares[p] = DepositedAmount(p) - Fees(p)
    BY <1>1, <1>3, <1>4, PotFits
  <2>2. \A p \in Players : collected[p + 1].amount = PotShares[p]
    BY <1>3, <1>4, <2>1
  <2>3. PotShares = [p \in Players |-> PotShares[p]]
    BY DEF PotShares
  <2>4. [p \in Players |-> collected[p + 1].amount] = PotShares
    BY <2>2, <2>3
  <2>5. Pot = SumTo(PotShares, N)
    BY <1>1, <1>3, <1>4, PotFits
  <2> QED  BY <2>4, <2>5
<1>9. PICK operators : operators = DepositedAmount(0) - MinerFee + OperatorFee * N
  OBVIOUS
<1>10. /\ Zat(Pot) = Pot
       /\ Zat(Zat(collected[1].amount - MinerFee) + OperatorFee * N) = operators
  <2>1. collected[1].amount = DepositedAmount(0)
    <3>1. 0 \in Parties /\ 0 + 1 = 1
      BY Numbers DEF Parties
    <3>2. DepositedAmount(0) \in 0..MaxMoney /\ Fees(0) = 0
      BY <1>1, <3>1, DepositFacts DEF Fees
    <3>3. DepositedAmount(0) - Fees(0) = DepositedAmount(0)
      BY <3>2, Numbers
    <3> QED  BY <1>3, <3>1, <3>3
  <2> QED  BY <1>1, <1>3, <1>9, <2>1, PayoutsFit
<1>11. PICK shares : shares = [p \in 1..N |-> IF p = lot + 1 THEN Pot ELSE 0]
  OBVIOUS
<1>12. result' = [payouts |-> <<operators>> \o shares,
                  outputs |-> [p \in Players |-> Message(p, lot + 1)]]
  <2>1. result' = [payouts |-> <<operators>> \o [p \in Players |-> IF Move(p - 1, lot) = 1 THEN Pot ELSE 0],
                   outputs |-> [p \in Players |->
                                   Cells(IF Move(p - 1, lot) = 1 THEN "YOU WIN!" ELSE "YOU LOSE", 0, 2)]]
    BY <1>5, <1>8, <1>10 DEF Evaluate
  <2>2. [p \in Players |-> IF Move(p - 1, lot) = 1 THEN Pot ELSE 0] = shares
    <3>1. \A p \in Players : (IF Move(p - 1, lot) = 1 THEN Pot ELSE 0) = IF p = lot + 1 THEN Pot ELSE 0
      BY <1>7
    <3> QED  BY <1>11, <3>1 DEF Players
  <2>3. [p \in Players |-> Cells(IF Move(p - 1, lot) = 1 THEN "YOU WIN!" ELSE "YOU LOSE", 0, 2)]
        = [p \in Players |-> Message(p, lot + 1)]
    <3>1. \A p \in Players : Cells(IF Move(p - 1, lot) = 1 THEN "YOU WIN!" ELSE "YOU LOSE", 0, 2)
                              = Message(p, lot + 1)
      BY <1>7 DEF Message
    <3> QED  BY <3>1
  <2> QED  BY <2>1, <2>2, <2>3
<1>13. EvaluatedFor(lot + 1)'
  <2>1. PICK payouts : payouts = <<operators>> \o shares
    OBVIOUS
  <2>2. /\ Len(payouts) = N + 1 /\ payouts[1] = operators
        /\ \A p \in 1..N : payouts[p + 1] = shares[p]
    BY <1>11, <2>1, Numbers, PrependOne
  <2>3. result'.payouts = payouts /\ \A p \in Players : result'.outputs[p] = Message(p, lot + 1)
    BY <1>12, <2>1
  <2>4. \A p \in Players : payouts[p + 1] = IF p = lot + 1 THEN Pot ELSE 0
    BY <1>11, <2>2 DEF Players
  <2>5. DepositedAmount(0)' = DepositedAmount(0) /\ Pot' = Pot
    BY <1>2, Frame
  <2> QED  BY <1>9, <2>2, <2>3, <2>4, <2>5 DEF EvaluatedFor, Message
<1>14. OneWinner'
  BY <1>6, <1>13 DEF OneWinner
<1>15. HostsGave'
  BY <1>1, <1>2, HostsKept DEF Clearings
<1>16. MessagesMade'
  BY <1>1, <1>2, MessagesKept
<1>17. CollectedInOrder'
  BY <1>1, <1>2, CollectionKept
<1>18. SettlesTheDeposits' /\ GoodDepositsSettle'
  BY <1>2 DEF SettlesTheDeposits, GoodDepositsSettle
<1>19. ShowsTheDeposits'
  BY <1>1, <1>2, NothingShown
<1> QED  BY <1>14, <1>15, <1>16, <1>17, <1>18, <1>19 DEF TermsConsistent

-----------------------------------------------------------------------------
(***************************************************************************)
(* Transactions and Merkle paths one behind the other: where each begins.  *)
(***************************************************************************)
Lengths == [i \in 1..(N + 1) |-> Len(deposit[i - 1])]

LEMMA LengthsFacts ==
    ASSUME HostsGave
    PROVE  /\ \A i \in 1..(N + 1) : /\ i - 1 \in Parties /\ i - 1 \in Nat
                                    /\ Lengths[i] = Len(deposit[i - 1]) /\ Lengths[i] \in Nat
           /\ \A m \in 0..(N + 1) : SumTo(Lengths, m) \in Nat
           /\ \A i \in 1..(N + 1) : /\ SumTo(Lengths, i) = SumTo(Lengths, i - 1) + Lengths[i]
                                    /\ SumTo(Lengths, i) <= SumTo(Lengths, N + 1)
<1>1. PICK n \in Nat : n = N + 1
  BY Numbers
<1>2. \A i \in 1..n : /\ i - 1 \in Parties /\ i - 1 \in Nat
                      /\ Lengths[i] = Len(deposit[i - 1]) /\ Lengths[i] \in Nat
  <2>1. SUFFICES ASSUME NEW i \in 1..n
                 PROVE  /\ i - 1 \in Parties /\ i - 1 \in Nat
                        /\ Lengths[i] = Len(deposit[i - 1]) /\ Lengths[i] \in Nat
    OBVIOUS
  <2>2. i - 1 \in Parties /\ i - 1 \in Nat
    BY <1>1, Numbers DEF Parties
  <2>3. Len(deposit[i - 1]) \in Nat
    BY <2>2, DepositFacts
  <2> QED  BY <1>1, <2>2, <2>3 DEF Lengths
<1>3. PICK v : v = Lengths
  OBVIOUS
<1>4. \A i \in 1..n : v[i] \in Nat /\ v[i] \in Int
  BY <1>2, <1>3
<1>5. \A m \in 0..n : SumTo(v, m) \in Int
  BY <1>4, SumType
<1>6. \A m \in 0..n : SumTo(v, m) \in Nat
  <2>1. SUFFICES ASSUME NEW m \in 0..n PROVE SumTo(v, m) \in Nat
    OBVIOUS
  <2>2. m \in Nat /\ 0 \in 0..m /\ \A i \in 1..m : v[i] \in Nat
    BY <1>4
  <2>3. SumTo(v, 0) <= SumTo(v, m)
    BY <2>2, SumGrows
  <2> QED  BY <1>5, <2>3, SumEmpty
<1>7. \A i \in 1..n : SumTo(v, i) = SumTo(v, i - 1) + v[i] /\ SumTo(v, i) <= SumTo(v, n)
  <2>1. SUFFICES ASSUME NEW i \in 1..n
                 PROVE  SumTo(v, i) = SumTo(v, i - 1) + v[i] /\ SumTo(v, i) <= SumTo(v, n)
    OBVIOUS
  <2>2. PICK m \in Nat : m = i - 1
    OBVIOUS
  <2>3. m + 1 = i /\ m + 1 <= n /\ i \in 0..n
    BY <2>2
  <2>4. SumTo(v, m + 1) = SumTo(v, m) + v[m + 1]
    BY <1>4, <2>3, SumStep
  <2>5. SumTo(v, i) <= SumTo(v, n)
    BY <1>4, <2>3, SumGrows
  <2> QED  BY <2>2, <2>3, <2>4, <2>5
<1> QED  BY <1>1, <1>2, <1>3, <1>6, <1>7

LEMMA JoinedCells ==
    ASSUME HostsGave, NEW kind, kind \in Kinds,
           NEW s, \A i \in 1..(N + 1) : s[i] = Cells(kind, i - 1, Len(deposit[i - 1]))
    PROVE  /\ JoinTo(s, N + 1) \in Seq(Cell)
           /\ Len(JoinTo(s, N + 1)) = SumTo(Lengths, N + 1)
           /\ \A i \in 1..(N + 1) :
                  Contains(JoinTo(s, N + 1), SumTo(Lengths, i - 1), kind, i - 1, Lengths[i])
<1>1. PICK n \in Nat : n = N + 1
  BY Numbers
<1>2. \A i \in 1..n : /\ i - 1 \in Nat /\ Lengths[i] = Len(deposit[i - 1]) /\ Lengths[i] \in Nat
                      /\ SumTo(Lengths, i) = SumTo(Lengths, i - 1) + Lengths[i]
                      /\ SumTo(Lengths, i) <= SumTo(Lengths, n)
  BY <1>1, LengthsFacts
<1>3. \A i \in 1..n : s[i] \in Seq(Cell) /\ Lengths[i] = Len(s[i])
                      /\ \A x \in 1..Lengths[i] : s[i][x] = <<kind, i - 1, x>>
  <2>1. SUFFICES ASSUME NEW i \in 1..n
                 PROVE  /\ s[i] \in Seq(Cell) /\ Lengths[i] = Len(s[i])
                        /\ \A x \in 1..Lengths[i] : s[i][x] = <<kind, i - 1, x>>
    OBVIOUS
  <2>2. PICK q, k : q = i - 1 /\ k = Lengths[i]
    OBVIOUS
  <2>3. q \in Nat /\ k \in Nat /\ s[i] = Cells(kind, q, k)
    BY <1>1, <1>2, <2>2
  <2>4. PICK piece : piece = Cells(kind, q, k)
    OBVIOUS
  <2>5. piece \in Seq(Cell) /\ Len(piece) = k /\ \A x \in 1..k : piece[x] = <<kind, q, x>>
    BY <2>3, <2>4, CellsFacts
  <2> QED  BY <2>2, <2>3, <2>4, <2>5
<1>4. PICK v : v = Lengths
  OBVIOUS
<1>5. Joinable(Cell, s, n)
  BY <1>3 DEF Joinable
<1>6. /\ Len(JoinTo(s, n)) = SumTo(v, n)
      /\ \A i \in 1..n : \A x \in 1..v[i] :
             /\ SumTo(v, i - 1) + x \in 1..SumTo(v, n)
             /\ JoinTo(s, n)[SumTo(v, i - 1) + x] = s[i][x]
  <2>1. Measured(s, v, n)
    BY <1>3, <1>4 DEF Measured
  <2>2. InPieces(JoinTo(s, n), s, v, n)
    BY <1>5, <2>1, JoinPieces
  <2> QED  BY <2>2 DEF InPieces
<1>7. JoinTo(s, n) \in Seq(Cell)
  <2>1. n \in 0..n
    OBVIOUS
  <2> QED  BY <1>5, <2>1, JoinType
<1>8. \A i \in 1..n : Contains(JoinTo(s, n), SumTo(v, i - 1), kind, i - 1, v[i])
  <2>1. SUFFICES ASSUME NEW i \in 1..n
                 PROVE  Contains(JoinTo(s, n), SumTo(v, i - 1), kind, i - 1, v[i])
    OBVIOUS
  <2>2. SumTo(v, i - 1) + v[i] <= Len(JoinTo(s, n))
    BY <1>2, <1>4, <1>6
  <2>3. \A x \in 1..v[i] : JoinTo(s, n)[SumTo(v, i - 1) + x] = <<kind, i - 1, x>>
    <3>1. SUFFICES ASSUME NEW x \in 1..v[i]
                   PROVE  JoinTo(s, n)[SumTo(v, i - 1) + x] = <<kind, i - 1, x>>
      OBVIOUS
    <3>2. JoinTo(s, n)[SumTo(v, i - 1) + x] = s[i][x]
      BY <1>6
    <3>3. s[i][x] = <<kind, i - 1, x>>
      BY <1>3, <1>4
    <3> QED  BY <3>2, <3>3
  <2> QED  BY <2>2, <2>3 DEF Contains
<1> QED  BY <1>1, <1>4, <1>6, <1>7, <1>8

LEMMA ActionsFacts ==
    ASSUME HostsGave, CollectedInOrder, Len(collected) = N + 1
    PROVE  /\ \A i \in 1..(N + 1) : /\ collected[i].transaction = Cells("action", i - 1, Lengths[i])
                                    /\ collected[i].address = Cells("address", i - 1, 1)
                                    /\ collected[i].advice = Cells("advice", i - 1, 1)
                                    /\ Len(collected[i].transaction) = Lengths[i]
                                    /\ PaysEnough(i - 1)
           /\ \A m \in 0..(N + 1) : ActionsOf(m) = SumTo(Lengths, m)
<1>1. ASSUME NEW i \in 1..(N + 1)
      PROVE  /\ collected[i].transaction = Cells("action", i - 1, Lengths[i])
             /\ collected[i].address = Cells("address", i - 1, 1)
             /\ collected[i].advice = Cells("advice", i - 1, 1)
             /\ Len(collected[i].transaction) = Lengths[i]
             /\ PaysEnough(i - 1)
  <2>1. PICK q : q = i - 1
    OBVIOUS
  <2>2. q \in Parties /\ q \in Nat /\ Lengths[i] = Len(deposit[q]) /\ Lengths[i] \in Nat
    BY <2>1, LengthsFacts
  <2>3. q + 1 = i /\ q + 1 <= Len(collected)
    BY <2>1, Numbers
  <2>4. /\ collected[q + 1].transaction = Cells("action", q, Len(deposit[q]))
        /\ collected[q + 1].address = Cells("address", q, 1)
        /\ collected[q + 1].advice = Cells("advice", q, 1)
        /\ PaysEnough(q)
    BY <2>2, <2>3, Collected
  <2>5. "action" \in Kinds
    BY DEF Kinds
  <2>6. Len(Cells("action", q, Len(deposit[q]))) = Lengths[i]
    <3>1. PICK n \in Nat : n = Len(deposit[q])
      BY <2>2
    <3>2. Len(Cells("action", q, n)) = n
      BY <2>2, <2>5, CellsFacts
    <3> QED  BY <2>2, <3>1, <3>2
  <2> QED  BY <2>1, <2>2, <2>3, <2>4, <2>6
<1>2. ASSUME NEW m \in 0..(N + 1)
      PROVE  ActionsOf(m) = SumTo(Lengths, m)
  <2>1. PICK v, w : v = Lengths /\ w = [i \in 1..m |-> Len(collected[i].transaction)]
    OBVIOUS
  <2>2. m \in Nat /\ \A i \in 1..m : i \in 1..(N + 1)
    BY Numbers
  <2>3. \A i \in 1..(N + 1) : Lengths[i] \in Nat
    BY LengthsFacts
  <2>4. \A i \in 1..m : v[i] \in Int /\ w[i] = v[i]
    BY <1>1, <2>1, <2>2, <2>3
  <2>5. SumTo(w, m) = SumTo(v, m)
    BY <2>2, <2>4, SumSame
  <2> QED  BY <2>1, <2>5 DEF ActionsOf
<1> QED  BY <1>1, <1>2

(***************************************************************************)
(* The Merkle paths a bundle is given: its own, if none is missing.        *)
(***************************************************************************)
LEMMA Window ==
    ASSUME NEW data \in Seq(Cell), NEW from \in Nat, NEW length \in Nat,
           NEW upTo, upTo = from + length,
           NEW last, last = IF upTo < Len(data) THEN upTo ELSE Len(data),
           NEW window, window = SubSeq(data, from + 1, last)
    PROVE  /\ Len(window) \in 0..length
           /\ upTo <= Len(data) => /\ Len(window) = length
                                   /\ \A k \in 1..length : window[k] = data[from + k]
<1>1. Len(data) \in Nat /\ last \in Nat /\ last <= Len(data) /\ last <= upTo /\ (upTo <= Len(data) => last = upTo)
  OBVIOUS
<1>2. PICK start \in Nat : start = from + 1
  OBVIOUS
<1>3. \A k \in start..last : data[k] \in Cell
  <2>1. SUFFICES ASSUME NEW k \in start..last PROVE data[k] \in Cell
    OBVIOUS
  <2>2. k \in 1..Len(data)
    BY <1>1, <1>2
  <2> QED  BY <2>2
<1>4. Len(window) = IF start <= last THEN last - start + 1 ELSE 0
  BY <1>1, <1>2, <1>3, SubSeqProperties
<1>5. Len(window) \in 0..length
  BY <1>1, <1>2, <1>4
<1>6. ASSUME upTo <= Len(data)
      PROVE  Len(window) = length /\ \A k \in 1..length : window[k] = data[from + k]
  <2>1. Len(window) = length
    BY <1>1, <1>2, <1>4, <1>6
  <2>2. ASSUME NEW k \in 1..length PROVE window[k] = data[from + k]
    <3>1. k \in 1..((last - start) + 1) /\ start + k - 1 = from + k
      BY <1>1, <1>2, <1>6
    <3>2. window[k] = data[start + k - 1]
      BY <1>1, <1>2, <1>3, <3>1, SubSeqProperties
    <3> QED  BY <3>1, <3>2
  <2> QED  BY <2>1, <2>2
<1> QED  BY <1>5, <1>6

LEMMA RightPathsFacts ==
    ASSUME HostsGave
    PROVE  /\ RightPaths \in Seq(Cell) /\ RightPaths # <<>>
           /\ Len(RightPaths) = SumTo(Lengths, N + 1)
           /\ \A i \in 1..(N + 1) :
                  Contains(RightPaths, SumTo(Lengths, i - 1), "path", i - 1, Lengths[i])
<1>1. PICK s : s = [i \in 1..(N + 1) |-> Cells("path", i - 1, Len(deposit[i - 1]))]
  OBVIOUS
<1>2. "path" \in Kinds /\ \A i \in 1..(N + 1) : s[i] = Cells("path", i - 1, Len(deposit[i - 1]))
  BY <1>1 DEF Kinds
<1>3. RightPaths = JoinTo(s, N + 1)
  BY <1>1 DEF RightPaths
<1>4. /\ RightPaths \in Seq(Cell)
      /\ Len(RightPaths) = SumTo(Lengths, N + 1)
      /\ \A i \in 1..(N + 1) : Contains(RightPaths, SumTo(Lengths, i - 1), "path", i - 1, Lengths[i])
  BY <1>2, <1>3, JoinedCells
<1>5. RightPaths # <<>>
  <2>1. 1 \in 1..(N + 1) /\ 1 - 1 = 0 /\ 0 \in Parties /\ 0 \in 0..(N + 1)
    BY Numbers DEF Parties
  <2>2. deposit[0] \in Bundles
    BY <2>1 DEF HostsGave
  <2>3. deposit[0] \in Seq(Action) /\ deposit[0] # <<>>
    BY <2>2, BundlesAreTransactions DEF Action
  <2>4. Len(deposit[0]) >= 1
    BY <2>3
  <2>5. /\ Lengths[1] = Len(deposit[0])
        /\ SumTo(Lengths, 1) = SumTo(Lengths, 0) + Lengths[1]
        /\ SumTo(Lengths, 1) <= SumTo(Lengths, N + 1) /\ Lengths[1] \in Nat
        /\ SumTo(Lengths, N + 1) \in Nat
    <3>1. N + 1 \in 0..(N + 1)
      BY Numbers
    <3> QED  BY <2>1, <3>1, LengthsFacts
  <2>6. Len(RightPaths) >= 1
    BY <1>4, <2>4, <2>5, SumEmpty
  <2> QED  BY <2>6
<1> QED  BY <1>4, <1>5

LEMMA PathsFacts ==
    ASSUME HostsGave, CollectedInOrder, Len(collected) = N + 1, NEW i \in 1..(N + 1)
    PROVE  /\ Len(PathsFor(i)) \in 0..Lengths[i]
           /\ missing = "none" => /\ Len(PathsFor(i)) = Lengths[i]
                                  /\ \A k \in 1..Lengths[i] : PathsFor(i)[k] = <<"path", i - 1, k>>
<1>1. PICK from, upTo, length, total :
          /\ from = SumTo(Lengths, i - 1) /\ upTo = SumTo(Lengths, i)
          /\ length = Lengths[i] /\ total = SumTo(Lengths, N + 1)
  OBVIOUS
<1>2. i - 1 \in 0..(N + 1) /\ i \in 0..(N + 1) /\ N + 1 \in 0..(N + 1)
  BY Numbers
<1>3. /\ from \in Nat /\ upTo \in Nat /\ length \in Nat /\ total \in Nat
      /\ upTo = from + length /\ upTo <= total
  BY <1>1, <1>2, LengthsFacts
<1>4. ActionsOf(i - 1) = from /\ ActionsOf(i) = upTo
  BY <1>1, <1>2, ActionsFacts
<1>5. PICK paths : paths = MerklePaths
  OBVIOUS
<1>6. paths \in Seq(Cell)
  <2>1. RightPaths \in Seq(Cell) /\ RightPaths # <<>>
    BY RightPathsFacts
  <2>2. Tail(RightPaths) \in Seq(Cell) /\ SubSeq(RightPaths, 1, Len(RightPaths) - 1) \in Seq(Cell)
    <3>1. PICK n : n = Len(RightPaths) - 1
      OBVIOUS
    <3>2. n \in Int /\ \A k \in 1..n : RightPaths[k] \in Cell
      BY <2>1, <3>1
    <3>3. SubSeq(RightPaths, 1, n) \in Seq(Cell)
      BY <3>2, SubSeqProperties
    <3> QED  BY <2>1, <3>1, <3>3, HeadTailProperties
  <2>3. missing = "none" \/ missing = "first" \/ missing = "last"
    BY DEF HostsGave
  <2> QED  BY <1>5, <2>1, <2>2, <2>3 DEF MerklePaths
<1>7. PICK last : last = IF upTo < Len(paths) THEN upTo ELSE Len(paths)
  OBVIOUS
<1>8. PathsFor(i) = SubSeq(paths, from + 1, last)
  BY <1>4, <1>5, <1>7 DEF PathsFor
<1>9. /\ Len(PathsFor(i)) \in 0..length
      /\ upTo <= Len(paths) => /\ Len(PathsFor(i)) = length
                               /\ \A k \in 1..length : PathsFor(i)[k] = paths[from + k]
  BY <1>3, <1>6, <1>7, <1>8, Window
<1>10. ASSUME missing = "none"
       PROVE  /\ Len(PathsFor(i)) = length
              /\ \A k \in 1..length : PathsFor(i)[k] = <<"path", i - 1, k>>
  <2>1. paths = RightPaths
    BY <1>5, <1>10 DEF MerklePaths
  <2>2. Len(paths) = total /\ Contains(paths, from, "path", i - 1, length)
    BY <1>1, <2>1, RightPathsFacts
  <2>3. \A k \in 1..length : paths[from + k] = <<"path", i - 1, k>>
    BY <2>2 DEF Contains
  <2> QED  BY <1>3, <1>9, <2>2, <2>3
<1> QED  BY <1>1, <1>9, <1>10

LEMMA NotesFacts ==
    ASSUME HostsGave, CollectedInOrder, Len(collected) = N + 1, NEW i \in 1..(N + 1)
    PROVE  /\ NotesOf(i) \subseteq Notes(i - 1)
           /\ missing = "none" => NotesOf(i) = Notes(i - 1)
           /\ \A k \in NotesOf(i) : collected[i].transaction[k] = <<"action", i - 1, k>>
           /\ IsFiniteSet(NotesOf(i))
<1>1. PICK q, length, m : q = i - 1 /\ length = Lengths[i] /\ m = Len(PathsFor(i))
  OBVIOUS
<1>2. q \in Parties /\ q \in Nat /\ length \in Nat /\ length = Len(deposit[q])
  BY <1>1, LengthsFacts
<1>3. m \in 0..length /\ (missing = "none" => m = length)
  BY <1>1, PathsFacts
<1>4. collected[i].transaction = Cells("action", q, length) /\ collected[i].advice = Cells("advice", q, 1)
  BY <1>1, ActionsFacts
<1>5. /\ \A k \in 1..length : collected[i].transaction[k] = <<"action", q, k>>
      /\ collected[i].advice[1] = <<"advice", q, 1>>
  <2>1. "action" \in Kinds /\ "advice" \in Kinds /\ 1 \in Nat /\ 1 \in 1..1
    BY DEF Kinds
  <2>2. \A k \in 1..length : Cells("action", q, length)[k] = <<"action", q, k>>
    BY <1>2, <2>1, CellsFacts
  <2>3. Cells("advice", q, 1)[1] = <<"advice", q, 1>>
    BY <1>2, <2>1, CellsFacts
  <2> QED  BY <1>4, <2>2, <2>3
<1>6. \A k \in 1..m : k \in 1..length
  BY <1>2, <1>3
<1>7. \A k \in 1..m : (/\ collected[i].transaction[k][2] = collected[i].advice[1][2]
                       /\ Note(collected[i].transaction[k]).mine) <=> deposit[q][k].mine
  BY <1>5, <1>6 DEF Note
<1>8. NotesOf(i) = {k \in 1..m : deposit[q][k].mine}
  BY <1>1, <1>7 DEF NotesOf
<1>9. Notes(q) = {k \in 1..length : deposit[q][k].mine}
  <2>1. DOMAIN deposit[q] = 1..length
    BY <1>2, DepositFacts
  <2> QED  BY <2>1 DEF Notes
<1>10. IsFiniteSet(NotesOf(i))
  <2>1. m \in Nat
    BY <1>2, <1>3
  <2>2. IsFiniteSet(1..m)
    BY <2>1, FS_Interval
  <2> QED  BY <1>8, <2>2, FS_Subset
<1> QED  BY <1>1, <1>3, <1>5, <1>6, <1>8, <1>9, <1>10

LEMMA CreateTransactionKeeps ==
    ASSUME TermsConsistent, CreateTransaction
    PROVE  TermsConsistent'
<1>1. /\ HostsGave /\ MessagesMade /\ CollectedInOrder /\ OneWinner
      /\ SettlesTheDeposits /\ ShowsTheDeposits /\ GoodDepositsSettle
  BY DEF TermsConsistent
<1>2. /\ clearing = "issuing" /\ clearing' \in {"cleared", "failed"}
      /\ deposit' = deposit /\ input' = input /\ packed' = packed /\ missing' = missing
      /\ collected' = collected /\ shown' = shown /\ result' = result
  BY DEF CreateTransaction
<1>3. Len(collected) = N + 1
  BY <1>1, <1>2 DEF CollectedInOrder
<1>4. HostsGave'
  BY <1>1, <1>2, HostsKept DEF Clearings
<1>5. MessagesMade'
  BY <1>1, <1>2, MessagesKept
<1>6. CollectedInOrder'
  BY <1>1, <1>2, <1>3, CollectionKept
<1>7. OneWinner'
  BY <1>1, <1>2, WinnerKept
<1>8. ShowsTheDeposits'
  BY <1>1, <1>2, NothingShown
<1>9. \A p : (Notes(p)' = Notes(p)) /\ (Good(p)' <=> Good(p))
  BY <1>2, Frame
<1>10. ASSUME NEW i \in 1..(N + 1), NEW k, NotesOf(i) = {k}
       PROVE  Spend(i).note = <<"action", i - 1, k>> /\ Spend(i).path = PathsFor(i)[k]
  <2>1. (CHOOSE x \in NotesOf(i) : TRUE) = k
    BY <1>10
  <2>2. collected[i].transaction[k] = <<"action", i - 1, k>>
    BY <1>1, <1>3, <1>10, NotesFacts
  <2> QED  BY <2>1, <2>2 DEF Spend
<1>11. SettlesTheDeposits'
  <2>1. SUFFICES ASSUME clearing' = "cleared", NEW i \in 1..(N + 1)
                 PROVE  /\ settlement'.pays[i] = [to |-> Cells("address", i - 1, 1), value |-> result'.payouts[i]]
                        /\ \E k \in Notes(i - 1) : /\ settlement'.spends[i] = <<"action", i - 1, k>>
                                                   /\ missing' = "none" => Notes(i - 1) = {k}
    BY <1>9 DEF SettlesTheDeposits
  <2>2. /\ \A j \in 1..(N + 1) : HasUniqueNote(j)
        /\ settlement' = [spends |-> [j \in 1..(N + 1) |-> Spend(j).note],
                          pays |-> [j \in 1..(N + 1) |->
                                       [to |-> collected[j].address, value |-> result.payouts[j]]]]
    BY <2>1 DEF CreateTransaction
  <2>3. settlement'.spends[i] = Spend(i).note
    BY <2>2
  <2>4. settlement'.pays[i] = [to |-> collected[i].address, value |-> result.payouts[i]]
    BY <2>2
  <2>5. collected[i].address = Cells("address", i - 1, 1)
    BY <1>1, <1>3, ActionsFacts
  <2>6. /\ NotesOf(i) \subseteq Notes(i - 1) /\ (missing = "none" => NotesOf(i) = Notes(i - 1))
        /\ IsFiniteSet(NotesOf(i))
    BY <1>1, <1>3, NotesFacts
  <2>7. PICK k : NotesOf(i) = {k}
    BY <2>2, <2>6, FS_Singleton DEF HasUniqueNote
  <2>8. settlement'.spends[i] = <<"action", i - 1, k>>
    BY <1>10, <2>3, <2>7
  <2> QED  BY <1>2, <2>4, <2>5, <2>6, <2>7, <2>8
<1>12. GoodDepositsSettle'
  <2>1. SUFFICES ASSUME clearing' = "failed", missing' = "none" PROVE \E p \in Parties : ~Good(p)
    BY <1>9 DEF GoodDepositsSettle
  <2>2. missing = "none"
    BY <1>2, <2>1
  <2>3. \/ \E i \in 1..(N + 1) : ~HasUniqueNote(i)
        \/ /\ \A i \in 1..(N + 1) : HasUniqueNote(i)
           /\ \E i \in 1..(N + 1) : ~PathFits(Spend(i))
    BY <2>1 DEF CreateTransaction
  <2>4. CASE \E i \in 1..(N + 1) : ~HasUniqueNote(i)
    <3>1. PICK i \in 1..(N + 1) : ~HasUniqueNote(i)
      BY <2>4
    <3>2. NotesOf(i) = Notes(i - 1)
      BY <1>1, <1>3, <2>2, NotesFacts
    <3>3. ~Good(i - 1) /\ i - 1 \in Parties
      BY <1>1, <3>1, <3>2, LengthsFacts DEF Good, HasUniqueNote
    <3> QED  BY <3>3
  <2>5. CASE /\ \A i \in 1..(N + 1) : HasUniqueNote(i)
             /\ \E i \in 1..(N + 1) : ~PathFits(Spend(i))
    <3>1. PICK i \in 1..(N + 1) : ~PathFits(Spend(i)) /\ HasUniqueNote(i)
      BY <2>5
    <3>2. NotesOf(i) = Notes(i - 1) /\ IsFiniteSet(NotesOf(i))
      BY <1>1, <1>3, <2>2, NotesFacts
    <3>3. PICK k : NotesOf(i) = {k}
      BY <3>1, <3>2, FS_Singleton DEF HasUniqueNote
    <3>4. Spend(i).note = <<"action", i - 1, k>> /\ Spend(i).path = PathsFor(i)[k]
      BY <1>10, <3>3
    <3>5. k \in 1..Lengths[i]
      <4>1. /\ i - 1 \in Parties /\ Lengths[i] = Len(deposit[i - 1])
        BY <1>1, LengthsFacts
      <4>2. DOMAIN deposit[i - 1] = 1..Lengths[i]
        BY <1>1, <4>1, DepositFacts
      <4> QED  BY <3>2, <3>3, <4>2 DEF Notes
    <3>6. PathsFor(i)[k] = <<"path", i - 1, k>>
      BY <1>1, <1>3, <2>2, <3>5, PathsFacts
    <3>7. PathFits(Spend(i))
      BY <3>4, <3>6 DEF PathFits
    <3> QED  BY <3>1, <3>7
  <2> QED  BY <2>3, <2>4, <2>5
<1> QED  BY <1>4, <1>5, <1>6, <1>7, <1>8, <1>11, <1>12 DEF TermsConsistent

(***************************************************************************)
(* The clear-contract message: a player's enclave cuts out of it the       *)
(* player's output and then the transactions, the collateral first.        *)
(***************************************************************************)
LEMMA MessageKind ==
    ASSUME NEW p, NEW winner
    PROVE  \E kind \in Kinds : Message(p, winner) = Cells(kind, 0, 2)
<1>1. "YOU WIN!" \in Kinds /\ "YOU LOSE" \in Kinds
  BY DEF Kinds
<1> QED  BY <1>1 DEF Message

LEMMA Cut ==
    ASSUME HostsGave, CollectedInOrder, Len(collected) = N + 1, NEW p \in Players,
           NEW kind \in Kinds, result.outputs[p] = Cells(kind, 0, 2)
    PROVE  LET msg == ClearContract(p)
               end(i) == IF i <= N THEN msg.deposits[i + 1] ELSE Len(msg.data)
           IN  /\ Copied(msg.data, msg.output, msg.deposits[1] - msg.output) = result.outputs[p]
               /\ \A i \in 1..(N + 1) :
                      Copied(msg.data, msg.deposits[i], end(i) - msg.deposits[i])
                      = Cells("action", i - 1, Len(deposit[i - 1]))
<1>1. PICK out, transactions, joined, data, offsets :
          /\ out = Cells(kind, 0, 2)
          /\ transactions = [i \in 1..(N + 1) |-> collected[i].transaction]
          /\ joined = JoinTo(transactions, N + 1)
          /\ data = out \o joined
          /\ offsets = [i \in 1..(N + 1) |-> 2 + SumTo(Lengths, i - 1)]
  OBVIOUS
<1>2. "action" \in Kinds /\ 0 \in Nat /\ 2 \in Nat
  BY DEF Kinds
<1>3. out \in Seq(Cell) /\ Len(out) = 2 /\ Contains(out, 0, kind, 0, 2)
  BY <1>1, <1>2, ContainsCells
<1>4. \A i \in 1..(N + 1) : /\ i - 1 \in 0..(N + 1) /\ i \in 0..(N + 1) /\ i - 1 \in Nat
                            /\ Lengths[i] = Len(deposit[i - 1]) /\ Lengths[i] \in Nat
                            /\ SumTo(Lengths, i - 1) \in Nat /\ SumTo(Lengths, i) \in Nat
                            /\ SumTo(Lengths, i) = SumTo(Lengths, i - 1) + Lengths[i]
  <2>1. \A i \in 1..(N + 1) : i - 1 \in 0..(N + 1) /\ i \in 0..(N + 1)
    BY Numbers
  <2> QED  BY <2>1, LengthsFacts
<1>5. \A i \in 1..(N + 1) : transactions[i] = Cells("action", i - 1, Len(deposit[i - 1]))
  BY <1>1, <1>4, ActionsFacts
<1>6. /\ joined \in Seq(Cell) /\ Len(joined) = SumTo(Lengths, N + 1)
      /\ \A i \in 1..(N + 1) : Contains(joined, SumTo(Lengths, i - 1), "action", i - 1, Lengths[i])
  BY <1>1, <1>2, <1>5, JoinedCells
<1>7. data \in Seq(Cell) /\ Len(data) = 2 + SumTo(Lengths, N + 1)
  <2>1. data \in Seq(Cell) /\ Len(data) = Len(out) + Len(joined)
    BY <1>1, <1>3, <1>6, Joined
  <2> QED  BY <1>3, <1>6, <2>1
<1>8. Contains(data, 0, kind, 0, 2)
  BY <1>1, <1>2, <1>3, <1>6, ContainsLeft
<1>9. ASSUME NEW i \in 1..(N + 1)
      PROVE  /\ offsets[i] \in Nat /\ offsets[i] = 2 + SumTo(Lengths, i - 1)
             /\ Contains(data, offsets[i], "action", i - 1, Lengths[i])
  <2>1. offsets[i] = 2 + SumTo(Lengths, i - 1) /\ offsets[i] \in Nat
    BY <1>1, <1>4
  <2>2. PICK at, length, q : at = SumTo(Lengths, i - 1) /\ length = Lengths[i] /\ q = i - 1
    OBVIOUS
  <2>3. at \in Nat /\ length \in Nat /\ Contains(joined, at, "action", q, length)
    BY <1>4, <1>6, <2>2
  <2>4. Contains(data, 2 + at, "action", q, length)
    <3>1. at + length <= Len(joined) /\ \A k \in 1..length : joined[at + k] = <<"action", q, k>>
      BY <2>3 DEF Contains
    <3>2. 2 + at + length <= Len(data)
      BY <1>6, <1>7, <2>3, <3>1
    <3>3. ASSUME NEW k \in 1..length PROVE data[(2 + at) + k] = joined[at + k]
      <4>1. PICK x : x = (2 + at) + k
        OBVIOUS
      <4>2. x \in 1..(Len(out) + Len(joined)) /\ ~(x <= Len(out)) /\ x - Len(out) = at + k
        BY <1>3, <1>6, <2>3, <3>1, <4>1
      <4>3. data[x] = joined[x - Len(out)]
        BY <1>1, <1>3, <1>6, <4>2, ConcatProperties
      <4> QED  BY <4>1, <4>2, <4>3
    <3> QED  BY <2>3, <3>1, <3>2, <3>3 DEF Contains
  <2> QED  BY <2>1, <2>2, <2>4
<1>10. 1 \in 1..(N + 1) /\ 1 - 1 = 0
  BY Numbers
<1>11. offsets[1] = 2
  BY <1>9, <1>10, SumEmpty
<1>12. PICK msg : msg = ClearContract(p)
  OBVIOUS
<1>13. Offsets(p) = offsets
  <2>1. \A i \in 1..(N + 1) : ActionsOf(i - 1) = SumTo(Lengths, i - 1)
    BY <1>4, ActionsFacts
  <2>2. Len(result.outputs[p]) = 2
    BY <1>1, <1>3
  <2> QED  BY <1>1, <2>1, <2>2 DEF Offsets
<1>14. msg = [output |-> 0, deposits |-> offsets, data |-> data]
  BY <1>1, <1>12, <1>13, Zenon DEF ClearContract
<1>15. Copied(msg.data, msg.output, msg.deposits[1] - msg.output) = result.outputs[p]
  <2>1. Copied(data, 0, 2) = out
    <3>1. kind \in Kinds /\ data \in Seq(Cell)
      BY <1>7
    <3>2. Copied(data, 0, 2) = Cells(kind, 0, 2)
      BY <1>2, <1>8, <3>1, CopiedCells
    <3> QED  BY <1>1, <3>2
  <2>2. msg.deposits[1] - msg.output = 2
    BY <1>11, <1>14
  <2> QED  BY <1>1, <1>14, <2>1, <2>2
<1>16. ASSUME NEW i \in 1..(N + 1), NEW end, end = IF i <= N THEN msg.deposits[i + 1] ELSE Len(msg.data)
       PROVE  Copied(msg.data, msg.deposits[i], end - msg.deposits[i]) = Cells("action", i - 1, Len(deposit[i - 1]))
  <2>1. PICK at, length, q : at = offsets[i] /\ length = Lengths[i] /\ q = i - 1
    OBVIOUS
  <2>2. /\ at \in Nat /\ length \in Nat /\ q \in Nat /\ at = 2 + SumTo(Lengths, q)
        /\ Contains(data, at, "action", q, length)
    BY <1>4, <1>9, <2>1
  <2>3. Copied(data, at, length) = Cells("action", q, length)
    BY <1>2, <1>7, <2>2, CopiedCells
  <2>4. end = 2 + SumTo(Lengths, i)
    <3>1. CASE i <= N
      <4>1. PICK next : next = i + 1
        OBVIOUS
      <4>2. next \in 1..(N + 1) /\ next - 1 = i
        BY <3>1, <4>1, Numbers
      <4>3. offsets[next] = 2 + SumTo(Lengths, i)
        BY <1>9, <4>2
      <4> QED  BY <1>14, <1>16, <3>1, <4>1, <4>3
    <3>2. CASE ~(i <= N)
      <4>1. i = N + 1
        BY <3>2, Numbers
      <4> QED  BY <1>7, <1>14, <1>16, <3>2, <4>1
    <3> QED  BY <3>1, <3>2
  <2>5. end - at = length
    <3>1. PICK before, after : before = SumTo(Lengths, i - 1) /\ after = SumTo(Lengths, i)
      OBVIOUS
    <3>2. before \in Nat /\ length \in Nat /\ after = before + length
      BY <1>4, <2>1, <3>1
    <3>3. end = 2 + after /\ at = 2 + before
      BY <2>1, <2>2, <2>4, <3>1
    <3> QED  BY <3>2, <3>3
  <2> QED  BY <1>4, <1>14, <2>1, <2>3, <2>5
<1> QED  BY <1>12, <1>15, <1>16

LEMMA GetDepositsKeeps ==
    ASSUME TermsConsistent, NEW p \in Players, GetDeposits(p)
    PROVE  TermsConsistent'
<1>1. /\ HostsGave /\ MessagesMade /\ CollectedInOrder /\ OneWinner
      /\ SettlesTheDeposits /\ ShowsTheDeposits /\ GoodDepositsSettle
  BY DEF TermsConsistent
<1>2. /\ clearing = "cleared" /\ clearing' = clearing /\ missing' = missing
      /\ deposit' = deposit /\ input' = input /\ packed' = packed
      /\ collected' = collected /\ result' = result /\ settlement' = settlement
  BY DEF GetDeposits
<1>3. Len(collected) = N + 1
  BY <1>1, <1>2 DEF CollectedInOrder
<1>4. PICK winner \in Players : EvaluatedFor(winner)
  BY <1>1, <1>2 DEF OneWinner
<1>5. PICK kind \in Kinds : Message(p, winner) = Cells(kind, 0, 2)
  BY MessageKind
<1>6. result.outputs[p] = Cells(kind, 0, 2)
  BY <1>4, <1>5 DEF EvaluatedFor
<1>7. PICK cut : /\ shown' = [shown EXCEPT ![p] = cut]
                 /\ cut.output = result.outputs[p]
                 /\ \A i \in 1..(N + 1) : cut.deposits[i] = Cells("action", i - 1, Len(deposit[i - 1]))
  <2> DEFINE msg == ClearContract(p)
             end(i) == IF i <= N THEN msg.deposits[i + 1] ELSE Len(msg.data)
             new == [output |-> Copied(msg.data, msg.output, msg.deposits[1] - msg.output),
                     deposits |-> [i \in 1..(N + 1) |->
                         Copied(msg.data, msg.deposits[i], end(i) - msg.deposits[i])]]
  <2>1. shown' = [shown EXCEPT ![p] = new]
    BY DEF GetDeposits
  <2>2. /\ Copied(msg.data, msg.output, msg.deposits[1] - msg.output) = result.outputs[p]
        /\ \A i \in 1..(N + 1) : Copied(msg.data, msg.deposits[i], end(i) - msg.deposits[i])
                                 = Cells("action", i - 1, Len(deposit[i - 1]))
    BY <1>1, <1>3, <1>6, Cut
  <2>3. /\ new.output = Copied(msg.data, msg.output, msg.deposits[1] - msg.output)
        /\ \A i \in 1..(N + 1) : new.deposits[i] = Copied(msg.data, msg.deposits[i], end(i) - msg.deposits[i])
    OBVIOUS
  <2> HIDE DEF msg, end, new
  <2> QED  BY <2>1, <2>2, <2>3
<1>8. HostsGave'
  BY <1>1, <1>2, HostsKept DEF Clearings
<1>9. MessagesMade'
  BY <1>1, <1>2, MessagesKept
<1>10. CollectedInOrder'
  BY <1>1, <1>2, <1>3, CollectionKept
<1>11. OneWinner'
  BY <1>1, <1>2, WinnerKept
<1>12. SettlesTheDeposits'
  BY <1>1, <1>2, SettlementKept
<1>13. GoodDepositsSettle'
  BY <1>1, <1>2, FailureKept
<1>14. ShowsTheDeposits'
  <2>1. shown = [q \in Players |-> shown[q]]
    BY <1>1 DEF ShowsTheDeposits
  <2>2. shown' = [q \in Players |-> shown'[q]]
    BY <1>7, <2>1
  <2>3. ASSUME NEW q \in Players, Shown(q)'
        PROVE  /\ shown'[q].output = result'.outputs[q]
               /\ \A i \in 1..(N + 1) :
                      shown'[q].deposits[i] = Cells("action", i - 1, Len(deposit'[i - 1]))
    <3>1. shown'[q] = IF q = p THEN cut ELSE shown[q]
      BY <1>7, <2>1
    <3>2. CASE q = p
      BY <1>2, <1>7, <3>1, <3>2
    <3>3. CASE q # p
      <4>1. shown'[q] = shown[q]
        BY <3>1, <3>3
      <4>2. Shown(q)
        BY <2>3, <4>1 DEF Shown
      <4> QED  BY <1>1, <1>2, <4>1, <4>2 DEF ShowsTheDeposits
    <3> QED  BY <3>2, <3>3
  <2> QED  BY <1>2, <2>2, <2>3 DEF ShowsTheDeposits
<1> QED  BY <1>8, <1>9, <1>10, <1>11, <1>12, <1>13, <1>14 DEF TermsConsistent

LEMMA InitConsistent == TermsInit => TermsConsistent
<1> SUFFICES ASSUME TermsInit PROVE TermsConsistent
  OBVIOUS
<1>1. HostsGave
  <2>1. PICK length \in [Players -> 0..MaxInput] : input = [p \in Players |-> Cells("input", p, length[p])]
    BY DEF TermsInit
  <2>2. ASSUME NEW p \in Players
        PROVE  Len(input[p]) \in Nat /\ input[p] = Cells("input", p, Len(input[p]))
    <3>1. PICK n : n = length[p]
      OBVIOUS
    <3>2. n \in 0..MaxInput
      BY <3>1
    <3>3. n \in Nat /\ p \in Nat
      BY <3>2, PlayersAreParties, NumbersAreNatural
    <3>4. input[p] = Cells("input", p, n)
      BY <2>1, <3>1
    <3>5. "input" \in Kinds
      BY DEF Kinds
    <3>6. Len(Cells("input", p, n)) = n
      BY <3>3, <3>5, CellsFacts
    <3> QED  BY <3>3, <3>4, <3>6
  <2> QED  BY <2>2 DEF TermsInit, HostsGave
<1>2. MessagesMade
  BY DEF TermsInit, MessagesMade
<1>3. CollectedInOrder
  <2>1. collected = <<>> /\ clearing = "idle"
    BY DEF TermsInit
  <2>2. Len(collected) = 0 /\ 0 \in 0..(N + 1)
    BY <2>1, Numbers
  <2>3. collected = [i \in 1..0 |-> Item(i - 1)]
    <3>1. 1..0 = {}
      OBVIOUS
    <3> QED  BY <2>1, <3>1
  <2> QED  BY <2>1, <2>2, <2>3 DEF CollectedInOrder
<1>4. OneWinner /\ SettlesTheDeposits /\ GoodDepositsSettle
  BY DEF TermsInit, OneWinner, SettlesTheDeposits, GoodDepositsSettle
<1>5. ShowsTheDeposits
  BY DEF TermsInit, ShowsTheDeposits, Shown
<1> QED  BY <1>1, <1>2, <1>3, <1>4, <1>5 DEF TermsConsistent

(***************************************************************************)
(* What every buffer of a contract that has been filled contains is what   *)
(* the deposits determine, through all the offsets.                        *)
(***************************************************************************)
THEOREM TermsAreConsistent == TermsSpec => []TermsConsistent
<1>1. TermsInit => TermsConsistent
  BY InitConsistent
<1>2. TermsConsistent /\ [TermsNext]_vars => TermsConsistent'
  <2> SUFFICES ASSUME TermsConsistent, [TermsNext]_vars
               PROVE  TermsConsistent'
    OBVIOUS
  <2>1. CASE \E p \in Players : PackDepositAndInput(p)
    BY <2>1, PackKeeps
  <2>2. CASE ImportCollateral
    BY <2>2, ImportCollateralKeeps
  <2>3. CASE \E p \in Players : CollectFrom(p)
    BY <2>3, CollectFromKeeps
  <2>4. CASE \E random \in 0..MaxRandom : Evaluate(random)
    BY <2>4, EvaluateKeeps
  <2>5. CASE CreateTransaction
    BY <2>5, CreateTransactionKeeps
  <2>6. CASE \E p \in Players : GetDeposits(p)
    BY <2>6, GetDepositsKeeps
  <2>7. CASE UNCHANGED vars
    <3>1. /\ deposit' = deposit /\ input' = input /\ packed' = packed /\ clearing' = clearing
          /\ missing' = missing /\ collected' = collected /\ result' = result
          /\ settlement' = settlement /\ shown' = shown
      BY <2>7 DEF vars
    <3>2. /\ HostsGave /\ MessagesMade /\ CollectedInOrder /\ OneWinner
          /\ SettlesTheDeposits /\ ShowsTheDeposits /\ GoodDepositsSettle
      BY DEF TermsConsistent
    <3>3. HostsGave'
      BY <3>1, <3>2, HostsKept DEF HostsGave, Clearings
    <3>4. CollectedInOrder'
      BY <3>1, <3>2, CollectionKept DEF CollectedInOrder
    <3> QED  BY <3>1, <3>2, <3>3, <3>4, MessagesKept, WinnerKept, SettlementKept, ShowingKept,
                FailureKept DEF TermsConsistent
  <2> QED  BY <2>1, <2>2, <2>3, <2>4, <2>5, <2>6, <2>7 DEF TermsNext
<1> QED  BY <1>1, <1>2, PTL DEF TermsSpec

-----------------------------------------------------------------------------
(***************************************************************************)
(* The properties of the runs.                                             *)
(***************************************************************************)

(***************************************************************************)
(* With all the Merkle paths a contract fails only on a deposit that pays  *)
(* too little or in more notes than one (GoodDepositsSettle).              *)
(***************************************************************************)
THEOREM GoodDepositsAlwaysSettle == TermsSpec => []GoodDepositsSettle
<1>1. TermsConsistent => GoodDepositsSettle
  BY DEF TermsConsistent
<1> QED  BY <1>1, TermsAreConsistent, PTL

LEMMA SettledFacts ==
    ASSUME TermsConsistent, clearing = "cleared"
    PROVE  /\ HostsGave /\ CollectedInOrder /\ Len(collected) = N + 1
           /\ \A p \in Parties : PaysEnough(p)
           /\ \A i \in 1..(N + 1) :
                  /\ settlement.pays[i] = [to |-> Cells("address", i - 1, 1), value |-> result.payouts[i]]
                  /\ settlement.pays[i].to = Cells("address", i - 1, 1)
                  /\ settlement.pays[i].value = result.payouts[i]
           /\ \E winner \in Players : EvaluatedFor(winner)
<1>1. HostsGave /\ CollectedInOrder /\ Len(collected) = N + 1
  BY DEF TermsConsistent, CollectedInOrder
<1>2. ASSUME NEW p \in Parties PROVE PaysEnough(p)
  <2>1. p + 1 <= Len(collected)
    BY <1>1, Numbers DEF Parties
  <2> QED  BY <1>1, <2>1, Collected
<1>3. \A i \in 1..(N + 1) :
          settlement.pays[i] = [to |-> Cells("address", i - 1, 1), value |-> result.payouts[i]]
  BY DEF TermsConsistent, SettlesTheDeposits
<1> QED  BY <1>1, <1>2, <1>3 DEF TermsConsistent, OneWinner

(***************************************************************************)
(* The collateral comes back to the operator with a fee from every player  *)
(* (OperatorRewarded).                                                     *)
(***************************************************************************)
THEOREM OperatorIsRewarded == TermsSpec => []OperatorRewarded
<1>1. TermsConsistent => OperatorRewarded
  <2> SUFFICES ASSUME TermsConsistent, clearing = "cleared"
               PROVE  /\ settlement.pays[1].to = Cells("address", 0, 1)
                      /\ settlement.pays[1].value >= Collateral + OperatorFee * N
    BY DEF OperatorRewarded, Settled
  <2>1. 1 \in 1..(N + 1) /\ 1 - 1 = 0 /\ 0 \in Parties
    BY Numbers DEF Parties
  <2>2. settlement.pays[1].to = Cells("address", 0, 1) /\ settlement.pays[1].value = result.payouts[1]
    BY <2>1, SettledFacts
  <2>3. result.payouts[1] = DepositedAmount(0) - MinerFee + OperatorFee * N
    BY SettledFacts DEF EvaluatedFor
  <2>4. DepositedAmount(0) \in Nat /\ DepositedAmount(0) >= Collateral + MinerFee
    <3>1. PaysEnough(0) /\ DepositedAmount(0) \in 0..MaxMoney
      BY <2>1, SettledFacts, DepositFacts
    <3> QED  BY <3>1 DEF PaysEnough, CollateralSuffices
  <2>5. PICK fees \in Nat : fees = OperatorFee * N
    BY Numbers
  <2>6. DepositedAmount(0) - MinerFee + fees >= Collateral + fees
    BY <2>4, <2>5, Numbers
  <2> QED  BY <2>2, <2>3, <2>5, <2>6
<1> QED  BY <1>1, TermsAreConsistent, PTL

(***************************************************************************)
(* The transactions a player inspects are the ones the settlement spends,  *)
(* in their order (DepositsShown).                                         *)
(***************************************************************************)
THEOREM DepositsAreShown == TermsSpec => []DepositsShown
<1>1. TermsConsistent => DepositsShown
  <2> SUFFICES ASSUME TermsConsistent, NEW p \in Players, Shown(p), NEW i \in 1..(N + 1)
               PROVE  /\ shown[p].deposits[i] = Cells("action", i - 1, Len(deposit[i - 1]))
                      /\ \E k \in DOMAIN shown[p].deposits[i] :
                              shown[p].deposits[i][k] = settlement.spends[i]
    BY DEF DepositsShown
  <2>1. clearing = "cleared" /\ shown[p].deposits[i] = Cells("action", i - 1, Len(deposit[i - 1]))
    BY DEF TermsConsistent, ShowsTheDeposits
  <2>2. PICK k \in Notes(i - 1) : settlement.spends[i] = <<"action", i - 1, k>>
    BY <2>1 DEF TermsConsistent, SettlesTheDeposits
  <2>3. PICK q, n : q = i - 1 /\ n = Len(deposit[q])
    OBVIOUS
  <2>4. HostsGave
    BY DEF TermsConsistent
  <2>5. q \in Parties /\ q \in Nat /\ n \in Nat /\ DOMAIN deposit[q] = 1..n
    BY <2>3, <2>4, LengthsFacts, DepositFacts
  <2>6. k \in 1..n
    BY <2>2, <2>3, <2>5 DEF Notes
  <2>7. DOMAIN Cells("action", q, n) = 1..n /\ Cells("action", q, n)[k] = <<"action", q, k>>
    BY <2>6 DEF Cells
  <2> QED  BY <2>1, <2>2, <2>3, <2>6, <2>7
<1> QED  BY <1>1, TermsAreConsistent, PTL

(***************************************************************************)
(* One player wins the whole pot and is told so, the others get nothing    *)
(* and are told so (WinnerTakesThePot).                                    *)
(***************************************************************************)
THEOREM TheWinnerTakesThePot == TermsSpec => []WinnerTakesThePot
<1>1. TermsConsistent => WinnerTakesThePot
  <2> SUFFICES ASSUME TermsConsistent, clearing = "cleared"
               PROVE  \E winner \in Players : \A p \in Players :
                          /\ PaidTo(p) = IF p = winner THEN Pot ELSE 0
                          /\ Shown(p) =>
                               shown[p].output = Cells(IF p = winner THEN "YOU WIN!" ELSE "YOU LOSE", 0, 2)
    BY DEF WinnerTakesThePot, Settled
  <2>1. PICK winner \in Players : EvaluatedFor(winner)
    BY SettledFacts
  <2>2. ASSUME NEW p \in Players
        PROVE  PaidTo(p) = IF p = winner THEN Pot ELSE 0
    <3>1. PICK n, k, v : /\ n = N + 1 /\ k = p + 1
                         /\ v = [i \in 1..(N + 1) |-> IF settlement.pays[i].to = Cells("address", p, 1)
                                                      THEN settlement.pays[i].value ELSE 0]
      OBVIOUS
    <3>2. n \in Nat /\ k \in 1..n /\ k \in 1..(N + 1) /\ k - 1 = p
      BY <3>1, PlayersAreParties, Numbers
    <3>3. /\ \A i \in 1..(N + 1) : settlement.pays[i].to = Cells("address", i - 1, 1)
          /\ settlement.pays[k].value = result.payouts[p + 1]
      BY <3>1, <3>2, SettledFacts
    <3>4. v[k] = result.payouts[p + 1]
      <4>1. settlement.pays[k].to = Cells("address", p, 1)
        BY <3>2, <3>3
      <4> QED  BY <3>1, <3>2, <3>3, <4>1
    <3>5. result.payouts[p + 1] = IF p = winner THEN Pot ELSE 0
      BY <2>1 DEF EvaluatedFor
    <3>6. Pot \in Int
      <4>1. HostsGave /\ \A q \in Players : PaysEnough(q)
        BY SettledFacts, PlayersAreParties
      <4>2. Pot \in 0..(N * MaxMoney)
        BY <4>1, PotFits
      <4> QED  BY <4>2
    <3>7. v[k] \in Int
      BY <3>4, <3>5, <3>6
    <3>8. ASSUME NEW i \in 1..n, i # k
          PROVE  v[i] = 0
      <4>1. i \in 1..(N + 1) /\ i - 1 # p
        BY <3>1, <3>8, PlayersAreParties
      <4>2. Cells("address", i - 1, 1) # Cells("address", p, 1)
        BY <4>1, OneCell
      <4> QED  BY <3>1, <3>3, <4>1, <4>2
    <3>9. SumTo(v, n) = v[k]
      BY <3>2, <3>7, <3>8, SumOfOne
    <3>10. PaidTo(p) = SumTo(v, n)
      BY <3>1 DEF PaidTo
    <3> QED  BY <3>4, <3>5, <3>9, <3>10
  <2>3. ASSUME NEW p \in Players, Shown(p)
        PROVE  shown[p].output = Cells(IF p = winner THEN "YOU WIN!" ELSE "YOU LOSE", 0, 2)
    <3>1. shown[p].output = result.outputs[p]
      BY <2>3 DEF TermsConsistent, ShowsTheDeposits
    <3> QED  BY <2>1, <3>1 DEF EvaluatedFor, Message
  <2> QED  BY <2>1, <2>2, <2>3
<1> QED  BY <1>1, TermsAreConsistent, PTL

(***************************************************************************)
(* The settlement spends what it pays out and the miner's fee of every     *)
(* party, no more and no less (FeesCovered).                               *)
(***************************************************************************)
Deposited == [i \in 1..(N + 1) |-> DepositedAmount(i - 1)]

LEMMA SpentIsDeposited ==
    ASSUME TermsConsistent, clearing = "cleared", missing = "none"
    PROVE  SpentValue = DepositedAmount(0) + SumTo([p \in Players |-> DepositedAmount(p)], N)
<1>1. PICK n, d, v, w : /\ n = N + 1 /\ d = Deposited
                        /\ v = [i \in 1..(N + 1) |-> Note(settlement.spends[i]).value]
                        /\ w = [p \in Players |-> DepositedAmount(p)]
  OBVIOUS
<1>2. HostsGave
  BY DEF TermsConsistent
<1>3. \A i \in 1..n : d[i] \in Int /\ v[i] = d[i]
  <2>1. SUFFICES ASSUME NEW i \in 1..n PROVE d[i] \in Int /\ v[i] = d[i]
    OBVIOUS
  <2>2. i \in 1..(N + 1)
    BY <1>1
  <2>3. PICK q : q = i - 1
    OBVIOUS
  <2>4. q \in Parties
    BY <1>2, <2>2, <2>3, LengthsFacts
  <2>5. PICK k : settlement.spends[i] = <<"action", q, k>> /\ Notes(q) = {k}
    BY <2>2, <2>3 DEF TermsConsistent, SettlesTheDeposits
  <2>6. deposit[q][k].value = DepositedAmount(q)
    BY <1>2, <2>4, <2>5, OneNote
  <2>7. v[i] = deposit[q][k].value
    BY <1>1, <2>2, <2>5 DEF Note
  <2>8. d[i] = DepositedAmount(q)
    BY <1>1, <2>2, <2>3 DEF Deposited
  <2>9. DepositedAmount(q) \in 0..MaxMoney
    BY <1>2, <2>4, DepositFacts
  <2> QED  BY <2>6, <2>7, <2>8, <2>9
<1>4. n \in Nat
  BY <1>1, Numbers
<1>5. SumTo(v, n) = SumTo(d, n)
  BY <1>3, <1>4, SumSame
<1>6. \A p \in 1..N : w[p] = d[p + 1]
  <2>1. SUFFICES ASSUME NEW p \in 1..N PROVE w[p] = d[p + 1]
    OBVIOUS
  <2>2. PICK i : i = p + 1
    OBVIOUS
  <2>3. i \in 1..(N + 1) /\ i - 1 = p
    BY <2>2, Numbers
  <2>4. d[i] = DepositedAmount(p)
    BY <1>1, <2>3 DEF Deposited
  <2> QED  BY <1>1, <2>2, <2>4 DEF Players
<1>7. SumTo(d, N + 1) = d[1] + SumTo(w, N)
  <2>1. N \in Nat /\ \A i \in 1..(N + 1) : d[i] \in Int
    BY <1>1, <1>3, Numbers
  <2> QED  BY <1>6, <2>1, SumFirst
<1>8. d[1] = DepositedAmount(0)
  <2>1. 1 \in 1..(N + 1) /\ 1 - 1 = 0
    BY Numbers
  <2> QED  BY <1>1, <2>1 DEF Deposited
<1> QED  BY <1>1, <1>5, <1>7, <1>8 DEF SpentValue

LEMMA PaidIsThePayouts ==
    ASSUME TermsConsistent, clearing = "cleared"
    PROVE  PaidValue = DepositedAmount(0) - MinerFee + OperatorFee * N + Pot
<1>1. PICK winner \in Players : EvaluatedFor(winner)
  BY SettledFacts
<1>2. PICK n, v, u : /\ n = N + 1
                     /\ v = [i \in 1..(N + 1) |-> settlement.pays[i].value]
                     /\ u = [p \in 1..N |-> result.payouts[p + 1]]
  OBVIOUS
<1>3. \A i \in 1..(N + 1) : v[i] = result.payouts[i]
  BY <1>2, SettledFacts
<1>4. \A p \in 1..N : u[p] = IF p = winner THEN Pot ELSE 0
  BY <1>1, <1>2 DEF EvaluatedFor, Players
<1>5. Pot \in Int /\ DepositedAmount(0) \in Int
  <2>1. HostsGave /\ \A q \in Players : PaysEnough(q)
    BY SettledFacts, PlayersAreParties
  <2>2. Pot \in 0..(N * MaxMoney)
    BY <2>1, PotFits
  <2>3. 0 \in Parties
    BY Numbers DEF Parties
  <2>4. DepositedAmount(0) \in 0..MaxMoney
    BY <2>1, <2>3, DepositFacts
  <2> QED  BY <2>2, <2>4
<1>6. PICK operators : operators = DepositedAmount(0) - MinerFee + OperatorFee * N
  OBVIOUS
<1>7. v[1] = operators /\ operators \in Int
  <2>1. 1 \in 1..(N + 1)
    BY Numbers
  <2>2. v[1] = operators
    BY <1>1, <1>3, <1>6, <2>1 DEF EvaluatedFor
  <2>3. OperatorFee * N \in Int
    BY Numbers
  <2> QED  BY <1>5, <1>6, <2>2, <2>3, Numbers
<1>8. \A p \in 1..N : v[p + 1] = u[p] /\ u[p] \in Int
  <2>1. \A p \in 1..N : p + 1 \in 1..(N + 1)
    BY Numbers
  <2>2. \A p \in 1..N : u[p] \in Int
    BY <1>4, <1>5
  <2> QED  BY <1>2, <1>3, <2>1, <2>2
<1>9. \A i \in 1..(N + 1) : v[i] \in Int
  <2>1. SUFFICES ASSUME NEW i \in 1..(N + 1), i # 1 PROVE v[i] \in Int
    BY <1>7
  <2>2. PICK p \in 1..N : i = p + 1
    <3>1. i - 1 \in 1..N /\ i = (i - 1) + 1
      BY <2>1, Numbers
    <3> QED  BY <3>1
  <2> QED  BY <1>8, <2>2
<1>10. SumTo(v, N + 1) = v[1] + SumTo(u, N)
  <2>1. N \in Nat /\ \A p \in 1..N : u[p] = v[p + 1]
    BY <1>8, Numbers
  <2> QED  BY <1>9, <2>1, SumFirst
<1>11. SumTo(u, N) = Pot
  <2>1. winner \in 1..N /\ u[winner] = Pot /\ u[winner] \in Int /\ N \in Nat
    BY <1>4, <1>5, Numbers DEF Players
  <2>2. \A p \in 1..N : p # winner => u[p] = 0
    BY <1>4
  <2>3. SumTo(u, N) = u[winner]
    BY <2>1, <2>2, SumOfOne
  <2> QED  BY <2>1, <2>3
<1>12. PaidValue = SumTo(v, N + 1)
  BY <1>2 DEF PaidValue
<1> QED  BY <1>6, <1>7, <1>10, <1>11, <1>12

LEMMA PotIsDeposited ==
    ASSUME TermsConsistent, clearing = "cleared"
    PROVE  /\ SumTo([p \in Players |-> DepositedAmount(p)], N) \in Int
           /\ Pot = SumTo([p \in Players |-> DepositedAmount(p)], N) - N * (MinerFee + OperatorFee)
<1>1. PICK w, u, c : /\ w = [p \in Players |-> DepositedAmount(p)] /\ u = PotShares
                     /\ c = MinerFee + OperatorFee
  OBVIOUS
<1>2. HostsGave /\ \A p \in Players : PaysEnough(p) /\ p \in Parties /\ p # 0
  BY SettledFacts, PlayersAreParties
<1>3. \A p \in 1..N : w[p] \in Int /\ u[p] = w[p] - c
  <2>1. SUFFICES ASSUME NEW p \in Players PROVE w[p] \in Int /\ u[p] = w[p] - c
    BY DEF Players
  <2>2. w[p] = DepositedAmount(p)
    BY <1>1
  <2>3. u[p] = DepositedAmount(p) - Fees(p)
    BY <1>1, <1>2, PotFits
  <2>4. Fees(p) = c
    BY <1>1, <1>2 DEF Fees
  <2>5. DepositedAmount(p) \in 0..MaxMoney
    BY <1>2, DepositFacts
  <2> QED  BY <2>2, <2>3, <2>4, <2>5
<1>4. N \in Nat /\ c \in Int /\ N \in 0..N
  BY <1>1, Numbers
<1>5. SumTo(u, N) = SumTo(w, N) - N * c
  BY <1>3, <1>4, SumLess
<1>6. SumTo(w, N) \in Int
  BY <1>3, <1>4, SumType
<1>7. Pot = SumTo(u, N)
  BY <1>1, <1>2, PotFits
<1> QED  BY <1>1, <1>5, <1>6, <1>7

THEOREM FeesAreCovered == TermsSpec => []FeesCovered
<1>1. TermsConsistent => FeesCovered
  <2> SUFFICES ASSUME TermsConsistent, clearing = "cleared", missing = "none"
               PROVE  SpentValue = PaidValue + MinerFee * (N + 1)
    BY DEF FeesCovered, Settled
  <2>1. PICK all, own : /\ all = SumTo([p \in Players |-> DepositedAmount(p)], N)
                        /\ own = DepositedAmount(0)
    OBVIOUS
  <2>2. own \in Int
    <3>1. HostsGave /\ 0 \in Parties
      BY SettledFacts, Numbers DEF Parties
    <3>2. own \in 0..MaxMoney
      BY <2>1, <3>1, DepositFacts
    <3> QED  BY <3>2
  <2>3. PICK miners, operators : miners = MinerFee * N /\ operators = OperatorFee * N
    OBVIOUS
  <2>4. miners \in Int /\ operators \in Int
    BY <2>3, Numbers
  <2>5. N * (MinerFee + OperatorFee) = miners + operators /\ MinerFee * (N + 1) = miners + MinerFee
    BY <2>3, Numbers
  <2>6. SpentValue = own + all
    BY <2>1, SpentIsDeposited
  <2>7. all \in Int /\ Pot = all - (miners + operators)
    BY <2>1, <2>5, PotIsDeposited
  <2>8. PaidValue = own - MinerFee + operators + Pot
    BY <2>1, <2>3, PaidIsThePayouts
  <2> QED  BY <2>2, <2>4, <2>5, <2>6, <2>7, <2>8, Numbers
<1> QED  BY <1>1, TermsAreConsistent, PTL
=============================================================================
