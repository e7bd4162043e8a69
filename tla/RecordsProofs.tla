--------------------------- MODULE RecordsProofs ----------------------------
(***************************************************************************)
(* Proofs about the channel, plaintext at first and encrypted later, for   *)
(* every size of envelope and header, every set of payload sizes and all   *)
(* mishaps.                                                                *)
(***************************************************************************)
EXTENDS RecordsInductive, SequenceTheorems, TLAPS

-----------------------------------------------------------------------------
(***************************************************************************)
(* Sequences of units.                                                     *)
(***************************************************************************)
LEMMA Cut ==
    ASSUME NEW s \in Seq(Unit), NEW n \in 1..Len(s)
    PROVE  /\ SubSeq(s, 1, n) \in Seq(Unit)
           /\ Len(SubSeq(s, 1, n)) = n
           /\ \A i \in 1..n : SubSeq(s, 1, n)[i] = s[i]
           /\ SubSeq(s, n + 1, Len(s)) \in Seq(Unit)
           /\ Len(SubSeq(s, n + 1, Len(s))) = Len(s) - n
           /\ \A i \in 1..(Len(s) - n) : SubSeq(s, n + 1, Len(s))[i] = s[n + i]
<1>1. /\ Len(s) \in Nat
      /\ \A i \in 1..Len(s) : s[i] \in Unit
  BY ElementOfSeq, LenProperties
<1>2. \A i \in 1..n : s[i] \in Unit
  BY <1>1
<1>3. \A i \in (n + 1)..Len(s) : s[i] \in Unit
  BY <1>1
<1>4. /\ SubSeq(s, 1, n) \in Seq(Unit)
      /\ Len(SubSeq(s, 1, n)) = n
      /\ \A i \in 1..n : SubSeq(s, 1, n)[i] = s[i]
  <2>1. n \in Int /\ 1 \in Int /\ 1 <= n
    BY <1>1
  <2>2. /\ SubSeq(s, 1, n) \in Seq(Unit)
        /\ Len(SubSeq(s, 1, n)) = IF 1 <= n THEN n - 1 + 1 ELSE 0
        /\ \A i \in 1..(n - 1 + 1) : SubSeq(s, 1, n)[i] = s[1 + i - 1]
    BY <1>2, <2>1, SubSeqProperties
  <2> QED  BY <2>1, <2>2
<1>5. /\ SubSeq(s, n + 1, Len(s)) \in Seq(Unit)
      /\ Len(SubSeq(s, n + 1, Len(s))) = Len(s) - n
      /\ \A i \in 1..(Len(s) - n) : SubSeq(s, n + 1, Len(s))[i] = s[n + i]
  <2>1. n + 1 \in Int /\ Len(s) \in Int /\ n <= Len(s)
    BY <1>1
  <2>2. /\ SubSeq(s, n + 1, Len(s)) \in Seq(Unit)
        /\ Len(SubSeq(s, n + 1, Len(s)))
             = IF n + 1 <= Len(s) THEN Len(s) - (n + 1) + 1 ELSE 0
        /\ \A i \in 1..(Len(s) - (n + 1) + 1) :
             SubSeq(s, n + 1, Len(s))[i] = s[(n + 1) + i - 1]
    BY <1>3, <2>1, SubSeqProperties
  <2> QED  BY <1>1, <2>1, <2>2
<1> QED  BY <1>4, <1>5

LEMMA Joined ==
    ASSUME NEW s \in Seq(Unit), NEW t \in Seq(Unit)
    PROVE  /\ s \o t \in Seq(Unit)
           /\ Len(s \o t) = Len(s) + Len(t)
           /\ \A i \in 1..Len(s) : (s \o t)[i] = s[i]
           /\ \A i \in 1..Len(t) : (s \o t)[Len(s) + i] = t[i]
<1>1. Len(s) \in Nat /\ Len(t) \in Nat
  BY LenProperties
<1>2. /\ s \o t \in Seq(Unit)
      /\ Len(s \o t) = Len(s) + Len(t)
      /\ \A i \in 1..(Len(s) + Len(t)) :
           (s \o t)[i] = IF i <= Len(s) THEN s[i] ELSE t[i - Len(s)]
  BY ConcatProperties
<1> QED  BY <1>1, <1>2

-----------------------------------------------------------------------------
(***************************************************************************)
(* Sizes.                                                                  *)
(***************************************************************************)
LEMMA Sizes ==
    ASSUME RecordsTypeOK
    PROVE  /\ Len(records) \in Nat
           /\ DOMAIN records = 1..Len(records)
           /\ records = <<>> <=> Len(records) = 0
           /\ Len(wire) \in Nat
           /\ DOMAIN wire = 1..Len(wire)
           /\ wire = <<>> <=> Len(wire) = 0
           /\ Len(buffer) \in Nat
           /\ Len(delivered) \in Nat
           /\ Header \in Nat /\ Header >= 1
           /\ Envelope \in Nat /\ Envelope >= 1
           /\ \A k \in DOMAIN records :
                /\ records[k] \in Record
                /\ Length(k) \in Nat
                /\ Length(k) >= Header
                /\ Overhead(k) \in Nat
                /\ Total(k) = Overhead(k) + Length(k)
                /\ Total(k) \in Nat
<1>1. /\ Len(records) \in Nat
      /\ DOMAIN records = 1..Len(records)
      /\ records = <<>> <=> Len(records) = 0
      /\ \A k \in 1..Len(records) : records[k] \in Record
  BY LenProperties, EmptySeq, ElementOfSeq DEF RecordsTypeOK
<1>2. /\ Len(wire) \in Nat
      /\ DOMAIN wire = 1..Len(wire)
      /\ wire = <<>> <=> Len(wire) = 0
      /\ Len(buffer) \in Nat
      /\ Len(delivered) \in Nat
  BY LenProperties, EmptySeq DEF RecordsTypeOK
<1>3. /\ Header \in Nat /\ Header >= 1
      /\ Envelope \in Nat /\ Envelope >= 1
      /\ \A k : Overhead(k) \in Nat
  BY SizesAssumption DEF Overhead
<1>4. ASSUME NEW k \in DOMAIN records
      PROVE  Length(k) \in Nat /\ Length(k) >= Header /\ Total(k) \in Nat
  <2>1. records[k].payload \in Nat
    BY <1>1, <1>4, SizesAssumption DEF Record
  <2> QED  BY <1>3, <2>1 DEF Length, Total
<1> QED  BY <1>1, <1>2, <1>3, <1>4 DEF Total

(***************************************************************************)
(* A receiver that is between two records begins the next.                 *)
(***************************************************************************)
LEMMA NextRecord ==
    ASSUME RecordsConsistent, rxOk, Taken = 0, wire # <<>>
    PROVE  Current \in DOMAIN records /\ wire[1] = <<Current, 1>>
<1>1. wire[1] = <<Current, 1>>
  BY DEF RecordsConsistent, JoinsUp, NextUnit
<1>2. 1 \in DOMAIN wire
  BY Sizes DEF RecordsConsistent
<1>3. wire[1][1] \in DOMAIN records
  BY <1>2 DEF RecordsConsistent, UnitsOfRecords, OfRecord
<1> QED  BY <1>1, <1>3

(***************************************************************************)
(* What a recv yields is the continuation of the current record.           *)
(***************************************************************************)
LEMMA Continuation ==
    ASSUME RecordsConsistent, rxOk, Current \in DOMAIN records, Taken \in Nat,
           NEW n \in 1..Len(wire), Taken + n <= Total(Current)
    PROVE  /\ \A i \in 1..n : wire[i] = <<Current, Taken + i>>
           /\ Taken + n = Total(Current) => records[Current].whole
           /\ n < Len(wire) =>
                wire[n + 1] = IF Taken + n = Total(Current)
                              THEN <<Current + 1, 1>>
                              ELSE <<Current, Taken + n + 1>>
<1> DEFINE T == Total(Current)
<1>0. /\ RecordsTypeOK /\ UnitsOfRecords /\ Continuous /\ JoinsUp
      /\ Len(wire) \in Nat /\ DOMAIN wire = 1..Len(wire) /\ wire # <<>>
      /\ T \in Nat
  BY Sizes DEF RecordsConsistent
<1> HIDE DEF T
<1>1. wire[1] = <<Current, Taken + 1>>
  BY <1>0 DEF JoinsUp, NextUnit, T
<1>2. /\ 1 \in DOMAIN wire
      /\ wire[1][1] = Current
      /\ wire[1][2] = Taken + 1
  BY <1>0, <1>1
<1>3. \A m \in 1..(Len(wire) - 1) :
        /\ Taken + 1 + m <= T => wire[1 + m] = <<Current, Taken + 1 + m>>
        /\ Taken + 1 + m = T + 1 => wire[1 + m] = <<Current + 1, 1>>
  BY <1>0, <1>2 DEF Continuous, Continues, T
<1>4. \A i \in 1..n : wire[i] = <<Current, Taken + i>>
  <2> SUFFICES ASSUME NEW i \in 1..n
               PROVE  wire[i] = <<Current, Taken + i>>
    OBVIOUS
  <2>1. CASE i = 1
    BY <1>1, <2>1
  <2>2. CASE i # 1
    <3>1. i - 1 \in 1..(Len(wire) - 1) /\ Taken + 1 + (i - 1) <= T /\ 1 + (i - 1) = i
          /\ Taken + 1 + (i - 1) = Taken + i
      BY <1>0, <2>2 DEF T
    <3> QED  BY <1>3, <3>1
  <2> QED  BY <2>1, <2>2
<1>5. Taken + n = T => records[Current].whole
  <2>1. n \in DOMAIN wire /\ wire[n] = <<Current, Taken + n>>
    BY <1>0, <1>4
  <2> QED  BY <1>0, <2>1 DEF UnitsOfRecords, OfRecord, T
<1>6. n < Len(wire) =>
        wire[n + 1] = IF Taken + n = T THEN <<Current + 1, 1>>
                      ELSE <<Current, Taken + n + 1>>
  <2> SUFFICES ASSUME n < Len(wire)
               PROVE  wire[n + 1] = IF Taken + n = T THEN <<Current + 1, 1>>
                                    ELSE <<Current, Taken + n + 1>>
    OBVIOUS
  <2>1. n \in 1..(Len(wire) - 1) /\ 1 + n = n + 1 /\ Taken + n <= T
    BY <1>0 DEF T
  <2>2. CASE Taken + n = T
    BY <1>3, <2>1, <2>2
  <2>3. CASE Taken + n # T
    BY <1>0, <1>3, <2>1, <2>3
  <2> QED  BY <2>2, <2>3
<1> QED  BY <1>4, <1>5, <1>6 DEF T

(***************************************************************************)
(* The wire, and how it joins what was taken, after a recv.                *)
(***************************************************************************)
LosesTheFirst(n) == wire' = SubSeq(wire, n + 1, Len(wire))

LEMMA WireAfterRecv ==
    ASSUME RecordsConsistent, rxOk, NEW n \in 1..Len(wire),
           LosesTheFirst(n), UNCHANGED txVars
    PROVE  /\ wire' \in Seq(Unit)
           /\ Len(wire') = Len(wire) - n
           /\ \A i \in 1..Len(wire') : wire'[i] = wire[n + i]
           /\ UnitsOfRecords'
           /\ Continuous'
<1>0. /\ RecordsTypeOK /\ UnitsOfRecords /\ Continuous
      /\ Len(wire) \in Nat
      /\ \A k : Total(k)' = Total(k)
      /\ records' = records
  BY Sizes DEF RecordsConsistent, txVars, Total, Length, Overhead
<1>d. DOMAIN wire = 1..Len(wire)
  BY Sizes DEF RecordsConsistent
<1>1. /\ wire' \in Seq(Unit)
      /\ Len(wire') = Len(wire) - n
      /\ \A i \in 1..(Len(wire) - n) : wire'[i] = wire[n + i]
  BY Cut DEF RecordsConsistent, RecordsTypeOK, LosesTheFirst
<1>2. DOMAIN wire' = 1..(Len(wire) - n)
  BY <1>1, LenProperties
<1>3. UnitsOfRecords'
  <2> SUFFICES ASSUME NEW j \in 1..(Len(wire) - n)
               PROVE  OfRecord(wire[j][1], wire[j][2])'
    BY <1>2 DEF UnitsOfRecords
  <2>1. n + j \in 1..Len(wire) /\ wire'[j] = wire[n + j]
    BY <1>0, <1>1
  <2>2. n + j \in DOMAIN wire
    BY <1>d, <2>1
  <2>3. OfRecord(wire[n + j][1], wire[n + j][2])
    BY <1>0, <2>2 DEF UnitsOfRecords
  <2> QED  BY <1>0, <2>1, <2>3 DEF OfRecord
<1>4. Continuous'
  <2> SUFFICES ASSUME NEW j \in 1..(Len(wire) - n), NEW m \in 1..((Len(wire) - n) - j)
               PROVE  Continues(wire[j][1], wire[j][2], m, wire[j + m])'
    BY <1>1, <1>2 DEF Continuous
  <2>1. /\ n + j \in 1..Len(wire) /\ wire'[j] = wire[n + j]
        /\ m \in 1..(Len(wire) - (n + j))
        /\ wire'[j + m] = wire[(n + j) + m]
    <3>1. Len(wire) \in Nat
      BY <1>0
    <3>2. /\ n + j \in 1..Len(wire)
          /\ m \in 1..(Len(wire) - (n + j))
          /\ j + m \in 1..(Len(wire) - n)
          /\ n + (j + m) = (n + j) + m
      BY <3>1
    <3> QED  BY <1>1, <3>2
  <2>2. n + j \in DOMAIN wire
    BY <1>d, <2>1
  <2>3. Continues(wire[n + j][1], wire[n + j][2], m, wire[(n + j) + m])
    BY <1>0, <2>1, <2>2 DEF Continuous
  <2> QED  BY <1>0, <2>1, <2>3 DEF Continues
<1> QED  BY <1>1, <1>3, <1>4

LEMMA JoinsAfterRecv ==
    ASSUME RecordsConsistent, rxOk, Current \in DOMAIN records, Taken \in Nat,
           NEW n \in 1..Len(wire), Taken + n <= Total(Current),
           LosesTheFirst(n), UNCHANGED txVars,
           NextUnit' = IF Taken + n = Total(Current)
                       THEN <<Current + 1, 1>> ELSE <<Current, Taken + n + 1>>
    PROVE  JoinsUp'
<1>0. /\ Len(wire) \in Nat
      /\ Len(wire') = Len(wire) - n /\ wire' \in Seq(Unit)
      /\ \A i \in 1..Len(wire') : wire'[i] = wire[n + i]
      /\ \A k : Total(k)' = Total(k)
      /\ records' = records /\ txOk' = txOk /\ (LastIsWhole' <=> LastIsWhole)
  BY Sizes, WireAfterRecv DEF RecordsConsistent, txVars, Total, Length, Overhead, LastIsWhole
<1>1. wire' = <<>> <=> Len(wire') = 0
  BY <1>0, EmptySeq
<1>2. wire' # <<>> => wire'[1] = NextUnit'
  <2> SUFFICES ASSUME wire' # <<>> PROVE wire'[1] = NextUnit'
    OBVIOUS
  <2>1. n < Len(wire) /\ 1 \in 1..Len(wire') /\ wire'[1] = wire[n + 1]
    BY <1>0, <1>1
  <2> QED  BY <2>1, Continuation
<1>3. txOk /\ LastIsWhole => wire[Len(wire)] = <<Len(records), Total(Len(records))>>
  BY <1>0, Sizes DEF RecordsConsistent, JoinsUp
<1>4. txOk /\ LastIsWhole /\ wire' # <<>> => wire'[Len(wire')] = <<Len(records), Total(Len(records))>>
  <2>1. wire' # <<>> => Len(wire') \in 1..Len(wire') /\ n + Len(wire') = Len(wire)
    BY <1>0, <1>1
  <2> QED  BY <1>0, <1>3, <2>1
<1>5. txOk /\ LastIsWhole /\ wire' = <<>> => NextUnit' = <<Len(records) + 1, 1>>
  <2> SUFFICES ASSUME txOk, LastIsWhole, wire' = <<>> PROVE NextUnit' = <<Len(records) + 1, 1>>
    OBVIOUS
  <2>0. n = Len(wire) /\ n \in 1..n
    BY <1>0, <1>1
  <2>1. n = Len(wire) /\ wire[n] = <<Current, Taken + n>>
    BY <2>0, Continuation
  <2>2. Current = Len(records) /\ Taken + n = Total(Current)
    BY <1>3, <2>1
  <2> QED  BY <2>2
<1> QED  BY <1>0, <1>2, <1>4, <1>5 DEF JoinsUp

-----------------------------------------------------------------------------
(***************************************************************************)
(* What a send adds.                                                       *)
(***************************************************************************)
LEMMA RecordAdded ==
    ASSUME RecordsTypeOK, NEW r \in Record, records' = Append(records, r)
    PROVE  /\ records' \in Seq(Record)
           /\ Len(records') = Len(records) + 1
           /\ records'[Len(records) + 1] = r
           /\ DOMAIN records' = 1..(Len(records) + 1)
           /\ records' # <<>>
           /\ LastIsWhole' <=> r.whole
           /\ \A k \in DOMAIN records : /\ k \in DOMAIN records'
                                        /\ records'[k] = records[k]
                                        /\ Length(k)' = Length(k)
                                        /\ Total(k)' = Total(k)
           /\ \A k : k = Len(records) + 1 =>
                /\ Length(k)' = Header + r.payload
                /\ Total(k)' = Overhead(k) + (Header + r.payload)
<1>1. /\ records' \in Seq(Record)
      /\ Len(records') = Len(records) + 1
      /\ records'[Len(records) + 1] = r
      /\ \A k \in 1..Len(records) : records'[k] = records[k]
  BY AppendProperties DEF RecordsTypeOK
<1>2. /\ Len(records) \in Nat /\ DOMAIN records = 1..Len(records)
      /\ DOMAIN records' = 1..(Len(records) + 1)
      /\ records' # <<>>
  BY <1>1, Sizes, LenProperties, EmptySeq
<1>4. LastIsWhole' <=> r.whole
  BY <1>1, <1>2 DEF LastIsWhole
<1>5. \A k \in DOMAIN records : /\ k \in DOMAIN records'
                                /\ records'[k] = records[k]
                                /\ Length(k)' = Length(k)
                                /\ Total(k)' = Total(k)
  BY <1>1, <1>2 DEF Length, Total
<1>6. ASSUME NEW k, k = Len(records) + 1
      PROVE  /\ Length(k)' = Header + r.payload
             /\ Total(k)' = Overhead(k) + (Header + r.payload)
  <2>1. Length(k)' = Header + r.payload
    BY <1>1, <1>6 DEF Length
  <2> QED  BY <2>1 DEF Total
<1> QED  BY <1>1, <1>2, <1>4, <1>5, <1>6

AddsRecord(r)   == records' = Append(records, r)
AddsUnits(k, n) == wire' = wire \o [i \in 1..n |-> <<k, i>>]

(***************************************************************************)
(* The receiver's place is not moved by a send.                            *)
(***************************************************************************)
LEMMA PlaceAfterSend ==
    ASSUME RecordsConsistent, rxOk, NEW r \in Record, AddsRecord(r),
           UNCHANGED rxVars
    PROVE  NextUnit' = NextUnit
<1>1. RecordsTypeOK
  BY DEF RecordsConsistent
<1>2. \A k \in DOMAIN records : Total(k)' = Total(k)
  BY <1>1, RecordAdded DEF AddsRecord
<1>3. Current' = Current
  BY DEF Current, rxVars
<1>4. CASE Current \in DOMAIN records
  <2>1. Total(Current)' = Total(Current)
    BY <1>2, <1>3, <1>4
  <2>2. Taken' = Taken
    <3>1. /\ recPc' = recPc /\ rxPc' = rxPc /\ buffer' = buffer
          /\ Overhead(Current)' = Overhead(Current)
      BY <1>3 DEF rxVars, Overhead
    <3> QED  BY <2>1, <3>1 DEF Taken
  <2> QED  BY <1>3, <2>1, <2>2 DEF NextUnit
<1>5. CASE Current \notin DOMAIN records
  <2>1. recPc = "none" /\ rxPc # "payload"
    BY <1>1, <1>5 DEF RecordsConsistent, TakenInOrder, RecordsTypeOK, RecPcs
  <2>2. Taken = 0 /\ Taken' = 0
    BY <2>1 DEF Taken, rxVars
  <2> QED  BY <1>3, <2>2 DEF NextUnit
<1> QED  BY <1>4, <1>5

(***************************************************************************)
(* The wire after a send of n units of a new record.                       *)
(***************************************************************************)
LEMMA WireAfterSend ==
    ASSUME RecordsConsistent, rxOk, txOk, LastIsWhole, NEW r \in Record, AddsRecord(r),
           NEW k, k = Len(records) + 1,
           NEW n \in Nat, n <= Overhead(k) + (Header + r.payload),
           r.whole <=> n = Overhead(k) + (Header + r.payload),
           AddsUnits(k, n),
           UNCHANGED rxVars
    PROVE  /\ wire' \in Seq(Unit)
           /\ UnitsOfRecords'
           /\ Continuous'
           /\ JoinsUp'
<1> DEFINE L == Len(wire)
           t == [i \in 1..n |-> <<k, i>>]
<1>0. /\ RecordsTypeOK /\ UnitsOfRecords /\ Continuous /\ JoinsUp
      /\ L \in Nat /\ k \in Nat
  BY Sizes DEF RecordsConsistent
<1>d. DOMAIN wire = 1..L
  BY <1>0, Sizes
<1>1. t \in Seq(Unit) /\ Len(t) = n /\ \A i \in 1..n : t[i] = <<k, i>>
  <2>1. t \in [1..n -> Unit] /\ \A i \in 1..n : t[i] = <<k, i>>
    BY <1>0 DEF Unit
  <2> HIDE DEF t
  <2>2. t \in Seq(Unit)
    BY <2>1, SeqDef
  <2>3. Len(t) = n
    BY <2>1, <2>2, LenProperties
  <2> QED  BY <2>1, <2>2, <2>3
<1>2. /\ wire' \in Seq(Unit)
      /\ Len(wire') = L + n
      /\ \A i \in 1..L : wire'[i] = wire[i]
      /\ \A i \in 1..n : wire'[L + i] = <<k, i>>
  <2>1. wire' = wire \o t
    BY DEF AddsUnits
  <2>2. wire \in Seq(Unit)
    BY <1>0 DEF RecordsTypeOK
  <2> HIDE DEF t
  <2> QED  BY <1>1, <2>1, <2>2, Joined
<1>e. DOMAIN wire' = 1..(L + n)
  BY <1>2, LenProperties
<1> HIDE DEF L, t
<1>3. /\ \A i \in DOMAIN records : /\ i \in DOMAIN records'
                                   /\ records'[i] = records[i]
                                   /\ Total(i)' = Total(i)
      /\ k \in DOMAIN records' /\ records'[k] = r
      /\ Len(records') = k
      /\ Total(k)' = Overhead(k) + (Header + r.payload)
      /\ LastIsWhole' <=> r.whole
  <2>1. records' = Append(records, r)
    BY DEF AddsRecord
  <2> QED  BY <1>0, <2>1, RecordAdded
<1>4. Overhead(k) + (Header + r.payload) \in Nat /\ Overhead(k) + (Header + r.payload) >= 1
  <2>1. r.payload \in Nat /\ Overhead(k) \in Nat
    BY SizesAssumption DEF Record, Overhead
  <2> QED  BY <1>0, <2>1, Sizes
<1>5. UnitsOfRecords'
  <2> SUFFICES ASSUME NEW j \in 1..(L + n)
               PROVE  OfRecord(wire[j][1], wire[j][2])'
    BY <1>e DEF UnitsOfRecords
  <2>1. CASE j \in 1..L
    <3>1. wire'[j] = wire[j] /\ j \in DOMAIN wire
      BY <1>2, <1>d, <2>1
    <3>2. OfRecord(wire[j][1], wire[j][2])
      BY <1>0, <3>1 DEF UnitsOfRecords
    <3> QED  BY <1>3, <3>1, <3>2 DEF OfRecord
  <2>2. CASE j \notin 1..L
    <3>1. PICK i \in 1..n : j = L + i
      <4>1. j - L \in 1..n /\ j = L + (j - L)
        BY <1>0, <2>2
      <4> QED  BY <4>1
    <3>2. wire'[j] = <<k, i>>
      BY <1>2, <3>1
    <3> QED  BY <1>3, <1>4, <3>2 DEF OfRecord
  <2> QED  BY <2>1, <2>2
<1>6. Continuous'
  <2> SUFFICES ASSUME NEW j \in 1..(L + n), NEW m \in 1..((L + n) - j)
               PROVE  Continues(wire[j][1], wire[j][2], m, wire[j + m])'
    BY <1>2, <1>e DEF Continuous
  <2>1. CASE j \in 1..L
    <3>1. wire'[j] = wire[j] /\ j \in DOMAIN wire /\ L >= 1
      BY <1>0, <1>2, <1>d, <2>1
    <3>2. PICK q, i : q = wire[j][1] /\ i = wire[j][2]
      OBVIOUS
    <3>3. /\ q \in DOMAIN records /\ i \in Nat
          /\ Total(q) \in Nat /\ Total(q)' = Total(q) /\ i <= Total(q)
      <4>1. OfRecord(q, i)
        BY <1>0, <3>1, <3>2 DEF UnitsOfRecords
      <4>2. q \in DOMAIN records /\ i \in 1..Total(q)
        BY <4>1 DEF OfRecord
      <4>3. Total(q) \in Nat
        BY <1>0, <4>2, Sizes
      <4>4. i \in Nat /\ i <= Total(q)
        BY <4>2, <4>3
      <4> QED  BY <1>3, <4>2, <4>3, <4>4
    <3>4. CASE j + m \in 1..L
      <4>1. m \in 1..(L - j) /\ wire'[j + m] = wire[j + m]
        BY <1>0, <1>2, <3>4
      <4>2. Continues(q, i, m, wire[j + m])
        BY <1>0, <3>1, <3>2, <4>1 DEF Continuous, L
      <4> QED  BY <3>1, <3>2, <3>3, <4>1, <4>2 DEF Continues
    <3>5. CASE j + m \notin 1..L
      <4>1. PICK p \in 1..n : j + m = L + p
        <5>1. (j + m) - L \in 1..n /\ j + m = L + ((j + m) - L)
          BY <1>0, <2>1, <3>5
        <5> QED  BY <5>1
      <4>2. wire'[j + m] = <<k, p>>
        BY <1>2, <4>1
      <4>3. wire[L] = <<k - 1, Total(k - 1)>>
        <5>1. wire # <<>> /\ k - 1 = Len(records)
          BY <1>0, <3>1, Sizes DEF L
        <5> QED  BY <1>0, <5>1 DEF JoinsUp, L
      <4>4. i + (L - j) <= Total(q) => q = k - 1 /\ i + (L - j) = Total(q)
        <5>1. CASE j = L
          BY <1>0, <3>2, <3>3, <4>3, <5>1
        <5>2. CASE j # L
          <6>1. L - j \in 1..(L - j) /\ j + (L - j) = L
            BY <1>0, <2>1, <5>2
          <6>2. Continues(q, i, L - j, wire[L])
            BY <1>0, <3>1, <3>2, <6>1 DEF Continuous, L
          <6> QED  BY <3>3, <4>3, <6>2 DEF Continues
        <5> QED  BY <5>1, <5>2
      <4>5. m = (L - j) + p
        BY <1>0, <4>1
      <4>6. \/ q = k - 1 /\ i + m = Total(q) + p
            \/ i + m > Total(q) + 1
        BY <1>0, <2>1, <3>3, <4>4, <4>5
      <4>7. Continues(q, i, m, <<k, p>>)
        BY <1>0, <3>3, <4>6 DEF Continues
      <4> QED  BY <3>1, <3>2, <3>3, <4>2, <4>7 DEF Continues
    <3> QED  BY <3>4, <3>5
  <2>2. CASE j \notin 1..L
    <3>1. PICK i \in 1..n : j = L + i
      <4>1. j - L \in 1..n /\ j = L + (j - L)
        BY <1>0, <2>2
      <4> QED  BY <4>1
    <3>2. /\ i + m \in 1..n /\ j + m = L + (i + m)
      BY <1>0, <3>1
    <3>3. wire'[j] = <<k, i>> /\ wire'[j + m] = <<k, i + m>>
      BY <1>2, <3>1, <3>2
    <3>4. i + m <= Total(k)'
      BY <1>3, <1>4, <3>2
    <3> QED  BY <1>3, <1>4, <3>3, <3>4 DEF Continues
  <2> QED  BY <2>1, <2>2
<1>7. NextUnit' = NextUnit
  BY PlaceAfterSend
<1>8. JoinsUp'
  <2>1. wire' = <<>> <=> L + n = 0
    BY <1>2, EmptySeq
  <2>2. wire' # <<>> => wire'[1] = NextUnit'
    <3>1. CASE L >= 1
      <4>1. wire # <<>> /\ wire'[1] = wire[1]
        BY <1>0, <1>2, <3>1, Sizes DEF L
      <4> QED  BY <1>0, <1>7, <4>1 DEF JoinsUp
    <3>2. CASE L = 0
      <4>1. NextUnit = <<k, 1>>
        BY <1>0, <3>2, Sizes DEF JoinsUp, L
      <4>2. n >= 1 => wire'[1] = <<k, 1>>
        BY <1>2, <3>2
      <4> QED  BY <1>7, <2>1, <3>2, <4>1, <4>2
    <3> QED  BY <1>0, <3>1, <3>2
  <2>3. r.whole => /\ wire' # <<>>
                   /\ wire'[Len(wire')] = <<k, Total(k)'>>
    <3>1. r.whole => n \in 1..n /\ n = Total(k)' /\ L + n # 0
      BY <1>0, <1>3, <1>4
    <3> QED  BY <1>2, <2>1, <3>1
  <2>4. Total(Len(records))' = Total(k)'
    BY <1>3
  <2> QED  BY <1>3, <2>2, <2>3, <2>4 DEF JoinsUp
<1> QED  BY <1>2, <1>5, <1>6, <1>8

-----------------------------------------------------------------------------
(***************************************************************************)
(* A send: some beginning of the new record is written, and the sender     *)
(* goes on only if all of it was and it knows.                             *)
(***************************************************************************)
LEMMA UnitsOnWire ==
    ASSUME NEW k \in Nat, NEW size \in Nat, Overhead(k) \in Nat
    PROVE  /\ Units(k, size) \in Seq(Unit)
           /\ Len(Units(k, size)) = Overhead(k) + size
           /\ \A n \in 0..(Overhead(k) + size) :
                /\ [i \in 1..n |-> <<k, i>>] \in Seq(Unit)
                /\ SubSeq(Units(k, size), 1, n) = [i \in 1..n |-> <<k, i>>]
<1> DEFINE s == Units(k, size)
<1>1. /\ s \in [1..(Overhead(k) + size) -> Unit]
      /\ \A i \in 1..(Overhead(k) + size) : s[i] = <<k, i>>
  BY DEF Units, Unit
<1> HIDE DEF s
<1>2. s \in Seq(Unit)
  BY <1>1, SeqDef
<1>3. Len(s) = Overhead(k) + size
  BY <1>1, <1>2, LenProperties
<1>4. ASSUME NEW n \in 0..(Overhead(k) + size)
      PROVE  /\ [i \in 1..n |-> <<k, i>>] \in Seq(Unit)
             /\ SubSeq(s, 1, n) = [i \in 1..n |-> <<k, i>>]
  <2>1. [i \in 1..n |-> <<k, i>>] \in [1..n -> Unit] /\ n \in Nat
    BY DEF Unit
  <2>2. [i \in 1..n |-> <<k, i>>] \in Seq(Unit)
    BY <2>1, SeqDef
  <2>3. \A i \in 1..n : s[i] \in Unit
    BY <1>1
  <2>4. /\ SubSeq(s, 1, n) \in Seq(Unit)
        /\ Len(SubSeq(s, 1, n)) = n
        /\ \A i \in 1..n : SubSeq(s, 1, n)[i] = s[i]
    <3>1. /\ SubSeq(s, 1, n) \in Seq(Unit)
          /\ Len(SubSeq(s, 1, n)) = IF 1 <= n THEN n - 1 + 1 ELSE 0
          /\ \A i \in 1..(n - 1 + 1) : SubSeq(s, 1, n)[i] = s[1 + i - 1]
      BY <2>1, <2>3, SubSeqProperties
    <3> QED  BY <2>1, <3>1
  <2>5. SubSeq(s, 1, n) \in [1..n -> Unit]
    BY <2>4, LenProperties
  <2>6. \A i \in 1..n : SubSeq(s, 1, n)[i] = <<k, i>>
    BY <1>1, <2>4
  <2> HIDE DEF s
  <2> QED  BY <2>2, <2>5, <2>6
<1> QED  BY <1>2, <1>3, <1>4 DEF s

SendsPart(r, k, n) ==
    /\ k = Len(records) + 1
    /\ r.seq = egressSeq
    /\ n <= Overhead(k) + (Header + r.payload)
    /\ r.whole <=> n = Overhead(k) + (Header + r.payload)
    /\ AddsRecord(r)
    /\ AddsUnits(k, n)
    /\ txOk' \in BOOLEAN
    /\ \/ r.whole /\ egressSeq' = IF egress = "encrypted" THEN egressSeq + (Header + r.payload)
                                  ELSE egressSeq
       \/ txOk' = FALSE /\ egressSeq' = egressSeq
       \/ egress = "plaintext" /\ egressSeq' = egressSeq
    /\ UNCHANGED <<egress, closed, rxVars>>

LEMMA SendShape ==
    ASSUME RecordsTypeOK, NEW payload \in Payloads, Send(payload)
    PROVE  MaySend /\ \E r \in Record, k \in Nat, n \in Nat : SendsPart(r, k, n)
<1> DEFINE k == Len(records) + 1
           size == Header + payload
           rec(whole) == [payload |-> payload, seq |-> egressSeq, whole |-> whole]
           all == Overhead(k) + size
<1>1. k \in Nat /\ size \in Nat /\ Overhead(k) \in Nat /\ payload \in Nat /\ Header \in Nat
  BY Sizes, SizesAssumption DEF Overhead
<1>r. /\ rec(TRUE) \in Record /\ rec(FALSE) \in Record
      /\ rec(TRUE).payload = payload /\ rec(TRUE).seq = egressSeq /\ rec(TRUE).whole = TRUE
      /\ rec(FALSE).payload = payload /\ rec(FALSE).seq = egressSeq /\ rec(FALSE).whole = FALSE
  BY DEF RecordsTypeOK, Record
<1>2. /\ MaySend
      /\ UNCHANGED <<egress, closed, rxVars>>
      /\ \/ /\ wire' = wire \o Units(k, size)
            /\ records' = Append(records, rec(TRUE))
            /\ \/ /\ txOk' = txOk
                  /\ egressSeq' = IF egress = "encrypted" THEN egressSeq + size ELSE egressSeq
               \/ txOk' = FALSE /\ egressSeq' = egressSeq
         \/ /\ \E n \in 0..(Len(Units(k, size)) - 1) :
                 /\ wire' = wire \o SubSeq(Units(k, size), 1, n)
                 /\ txOk' = (egress = "plaintext" /\ n > 0)
            /\ records' = Append(records, rec(FALSE))
            /\ egressSeq' = egressSeq
  BY DEF Send, Add, PassesForWhole
<1> HIDE DEF rec
<1>3. ASSUME wire' = wire \o Units(k, size),
             records' = Append(records, rec(TRUE)),
             \/ /\ txOk' = txOk
                /\ egressSeq' = IF egress = "encrypted" THEN egressSeq + size ELSE egressSeq
             \/ txOk' = FALSE /\ egressSeq' = egressSeq
      PROVE  \E r \in Record, kk \in Nat, n \in Nat : SendsPart(r, kk, n)
  <2>1. all \in Nat
    BY <1>1
  <2>2. AddsUnits(k, all)
    BY <1>3 DEF AddsUnits, Units
  <2>3. PICK r \in Record : /\ r = rec(TRUE)
                            /\ r.payload = payload /\ r.seq = egressSeq /\ r.whole = TRUE
    BY <1>r
  <2>4. AddsRecord(r) /\ size = Header + r.payload
    BY <1>3, <2>3 DEF AddsRecord
  <2>5. all = Overhead(k) + (Header + r.payload)
    BY <2>4
  <2>6. /\ txOk' \in BOOLEAN
        /\ \/ egressSeq' = IF egress = "encrypted" THEN egressSeq + (Header + r.payload)
                           ELSE egressSeq
           \/ txOk' = FALSE /\ egressSeq' = egressSeq
    <3>1. txOk \in BOOLEAN
      BY DEF RecordsTypeOK
    <3> QED  BY <1>3, <2>4, <3>1
  <2>7. k = Len(records) + 1
    OBVIOUS
  <2> HIDE DEF k, size, all
  <2>8. PICK n \in Nat : n = all
    BY <2>1
  <2>9. AddsUnits(k, n)
    BY <2>2, <2>8, Zenon
  <2>10. n <= Overhead(k) + (Header + r.payload) /\ n = Overhead(k) + (Header + r.payload)
    BY <2>1, <2>5, <2>8
  <2>11. SendsPart(r, k, n)
    BY <1>2, <2>3, <2>4, <2>6, <2>7, <2>9, <2>10 DEF SendsPart
  <2> QED  BY <1>1, <2>11
<1>4. ASSUME NEW n \in 0..(Len(Units(k, size)) - 1),
             wire' = wire \o SubSeq(Units(k, size), 1, n),
             txOk' = (egress = "plaintext" /\ n > 0),
             records' = Append(records, rec(FALSE)),
             egressSeq' = egressSeq
      PROVE  \E r \in Record, kk \in Nat, m \in Nat : SendsPart(r, kk, m)
  <2>1. Len(Units(k, size)) = all
    BY <1>1, UnitsOnWire
  <2>2. n \in Nat /\ n \in 0..all /\ n < all /\ all \in Nat
    BY <1>1, <2>1
  <2>3. SubSeq(Units(k, size), 1, n) = [i \in 1..n |-> <<k, i>>]
    BY <1>1, <2>2, UnitsOnWire
  <2>4. AddsUnits(k, n)
    BY <1>4, <2>3, Zenon DEF AddsUnits
  <2>5. PICK r \in Record : /\ r = rec(FALSE)
                            /\ r.payload = payload /\ r.seq = egressSeq /\ r.whole = FALSE
    BY <1>r
  <2>6. AddsRecord(r) /\ size = Header + r.payload
    BY <1>4, <2>5 DEF AddsRecord
  <2>7. all = Overhead(k) + (Header + r.payload)
    BY <2>6
  <2>8. /\ txOk' \in BOOLEAN
        /\ txOk' = FALSE \/ egress = "plaintext"
    BY <1>4
  <2>9. k = Len(records) + 1
    OBVIOUS
  <2> HIDE DEF k, size, all
  <2>10. n # Overhead(k) + (Header + r.payload) /\ n <= Overhead(k) + (Header + r.payload)
    BY <2>2, <2>7
  <2>11. SendsPart(r, k, n)
    BY <1>2, <1>4, <2>4, <2>5, <2>6, <2>8, <2>9, <2>10 DEF SendsPart
  <2> QED  BY <1>1, <2>2, <2>11
<1>5. \E r \in Record, kk \in Nat, n \in Nat : SendsPart(r, kk, n)
  <2> HIDE DEF k, size
  <2> QED  BY <1>2, <1>3, <1>4
<1> QED  BY <1>2, <1>5

LEMMA ArrivingFacts ==
    ASSUME RecordsTypeOK, SentInOrder
    PROVE  /\ Arriving \in 0..Len(records)
           /\ LastIsWhole => Arriving = Len(records)
           /\ txOk /\ ~ LastIsWhole => Arriving = 0
           /\ \A k \in DOMAIN records : records[k].whole <=> k <= Arriving
<1>d. DOMAIN records = 1..Len(records)
  BY Sizes
<1>1. Len(records) \in Nat /\ (records = <<>> <=> Len(records) = 0)
  BY Sizes
<1>2. \A k \in 1..Len(records) :
        records[k].whole \/ (k = Len(records) /\ (txOk => k = 1))
  BY <1>d DEF SentInOrder
<1> DEFINE Facts == /\ Arriving \in 0..Len(records)
                    /\ LastIsWhole => Arriving = Len(records)
                    /\ txOk /\ ~ LastIsWhole => Arriving = 0
                    /\ \A k \in 1..Len(records) : records[k].whole <=> k <= Arriving
<1>3. CASE records = <<>>
  BY <1>1, <1>3 DEF Arriving, LastIsWhole
<1>4. CASE records # <<>> /\ records[Len(records)].whole
  <2>1. Arriving = Len(records) /\ LastIsWhole
    BY <1>4 DEF Arriving, LastIsWhole
  <2> QED  BY <1>1, <1>2, <1>4, <2>1
<1>5. CASE records # <<>> /\ ~ records[Len(records)].whole
  <2>1. Arriving = Len(records) - 1 /\ ~ LastIsWhole
    BY <1>5 DEF Arriving, LastIsWhole
  <2>2. Len(records) \in 1..Len(records) /\ Len(records) >= 1
    BY <1>1, <1>5
  <2>3. txOk => Len(records) = 1
    BY <1>2, <1>5, <2>2
  <2> QED  BY <1>1, <1>2, <1>5, <2>1, <2>2, <2>3
<1>6. Facts
  BY <1>3, <1>4, <1>5
<1> QED  BY <1>d, <1>6

(***************************************************************************)
(* A second message is sent only when the first was received, and then it  *)
(* was whole: both sides wait for an answer after the plaintext one        *)
(* (player mutual_attestation.c:104-115, operator's 213-228).              *)
(***************************************************************************)
LEMMA SendsAfterWhole ==
    ASSUME RecordsConsistent, MaySend
    PROVE  LastIsWhole
<1>1. /\ RecordsTypeOK /\ SentInOrder /\ Len(delivered) <= Arriving
      /\ txOk /\ (records # <<>> => delivered # <<>>)
  BY DEF RecordsConsistent, TakenInOrder, MaySend
<1>2. SUFFICES ASSUME ~ LastIsWhole PROVE FALSE
  OBVIOUS
<1>3. records # <<>> /\ Arriving = 0
  BY <1>1, <1>2, ArrivingFacts DEF LastIsWhole
<1>4. Len(delivered) \in Nat /\ Len(delivered) # 0
  BY <1>1, <1>3, Sizes, EmptySeq DEF RecordsTypeOK
<1> QED  BY <1>1, <1>3, <1>4

(***************************************************************************)
(* The numbers of the records that were there already.                     *)
(***************************************************************************)
LEMMA NumbersStay ==
    ASSUME RecordsTypeOK, NEW r \in Record, AddsRecord(r)
    PROVE  \A j \in Nat : j <= Len(records) => NumberAfter(j)' = NumberAfter(j)
<1> SUFFICES ASSUME NEW j \in Nat, j <= Len(records)
             PROVE  NumberAfter(j)' = NumberAfter(j)
  OBVIOUS
<1>1. CASE j <= 1
  BY <1>1 DEF NumberAfter
<1>2. CASE j > 1
  <2>1. j \in DOMAIN records /\ ~ (j <= 1)
    BY <1>2, Sizes
  <2>2. records'[j] = records[j] /\ Length(j)' = Length(j)
    BY <2>1, RecordAdded DEF AddsRecord
  <2> QED  BY <2>1, <2>2 DEF NumberAfter
<1> QED  BY <1>1, <1>2

LEMMA SendConsistent ==
    ASSUME RecordsConsistent, NEW payload \in Payloads, Send(payload)
    PROVE  RecordsConsistent'
<1>0. RecordsTypeOK /\ SentInOrder
  BY DEF RecordsConsistent
<1>1. PICK r \in Record, k \in Nat, n \in Nat : SendsPart(r, k, n)
  BY <1>0, SendShape
<1>2. /\ k = Len(records) + 1
      /\ r.seq = egressSeq
      /\ n <= Overhead(k) + (Header + r.payload)
      /\ r.whole <=> n = Overhead(k) + (Header + r.payload)
      /\ AddsRecord(r) /\ AddsUnits(k, n)
      /\ txOk' \in BOOLEAN
      /\ UNCHANGED rxVars /\ egress' = egress /\ closed' = closed
  BY <1>1 DEF SendsPart
<1>m. /\ txOk /\ Len(records) < MaxSends /\ LastIsWhole
      /\ records # <<>> => egress = "encrypted"
  BY <1>0, SendShape, SendsAfterWhole DEF MaySend
<1>3. \/ r.whole /\ egressSeq' = IF egress = "encrypted" THEN egressSeq + (Header + r.payload)
                                 ELSE egressSeq
      \/ txOk' = FALSE /\ egressSeq' = egressSeq
      \/ egress = "plaintext" /\ egressSeq' = egressSeq
  BY <1>1 DEF SendsPart
<1>4. /\ records' \in Seq(Record)
      /\ DOMAIN records = 1..Len(records) /\ Len(records) \in Nat
      /\ Len(records') = k /\ DOMAIN records' = 1..k /\ records' # <<>>
      /\ records'[k] = r
      /\ Length(k)' = Header + r.payload
      /\ LastIsWhole' <=> r.whole
      /\ records = <<>> <=> k = 1
  BY <1>0, <1>2, RecordAdded, Sizes DEF AddsRecord
<1>5. \A i \in DOMAIN records : /\ i \in DOMAIN records'
                                /\ records'[i] = records[i]
                                /\ Length(i)' = Length(i)
                                /\ Length(i) \in Nat
  BY <1>0, <1>2, RecordAdded, Sizes DEF AddsRecord
<1>6. /\ Header \in Nat /\ r.payload \in Nat /\ r.whole \in BOOLEAN /\ egressSeq \in Nat
      /\ Overhead(k) \in Nat
  BY <1>0, SizesAssumption DEF Record, RecordsTypeOK, Overhead
<1>7. RecordsTypeOK'
  <2>1. wire' \in Seq(Unit)
    <3>1. n \in 0..(Overhead(k) + (Header + r.payload)) /\ Header + r.payload \in Nat
      BY <1>2, <1>6
    <3>2. [i \in 1..n |-> <<k, i>>] \in Seq(Unit)
      BY <1>6, <3>1, UnitsOnWire
    <3>3. wire \in Seq(Unit)
      BY <1>0 DEF RecordsTypeOK
    <3> QED  BY <1>2, <3>2, <3>3, Joined DEF AddsUnits
  <2>2. egressSeq' \in Nat
    BY <1>3, <1>6
  <2>3. Len(records') <= MaxSends
    BY <1>2, <1>m, <1>4, SizesAssumption
  <2>4. /\ egress' = egress /\ closed' = closed /\ ingress' = ingress
        /\ ingressSeq' = ingressSeq
        /\ rxPc' = rxPc /\ rxOk' = rxOk /\ recPc' = recPc /\ expected' = expected
        /\ buffer' = buffer /\ delivered' = delivered
    BY <1>2 DEF rxVars
  <2>5. /\ egress \in Ways /\ closed \in BOOLEAN /\ ingress \in Ways /\ ingressSeq \in Nat
        /\ rxPc \in RxPcs /\ rxOk \in BOOLEAN /\ recPc \in RecPcs /\ expected \in Nat
        /\ buffer \in Seq(Unit) /\ delivered \in Seq(Nat)
    BY <1>0 DEF RecordsTypeOK
  <2>6. records' \in Seq(Record) /\ txOk' \in BOOLEAN
    BY <1>2, <1>4
  <2> QED  BY <2>1, <2>2, <2>3, <2>4, <2>5, <2>6, Zenon DEF RecordsTypeOK
<1>8. \A j \in Nat : j <= Len(records) => NumberAfter(j)' = NumberAfter(j)
  BY <1>0, <1>2, NumbersStay
<1>9. SentInOrder'
  <2>1. ASSUME NEW i \in DOMAIN records'
        PROVE  /\ records'[i].whole \/ (i = Len(records') /\ (txOk' => i = 1))
               /\ records'[i].seq = NumberAfter(i - 1)'
    <3>1. CASE i \in DOMAIN records
      <4>1. records[i].whole /\ records[i].seq = NumberAfter(i - 1)
        <5>1. i <= Len(records) /\ Arriving = Len(records)
          BY <1>0, <1>m, <1>4, <3>1, ArrivingFacts
        <5> QED  BY <1>0, <3>1, <5>1, ArrivingFacts DEF SentInOrder
      <4>2. PICK j \in Nat : j = i - 1 /\ j <= Len(records)
        <5>1. i - 1 \in Nat /\ i - 1 <= Len(records)
          BY <1>4, <3>1
        <5> QED  BY <5>1
      <4>3. NumberAfter(j)' = NumberAfter(j)
        BY <1>8, <4>2
      <4> QED  BY <1>5, <3>1, <4>1, <4>2, <4>3
    <3>2. CASE i = k
      <4>1. k - 1 = Len(records) /\ Len(records) <= Len(records)
        BY <1>2, <1>4
      <4>2. egressSeq = NumberAfter(Len(records))
        BY <1>0, <1>m DEF SentInOrder
      <4>3. PICK j \in Nat : j = Len(records)
        BY <1>4
      <4>4. NumberAfter(j)' = NumberAfter(j)
        BY <1>4, <1>8, <4>1, <4>3
      <4>5. records'[k].seq = NumberAfter(j)'
        BY <1>2, <1>4, <4>2, <4>3, <4>4
      <4>6. r.whole \/ (txOk' => k = 1)
        <5>1. "plaintext" # "encrypted"
          OBVIOUS
        <5> QED  BY <1>3, <1>m, <1>4, <5>1
      <4> QED  BY <1>4, <3>2, <4>1, <4>3, <4>5, <4>6
    <3> QED  BY <1>2, <1>4, <3>1, <3>2
  <2>2. txOk' => egressSeq' = NumberAfter(k)'
    <3>1. CASE k = 1
      <4>1. egressSeq = 0 /\ egress # "encrypted"
        BY <1>0, <1>m, <1>4, <3>1, EmptySeq DEF SentInOrder, NumberAfter
      <4> QED  BY <1>3, <3>1, <4>1 DEF NumberAfter
    <3>2. CASE k # 1
      <4>1. egress = "encrypted" /\ ~ (k <= 1)
        BY <1>m, <1>4, <1>2, <3>2
      <4>2. txOk' => egressSeq' = egressSeq + (Header + r.payload)
        BY <1>3, <4>1
      <4>3. NumberAfter(k)' = egressSeq + (Header + r.payload)
        BY <1>2, <1>4, <4>1 DEF NumberAfter
      <4> QED  BY <4>2, <4>3
    <3> QED  BY <3>1, <3>2
  <2>3. NumberAfter(Len(records))' = NumberAfter(k)'
    BY <1>4
  <2> QED  BY <1>4, <2>1, <2>2, <2>3 DEF SentInOrder
<1>10. Arriving' >= Arriving /\ Arriving = Len(records) /\ Arriving' \in Nat
  <2>1. Arriving' = IF r.whole THEN k ELSE k - 1
    BY <1>4 DEF Arriving
  <2> QED  BY <1>0, <1>2, <1>m, <1>4, <2>1, ArrivingFacts
<1>11. /\ ingress' = ingress /\ ingressSeq' = ingressSeq
       /\ rxPc' = rxPc /\ rxOk' = rxOk /\ recPc' = recPc /\ expected' = expected
       /\ buffer' = buffer /\ delivered' = delivered /\ Current' = Current
  BY <1>2 DEF rxVars, Current
<1>12. Len(delivered) <= Arriving /\ delivered = [i \in 1..Len(delivered) |-> i]
       /\ Len(delivered) \in Nat
  BY <1>0, Sizes DEF RecordsConsistent, TakenInOrder
<1>13. CASE ~ rxOk
  <2>1. rxPc = "idle"
    BY <1>13 DEF RecordsConsistent
  <2>2. Len(delivered)' <= Arriving'
    BY <1>10, <1>11, <1>12
  <2> QED  BY <1>7, <1>9, <1>11, <1>12, <1>13, <2>1, <2>2 DEF RecordsConsistent
<1>14. CASE rxOk
  <2>0. recPc # "stale" /\ TakenInOrder /\ NumbersMatch
    BY <1>14 DEF RecordsConsistent
  <2>1. UnitsOfRecords' /\ Continuous' /\ JoinsUp'
    BY <1>2, <1>m, <1>14, WireAfterSend
  <2>2. Current \in DOMAIN records => /\ Current \in DOMAIN records'
                                     /\ records'[Current] = records[Current]
                                     /\ Length(Current)' = Length(Current)
    BY <1>5, <1>11
  <2>3. TakenInOrder'
    <3>1. Len(delivered)' <= Arriving'
      BY <1>10, <1>11, <1>12
    <3>2. recPc # "none" \/ rxPc = "payload" => Current \in DOMAIN records
      BY <2>0 DEF TakenInOrder
    <3> QED  BY <1>11, <2>0, <2>2, <3>1, <3>2 DEF TakenInOrder
  <2>4. NumbersMatch'
    <3>1. PICK j \in Nat : /\ j = IF recPc = "open" THEN Current ELSE Len(delivered)
                           /\ j <= Len(records)
      <4>1. recPc = "open" => Current \in 1..Len(records)
        BY <1>4, <2>0 DEF TakenInOrder
      <4>2. Current \in Nat
        BY <1>12 DEF Current
      <4>3. Len(records) \in Nat /\ Len(delivered) <= Len(records)
        BY <1>4, <1>10, <1>12
      <4>4. CASE recPc = "open"
        BY <4>1, <4>2, <4>3, <4>4
      <4>5. CASE recPc # "open"
        BY <1>12, <4>3, <4>5
      <4> QED  BY <4>4, <4>5
    <3>2. NumberAfter(j)' = NumberAfter(j)
      BY <1>8, <3>1
    <3>3. ingressSeq = NumberAfter(j)
      BY <2>0, <3>1 DEF NumbersMatch
    <3>4. j = (IF recPc = "open" THEN Current ELSE Len(delivered))'
      BY <1>11, <3>1
    <3> QED  BY <1>11, <3>2, <3>3, <3>4 DEF NumbersMatch
  <2> QED  BY <1>7, <1>9, <1>11, <1>14, <2>0, <2>1, <2>3, <2>4 DEF RecordsConsistent
<1> QED  BY <1>13, <1>14

-----------------------------------------------------------------------------
(***************************************************************************)
(* The receiver's steps leave the sender alone.                            *)
(***************************************************************************)
LEMMA SenderRests ==
    ASSUME records' = records, egress' = egress, txOk' = txOk, egressSeq' = egressSeq
    PROVE  /\ Arriving' = Arriving
           /\ LastIsWhole' <=> LastIsWhole
           /\ SentInOrder' <=> SentInOrder
           /\ \A k : /\ Length(k)' = Length(k)
                     /\ Total(k)' = Total(k)
                     /\ NumberAfter(k)' = NumberAfter(k)
<1>1. \A k : /\ Length(k)' = Length(k)
            /\ Total(k)' = Total(k)
            /\ NumberAfter(k)' = NumberAfter(k)
  BY DEF Length, Total, Overhead, NumberAfter
<1>2. Arriving' = Arriving /\ (LastIsWhole' <=> LastIsWhole)
  BY DEF Arriving, LastIsWhole
<1>3. SentInOrder' <=> SentInOrder
  BY <1>1 DEF SentInOrder
<1> QED  BY <1>1, <1>2, <1>3

LEMMA SenderUnchanged ==
    ASSUME UNCHANGED txVars
    PROVE  /\ records' = records /\ egress' = egress /\ txOk' = txOk
           /\ Arriving' = Arriving
           /\ LastIsWhole' <=> LastIsWhole
           /\ SentInOrder' <=> SentInOrder
           /\ \A k : /\ Length(k)' = Length(k)
                     /\ Total(k)' = Total(k)
                     /\ NumberAfter(k)' = NumberAfter(k)
<1>1. /\ records' = records /\ egress' = egress /\ txOk' = txOk
      /\ egressSeq' = egressSeq
  BY DEF txVars
<1> QED  BY <1>1, SenderRests

LEMMA ReceiverType ==
    ASSUME RecordsTypeOK, UNCHANGED txVars, wire' \in Seq(Unit),
           ingress' \in Ways, ingressSeq' \in Nat,
           rxPc' \in RxPcs, rxOk' \in BOOLEAN, recPc' \in RecPcs, expected' \in Nat,
           buffer' \in Seq(Unit), delivered' \in Seq(Nat)
    PROVE  RecordsTypeOK'
<1>1. /\ egress \in Ways /\ records \in Seq(Record) /\ Len(records) <= MaxSends
      /\ egressSeq \in Nat /\ txOk \in BOOLEAN /\ closed \in BOOLEAN
  BY DEF RecordsTypeOK
<1>2. /\ egress' = egress /\ records' = records /\ egressSeq' = egressSeq
      /\ txOk' = txOk /\ closed' = closed
  BY DEF txVars
<1> QED  BY <1>1, <1>2 DEF RecordsTypeOK

LEMMA RecvFacts ==
    ASSUME RecordsTypeOK, NEW size \in Nat, NEW n, Recv(size, n)
    PROVE  /\ n \in 1..Len(wire) /\ n \in Nat /\ n <= size
           /\ LosesTheFirst(n)
           /\ wire' \in Seq(Unit)
           /\ Got(n) \in Seq(Unit)
           /\ Len(Got(n)) = n
           /\ \A i \in 1..n : Got(n)[i] = wire[i]
<1>1. Len(wire) \in Nat
  BY Sizes
<1>2. n \in 1..Len(wire) /\ n \in Nat /\ n <= size
  BY <1>1 DEF Recv, Least
<1>3. LosesTheFirst(n)
  BY DEF Recv, LosesTheFirst
<1>4. wire \in Seq(Unit)
  BY DEF RecordsTypeOK
<1> QED  BY <1>2, <1>3, <1>4, Cut DEF LosesTheFirst, Got

LEMMA WireUntouched ==
    ASSUME RecordsConsistent, rxOk, UNCHANGED <<txVars, wire>>, NextUnit' = NextUnit
    PROVE  UnitsOfRecords' /\ Continuous' /\ JoinsUp'
<1>0. UnitsOfRecords /\ Continuous /\ JoinsUp
  BY DEF RecordsConsistent
<1>1. /\ records' = records /\ txOk' = txOk /\ wire' = wire
      /\ LastIsWhole' <=> LastIsWhole
      /\ \A k : Total(k)' = Total(k)
  BY SenderUnchanged
<1>2. UnitsOfRecords'
  BY <1>0, <1>1 DEF UnitsOfRecords, OfRecord
<1>3. Continuous'
  BY <1>0, <1>1 DEF Continuous, Continues
<1>4. JoinsUp'
  BY <1>0, <1>1 DEF JoinsUp
<1> QED  BY <1>2, <1>3, <1>4

(***************************************************************************)
(* A receive that fails is the last.                                       *)
(***************************************************************************)
LEMMA LastReceive ==
    ASSUME RecordsConsistent, rxOk, UNCHANGED txVars, wire' \in Seq(Unit),
           NEW rec \in RecPcs, NEW left \in Seq(Unit), Fails(rec, left)
    PROVE  RecordsConsistent'
<1>0. RecordsTypeOK /\ SentInOrder /\ TakenInOrder
  BY DEF RecordsConsistent
<1>1. /\ rxOk' = FALSE /\ rxPc' = "idle" /\ recPc' = rec /\ buffer' = left
      /\ ingress' = ingress /\ ingressSeq' = ingressSeq
      /\ expected' = expected /\ delivered' = delivered
  BY DEF Fails
<1>2. RecordsTypeOK'
  <2>1. /\ ingress \in Ways /\ ingressSeq \in Nat /\ expected \in Nat /\ delivered \in Seq(Nat)
        /\ "idle" \in RxPcs
    BY <1>0 DEF RecordsTypeOK, RxPcs
  <2> QED  BY <1>0, <1>1, <2>1, ReceiverType
<1>3. SentInOrder' /\ Arriving' = Arriving
  BY <1>0, SenderUnchanged
<1>4. delivered = [i \in 1..Len(delivered) |-> i] /\ Len(delivered) <= Arriving
  BY <1>0 DEF TakenInOrder
<1> QED  BY <1>1, <1>2, <1>3, <1>4 DEF RecordsConsistent

LEMMA FailsHereConsistent ==
    ASSUME RecordsConsistent, rxOk, UNCHANGED txVars, wire' \in Seq(Unit), FailsHere
    PROVE  RecordsConsistent'
<1>1. buffer \in Seq(Unit) /\ recPc \in RecPcs
  BY DEF RecordsConsistent, RecordsTypeOK
<1>2. PICK rec \in RecPcs : rec = IF recPc = "reading" THEN "stale" ELSE recPc
  BY <1>1 DEF RecPcs
<1>3. Fails(rec, buffer)
  BY <1>2 DEF FailsHere, Fails
<1> QED  BY <1>1, <1>3, LastReceive

LEMMA OnlyWhenNothingFailed ==
    ASSUME RecordsConsistent, rxPc # "idle"
    PROVE  rxOk
  BY DEF RecordsConsistent

(***************************************************************************)
(* What is appended to the buffer continues it.                            *)
(***************************************************************************)
Piece(s, k, a) == s = [i \in 1..Len(s) |-> <<k, a + i>>]

LEMMA BufferGrows ==
    ASSUME NEW b \in Seq(Unit), NEW g \in Seq(Unit), NEW k, NEW a \in Nat,
           Piece(b, k, a), \A i \in 1..Len(g) : g[i] = <<k, (a + Len(b)) + i>>
    PROVE  /\ b \o g \in Seq(Unit)
           /\ Len(b \o g) = Len(b) + Len(g)
           /\ Piece(b \o g, k, a)
<1>0. Len(b) \in Nat /\ Len(g) \in Nat
  BY LenProperties
<1>1. /\ b \o g \in Seq(Unit)
      /\ Len(b \o g) = Len(b) + Len(g)
      /\ \A i \in 1..Len(b) : (b \o g)[i] = b[i]
      /\ \A i \in 1..Len(g) : (b \o g)[Len(b) + i] = g[i]
  BY Joined
<1>2. \A i \in 1..Len(b) : b[i] = <<k, a + i>>
  BY DEF Piece
<1> DEFINE s == b \o g
<1> HIDE DEF s
<1>3. ASSUME NEW j \in 1..Len(s)
      PROVE  s[j] = <<k, a + j>>
  <2>1. CASE j <= Len(b)
    BY <1>0, <1>1, <1>2, <2>1 DEF s
  <2>2. CASE j > Len(b)
    <3>1. PICK i \in 1..Len(g) : j = Len(b) + i
      <4>1. j - Len(b) \in 1..Len(g) /\ j = Len(b) + (j - Len(b))
        BY <1>0, <1>1, <2>2 DEF s
      <4> QED  BY <4>1
    <3>2. s[j] = <<k, (a + Len(b)) + i>>
      BY <1>1, <3>1 DEF s
    <3>3. (a + Len(b)) + i = a + j
      BY <1>0, <3>1
    <3> QED  BY <3>2, <3>3
  <2> QED  BY <1>0, <1>1, <2>1, <2>2 DEF s
<1>4. s \in Seq(Unit)
  BY <1>1 DEF s
<1>5. s = [i \in 1..Len(s) |-> <<k, a + i>>]
  <2>1. s \in [1..Len(s) -> Unit]
    BY <1>4, LenProperties
  <2> QED  BY <1>3, <2>1
<1> QED  BY <1>1, <1>5 DEF s, Piece

LEMMA ReceiveConsistent ==
    ASSUME RecordsConsistent, Receive
    PROVE  RecordsConsistent'
<1>0. /\ rxOk /\ rxPc = "idle" /\ rxPc' = "header"
      /\ delivered # <<>> => ingress = "encrypted"
      /\ ingress' = ingress
      /\ UNCHANGED txVars /\ UNCHANGED <<txVars, wire>>
      /\ wire' = wire /\ ingressSeq' = ingressSeq /\ rxOk' = rxOk /\ recPc' = recPc
      /\ expected' = expected /\ buffer' = buffer /\ delivered' = delivered
  BY DEF Receive
<1>1. /\ RecordsTypeOK /\ SentInOrder /\ recPc # "stale" /\ TakenInOrder /\ NumbersMatch
  BY <1>0 DEF RecordsConsistent
<1>2. /\ records' = records /\ Arriving' = Arriving /\ SentInOrder'
      /\ Current' = Current
      /\ \A k : Length(k)' = Length(k) /\ Total(k)' = Total(k) /\ NumberAfter(k)' = NumberAfter(k)
  BY <1>0, <1>1, SenderUnchanged DEF Current
<1>3. RecordsTypeOK'
  BY <1>0, <1>1, ReceiverType DEF RecordsTypeOK, RxPcs
<1>4. recPc = "none"
  BY <1>0, <1>1 DEF TakenInOrder
<1>t. Taken = 0 /\ Taken' = 0
  BY <1>0, <1>4 DEF Taken
<1>5. NextUnit' = NextUnit
  BY <1>2, <1>t DEF NextUnit
<1>6. UnitsOfRecords' /\ Continuous' /\ JoinsUp'
  BY <1>0, <1>5, WireUntouched
<1>7. TakenInOrder'
  BY <1>0, <1>1, <1>2, <1>4 DEF TakenInOrder
<1>8. NumbersMatch'
  BY <1>0, <1>1, <1>2 DEF NumbersMatch
<1> QED  BY <1>0, <1>1, <1>2, <1>3, <1>6, <1>7, <1>8 DEF RecordsConsistent

LEMMA EncryptIngressConsistent ==
    ASSUME RecordsConsistent, EncryptIngress
    PROVE  RecordsConsistent'
<1>0. /\ ingress = "plaintext" /\ ingress' = "encrypted" /\ delivered # <<>>
      /\ UNCHANGED txVars /\ UNCHANGED <<txVars, wire>>
      /\ wire' = wire /\ ingressSeq' = ingressSeq /\ rxPc' = rxPc /\ rxOk' = rxOk /\ recPc' = recPc
      /\ expected' = expected /\ buffer' = buffer /\ delivered' = delivered
  BY DEF EncryptIngress
<1>1. /\ RecordsTypeOK /\ SentInOrder
      /\ delivered = [i \in 1..Len(delivered) |-> i] /\ Len(delivered) <= Arriving
  BY DEF RecordsConsistent, TakenInOrder
<1>2. /\ records' = records /\ Arriving' = Arriving /\ SentInOrder'
      /\ Current' = Current
      /\ \A k : Length(k)' = Length(k) /\ Total(k)' = Total(k) /\ NumberAfter(k)' = NumberAfter(k)
  BY <1>0, <1>1, SenderUnchanged DEF Current
<1>3. RecordsTypeOK'
  BY <1>0, <1>1, ReceiverType DEF RecordsTypeOK, Ways
<1>4. CASE ~ rxOk
  BY <1>0, <1>1, <1>2, <1>3, <1>4 DEF RecordsConsistent
<1>5. CASE rxOk
  <2>1. recPc # "stale" /\ TakenInOrder /\ NumbersMatch
    BY <1>5 DEF RecordsConsistent
  <2>2. recPc = "none" /\ rxPc = "idle"
    <3>1. "plaintext" # "encrypted"
      OBVIOUS
    <3>2. recPc = "none"
      BY <1>0, <2>1, <3>1 DEF TakenInOrder
    <3>3. rxPc = "idle"
      BY <1>0, <2>1, <3>1 DEF TakenInOrder
    <3> QED  BY <3>2, <3>3
  <2>3. Taken = 0 /\ Taken' = 0
    BY <1>0, <2>2 DEF Taken
  <2>4. NextUnit' = NextUnit
    BY <1>2, <2>3 DEF NextUnit
  <2>5. UnitsOfRecords' /\ Continuous' /\ JoinsUp'
    BY <1>0, <1>5, <2>4, WireUntouched
  <2>6. TakenInOrder'
    BY <1>0, <1>2, <2>1, <2>2 DEF TakenInOrder
  <2>7. NumbersMatch'
    BY <1>0, <1>2, <2>1 DEF NumbersMatch
  <2> QED  BY <1>0, <1>2, <1>3, <1>5, <2>1, <2>5, <2>6, <2>7 DEF RecordsConsistent
<1> QED  BY <1>4, <1>5

(***************************************************************************)
(* The first record, and no other, is without an envelope.                 *)
(***************************************************************************)
LEMMA AtTheFirst ==
    ASSUME RecordsTypeOK, TakenInOrder
    PROVE  /\ rxPc # "idle" /\ ingress = "plaintext" => Current = 1 /\ Overhead(Current) = 0
           /\ ingress = "encrypted" => Current # 1 /\ Current > 1 /\ Overhead(Current) = Envelope
<1>1. Len(delivered) \in Nat /\ (delivered = <<>> <=> Len(delivered) = 0)
  BY Sizes, EmptySeq DEF RecordsTypeOK
<1>2. /\ ingress = "encrypted" => delivered # <<>>
      /\ rxPc # "idle" /\ ingress = "plaintext" => delivered = <<>>
  BY DEF TakenInOrder
<1> QED  BY <1>1, <1>2 DEF Current, Overhead

LEMMA ReadEnvelopeConsistent ==
    ASSUME RecordsConsistent, ReadEnvelope
    PROVE  RecordsConsistent'
<1>0. /\ ingress = "encrypted" /\ rxPc = "header" /\ recPc = "none" /\ rxOk
      /\ UNCHANGED txVars
      /\ RecordsTypeOK /\ SentInOrder /\ TakenInOrder /\ NumbersMatch
  BY OnlyWhenNothingFailed DEF ReadEnvelope, RecordsConsistent
<1>1. PICK n \in 1..Envelope :
        /\ Recv(Envelope, n)
        /\ \/ /\ n = Envelope
              /\ recPc' = "reading"
              /\ expected' = Length(Head(wire)[1])
              /\ buffer' = <<>>
              /\ UNCHANGED <<ingress, ingressSeq, rxPc, rxOk, delivered>>
           \/ FailsHere
  BY DEF ReadEnvelope
<1>2. /\ n \in 1..Len(wire) /\ n \in Nat /\ n <= Envelope
      /\ LosesTheFirst(n) /\ wire' \in Seq(Unit) /\ Envelope \in Nat
  BY <1>0, <1>1, RecvFacts, SizesAssumption
<1>3. CASE FailsHere
  BY <1>0, <1>2, <1>3, FailsHereConsistent
<1>4. CASE /\ n = Envelope
           /\ recPc' = "reading"
           /\ expected' = Length(Head(wire)[1])
           /\ buffer' = <<>>
           /\ UNCHANGED <<ingress, ingressSeq, rxPc, rxOk, delivered>>
  <2>1. Taken = 0 /\ wire # <<>>
    BY <1>0, <1>2, Sizes DEF Taken
  <2>2. Current \in DOMAIN records /\ wire[1] = <<Current, 1>>
    BY <1>0, <2>1, NextRecord
  <2>3. Head(wire)[1] = Current
    BY <1>0, <2>1, <2>2, HeadTailProperties DEF RecordsTypeOK
  <2>4. /\ Length(Current) \in Nat /\ Length(Current) >= 1
        /\ Total(Current) = Envelope + Length(Current)
        /\ Overhead(Current) = Envelope
    BY <1>0, <2>2, Sizes, AtTheFirst
  <2>5. /\ records' = records /\ Arriving' = Arriving /\ SentInOrder'
        /\ Current' = Current
        /\ \A k : Length(k)' = Length(k) /\ Total(k)' = Total(k) /\ NumberAfter(k)' = NumberAfter(k)
    BY <1>0, <1>4, SenderUnchanged DEF Current
  <2>6. RecordsTypeOK'
    <3>1. <<>> \in Seq(Unit) /\ "reading" \in RecPcs
      BY EmptySeq DEF RecPcs
    <3> QED  BY <1>0, <1>2, <1>4, <2>3, <2>4, <3>1, ReceiverType DEF RecordsTypeOK
  <2>7. UnitsOfRecords' /\ Continuous'
    BY <1>0, <1>2, WireAfterRecv
  <2>8. JoinsUp'
    <3>1. Taken' = Envelope /\ Envelope > 0
      <4>1. Len(<<>>) = 0
        BY EmptySeq
      <4> QED  BY <1>0, <1>4, <2>4, <2>5, <4>1, SizesAssumption DEF Taken
    <3>2. NextUnit' = <<Current, Taken + n + 1>>
      BY <1>2, <1>4, <2>1, <2>4, <2>5, <3>1 DEF NextUnit
    <3>3. Taken \in Nat /\ Taken + n <= Total(Current) /\ Taken + n # Total(Current)
      BY <1>2, <2>1, <2>4
    <3>4. NextUnit' = IF Taken + n = Total(Current)
                      THEN <<Current + 1, 1>> ELSE <<Current, Taken + n + 1>>
      BY <3>2, <3>3
    <3> QED  BY <1>0, <1>2, <2>2, <3>3, <3>4, JoinsAfterRecv
  <2>9. TakenInOrder'
    <3>1. buffer' = [i \in 1..0 |-> <<Current, Overhead(Current) + i>>] /\ Len(buffer') = 0
      BY <1>4
    <3> QED  BY <1>0, <1>4, <2>2, <2>3, <2>4, <2>5, <3>1 DEF TakenInOrder
  <2>10. NumbersMatch'
    BY <1>0, <1>4, <2>5 DEF NumbersMatch
  <2> QED  BY <1>0, <1>4, <2>5, <2>6, <2>7, <2>8, <2>9, <2>10 DEF RecordsConsistent
<1> QED  BY <1>1, <1>3, <1>4

LEMMA ReadRecordConsistent ==
    ASSUME RecordsConsistent, ReadRecord
    PROVE  RecordsConsistent'
<1>0. /\ recPc = "reading" /\ rxPc = "header" /\ rxOk
      /\ UNCHANGED txVars /\ ingress' = ingress
      /\ ingressSeq' = ingressSeq /\ rxPc' = rxPc /\ rxOk' = rxOk /\ recPc' = recPc
      /\ expected' = expected /\ delivered' = delivered
      /\ RecordsTypeOK /\ SentInOrder /\ TakenInOrder /\ NumbersMatch
  BY OnlyWhenNothingFailed DEF ReadRecord, RecordsConsistent
<1>1. /\ ingress = "encrypted" /\ expected = Length(Current) /\ Current \in DOMAIN records
      /\ buffer = [i \in 1..Len(buffer) |-> <<Current, Overhead(Current) + i>>]
      /\ buffer \in Seq(Unit)
  BY <1>0 DEF TakenInOrder, RecordsTypeOK
<1>2. /\ Length(Current) \in Nat /\ Overhead(Current) = Envelope
      /\ Envelope \in Nat /\ Envelope >= 1
      /\ Total(Current) = Envelope + Length(Current)
      /\ Len(buffer) \in Nat
  BY <1>0, <1>1, Sizes, AtTheFirst
<1>3. Len(buffer) < expected
  BY DEF ReadRecord
<1>4. PICK n \in 1..(expected - Len(buffer)) :
        /\ Recv(expected - Len(buffer), n)
        /\ buffer' = buffer \o Got(n)
  BY DEF ReadRecord
<1>5. expected - Len(buffer) \in Nat
  BY <1>1, <1>2, <1>3
<1>6. /\ n \in 1..Len(wire) /\ n \in Nat /\ n <= expected - Len(buffer)
      /\ LosesTheFirst(n) /\ wire' \in Seq(Unit)
      /\ Got(n) \in Seq(Unit) /\ Len(Got(n)) = n
      /\ \A i \in 1..n : Got(n)[i] = wire[i]
  BY <1>0, <1>4, <1>5, RecvFacts
<1>t. Taken = Envelope + Len(buffer)
  BY <1>0, <1>2 DEF Taken
<1>7. /\ Taken = Envelope + Len(buffer) /\ Taken \in Nat
      /\ Taken + n <= Total(Current)
      /\ Taken + n = Total(Current) <=> Len(buffer) + n = Length(Current)
  <2>1. PICK b, l, e \in Nat : b = Len(buffer) /\ l = Length(Current) /\ e = Envelope
    BY <1>2
  <2>2. Taken = e + b /\ Total(Current) = e + l /\ n \in Nat /\ n <= l - b
    BY <1>t, <1>1, <1>2, <1>6, <2>1
  <2>3. /\ e + b \in Nat /\ (e + b) + n <= e + l
        /\ (e + b) + n = e + l <=> b + n = l
    BY <2>2
  <2> QED  BY <2>1, <2>2, <2>3
<1>8. /\ \A i \in 1..n : wire[i] = <<Current, Taken + i>>
      /\ Taken + n = Total(Current) => records[Current].whole
  BY <1>0, <1>1, <1>6, <1>7, Continuation
<1>9. /\ buffer' \in Seq(Unit)
      /\ Len(buffer') = Len(buffer) + n
      /\ buffer' = [i \in 1..Len(buffer') |-> <<Current, Envelope + i>>]
  <2>1. Piece(buffer, Current, Envelope)
    BY <1>1, <1>2 DEF Piece
  <2>2. \A i \in 1..Len(Got(n)) : Got(n)[i] = <<Current, (Envelope + Len(buffer)) + i>>
    BY <1>6, <1>7, <1>8
  <2> DEFINE b == buffer \o Got(n)
  <2>3. /\ b \in Seq(Unit)
        /\ Len(b) = Len(buffer) + n
        /\ Piece(b, Current, Envelope)
    BY <1>1, <1>2, <1>6, <2>1, <2>2, BufferGrows
  <2> HIDE DEF b
  <2>4. buffer' = b
    BY <1>4 DEF b
  <2> QED  BY <2>3, <2>4 DEF Piece
<1>10. /\ records' = records /\ Arriving' = Arriving /\ SentInOrder'
       /\ Current' = Current
       /\ \A k : Length(k)' = Length(k) /\ Total(k)' = Total(k) /\ NumberAfter(k)' = NumberAfter(k)
  BY <1>0, <1>1, SenderUnchanged DEF Current
<1>11. RecordsTypeOK'
  BY <1>0, <1>6, <1>9, ReceiverType DEF RecordsTypeOK
<1>12. UnitsOfRecords' /\ Continuous'
  BY <1>0, <1>6, WireAfterRecv
<1>13. JoinsUp'
  <2>1. Taken' = Taken + n /\ Taken' > 0
    <3>1. Taken' = Envelope + Len(buffer')
      <4>1. Overhead(Current') = Envelope
        BY <1>2, <1>10
      <4>2. recPc' = "reading"
        BY <1>0
      <4> QED  BY <4>1, <4>2 DEF Taken
    <3>2. Len(buffer) \in Nat /\ n \in Nat /\ n > 0 /\ Len(buffer') = Len(buffer) + n
      BY <1>2, <1>6, <1>9
    <3> QED  BY <1>2, <1>7, <3>1, <3>2
  <2>2. NextUnit' = IF Taken + n = Total(Current)
                    THEN <<Current + 1, 1>> ELSE <<Current, Taken + n + 1>>
    BY <1>10, <2>1 DEF NextUnit
  <2> QED  BY <1>0, <1>1, <1>6, <1>7, <2>2, JoinsAfterRecv
<1>14. TakenInOrder'
  <2>1. Len(buffer') <= Length(Current) /\ (Len(buffer') = Length(Current) => records[Current].whole)
    BY <1>1, <1>2, <1>6, <1>7, <1>8, <1>9
  <2> QED  BY <1>0, <1>1, <1>2, <1>9, <1>10, <2>1 DEF TakenInOrder
<1>15. NumbersMatch'
  BY <1>0, <1>10 DEF NumbersMatch
<1> QED  BY <1>0, <1>10, <1>11, <1>12, <1>13, <1>14, <1>15 DEF RecordsConsistent

LEMMA DecryptConsistent ==
    ASSUME RecordsConsistent, Decrypt
    PROVE  RecordsConsistent'
<1>0. /\ recPc = "reading" /\ rxPc = "header" /\ rxOk /\ Len(buffer) = expected
      /\ UNCHANGED txVars /\ UNCHANGED <<txVars, wire>> /\ wire' = wire
      /\ RecordsTypeOK /\ SentInOrder /\ TakenInOrder /\ NumbersMatch
  BY OnlyWhenNothingFailed DEF Decrypt, RecordsConsistent
<1>1. /\ ingress = "encrypted" /\ expected = Length(Current) /\ Current \in DOMAIN records
      /\ wire' \in Seq(Unit)
  BY <1>0 DEF TakenInOrder, RecordsTypeOK
<1>2. CASE FailsHere
  BY <1>0, <1>1, <1>2, FailsHereConsistent
<1>3. CASE /\ recPc' = "open"
           /\ ingressSeq' = ingressSeq + expected
           /\ UNCHANGED <<ingress, rxPc, rxOk, expected, buffer, delivered>>
  <2>1. /\ Length(Current) \in Nat /\ Envelope \in Nat /\ Envelope >= 1
        /\ Overhead(Current) = Envelope /\ Current > 1
        /\ Total(Current) = Envelope + Length(Current)
    BY <1>0, <1>1, Sizes, AtTheFirst
  <2>2. /\ records' = records /\ Arriving' = Arriving /\ SentInOrder'
        /\ Current' = Current
        /\ \A k : Length(k)' = Length(k) /\ Total(k)' = Total(k) /\ NumberAfter(k)' = NumberAfter(k)
    BY <1>0, <1>3, SenderUnchanged DEF Current
  <2>3. RecordsTypeOK'
    <3>1. ingressSeq' \in Nat
      BY <1>0, <1>3, <1>1, <2>1 DEF RecordsTypeOK
    <3> QED  BY <1>0, <1>1, <1>3, <3>1, ReceiverType DEF RecordsTypeOK, RecPcs
  <2>4. Taken = Total(Current) /\ Taken' = Total(Current)
    BY <1>0, <1>1, <1>3, <2>1, <2>2 DEF Taken
  <2>5. NextUnit' = NextUnit
    BY <2>2, <2>4 DEF NextUnit
  <2>6. UnitsOfRecords' /\ Continuous' /\ JoinsUp'
    BY <1>0, <2>5, WireUntouched
  <2>7. TakenInOrder'
    BY <1>0, <1>1, <1>3, <2>2 DEF TakenInOrder
  <2>8. NumbersMatch'
    <3>1. PICK d \in Nat : d = Len(delivered)
      BY <1>0, Sizes
    <3>2. PICK k \in Nat : k = Current /\ k - 1 = d /\ ~ (k <= 1)
      <4>1. d + 1 \in Nat /\ (d + 1) - 1 = d /\ d + 1 = Current
        BY <3>1 DEF Current
      <4> QED  BY <2>1, <4>1
    <3>3. ingressSeq = NumberAfter(d) /\ records[k].seq = NumberAfter(k - 1)
      BY <1>0, <1>1, <3>1, <3>2 DEF NumbersMatch, SentInOrder
    <3>4. NumberAfter(k) = records[k].seq + Length(k)
      BY <3>2 DEF NumberAfter
    <3>5. ingressSeq' = NumberAfter(k)
      BY <1>1, <1>3, <3>2, <3>3, <3>4
    <3> QED  BY <1>3, <2>2, <3>2, <3>5 DEF NumbersMatch
  <2> QED  BY <1>0, <1>3, <2>2, <2>3, <2>6, <2>7, <2>8 DEF RecordsConsistent
<1> QED  BY <1>2, <1>3 DEF Decrypt

(***************************************************************************)
(* The message that is returned is the next one.                           *)
(***************************************************************************)
LEMMA Delivery ==
    ASSUME RecordsTypeOK, SentInOrder, delivered = [i \in 1..Len(delivered) |-> i],
           Current \in DOMAIN records, records[Current].whole,
           delivered' = Append(delivered, Current)
    PROVE  /\ delivered' \in Seq(Nat)
           /\ delivered' = [i \in 1..Len(delivered') |-> i]
           /\ Len(delivered') = Current
           /\ Current <= Arriving
           /\ Current' = Current + 1
           /\ Current \in Nat
<1>0. /\ Len(delivered) \in Nat /\ delivered \in Seq(Nat) /\ Current \in Nat
      /\ Current = Len(delivered) + 1
  BY Sizes DEF RecordsTypeOK, Current
<1>1. /\ delivered' \in Seq(Nat) /\ Len(delivered') = Current
      /\ \A i \in 1..Len(delivered) : delivered'[i] = delivered[i]
      /\ delivered'[Current] = Current
  BY <1>0, AppendProperties
<1>2. Current <= Arriving
  BY ArrivingFacts
<1>3. delivered' = [i \in 1..Len(delivered') |-> i]
  <2>1. delivered' \in [1..Current -> Nat]
    BY <1>1, LenProperties
  <2>2. \A i \in 1..Len(delivered) : delivered[i] = i
    OBVIOUS
  <2>3. \A i \in 1..Current : delivered'[i] = i
    BY <1>0, <1>1, <2>2
  <2> QED  BY <1>1, <2>1, <2>3
<1>4. Current' = Current + 1
  BY <1>1 DEF Current
<1> QED  BY <1>0, <1>1, <1>2, <1>3, <1>4

LEMMA CopyMessageConsistent ==
    ASSUME RecordsConsistent, CopyMessage
    PROVE  RecordsConsistent'
<1>0. /\ ingress = "encrypted" /\ rxPc = "header" /\ rxOk /\ recPc = "open"
      /\ UNCHANGED txVars /\ UNCHANGED <<txVars, wire>> /\ wire' = wire
      /\ RecordsTypeOK /\ SentInOrder /\ TakenInOrder /\ NumbersMatch
  BY OnlyWhenNothingFailed DEF CopyMessage, RecordsConsistent
<1>1. /\ expected = Length(Current) /\ Current \in DOMAIN records
      /\ wire' \in Seq(Unit) /\ buffer \in Seq(Unit)
      /\ buffer = [i \in 1..Len(buffer) |-> <<Current, Overhead(Current) + i>>]
      /\ Len(buffer) = Length(Current) /\ records[Current].whole
  BY <1>0 DEF TakenInOrder, RecordsTypeOK
<1>2. /\ Length(Current) \in Nat /\ Length(Current) >= Header /\ Header \in Nat /\ Header >= 1
      /\ Total(Current) \in Nat /\ Total(Current) >= 1
      /\ Len(delivered) \in Nat
      /\ DOMAIN records = 1..Len(records) /\ Len(records) \in Nat
  BY <1>0, <1>1, Sizes
<1>3. CASE Fails(IF Rest = <<>> THEN "none" ELSE "stale", Rest)
  <2>1. Rest \in Seq(Unit)
    <3>1. \A i \in (Header + 1)..Len(buffer) : buffer[i] \in Unit
      <4>1. \A i \in (Header + 1)..Len(buffer) : i \in 1..Len(buffer)
        BY <1>1, <1>2
      <4> QED  BY <1>1, <4>1, ElementOfSeq
    <3>2. Header + 1 \in Int /\ Len(buffer) \in Int
      BY <1>1, <1>2
    <3> QED  BY <3>1, <3>2, SubSeqProperties DEF Rest
  <2>2. PICK rec \in RecPcs : rec = IF Rest = <<>> THEN "none" ELSE "stale"
    BY DEF RecPcs
  <2>3. Fails(rec, Rest)
    BY <1>3, <2>2 DEF Fails
  <2> QED  BY <1>0, <1>1, <2>1, <2>3, LastReceive
<1>4. CASE /\ Returns(IF recPc = "open" THEN buffer[1][1] ELSE Garbage)
           /\ recPc' = "none"
           /\ buffer' = <<>>
           /\ UNCHANGED <<ingress, ingressSeq, rxOk, expected>>
  <2>1. buffer[1][1] = Current
    BY <1>1, <1>2
  <2>2. rxPc' = "idle" /\ delivered' = Append(delivered, Current)
    BY <1>0, <1>4, <2>1 DEF Returns
  <2>3. /\ delivered' \in Seq(Nat)
        /\ delivered' = [i \in 1..Len(delivered') |-> i]
        /\ Len(delivered') = Current /\ Current <= Arriving
        /\ Current' = Current + 1 /\ Current \in Nat
    BY <1>0, <1>1, <2>2, Delivery DEF TakenInOrder
  <2>4. /\ records' = records /\ Arriving' = Arriving /\ SentInOrder'
        /\ \A k : Length(k)' = Length(k) /\ Total(k)' = Total(k) /\ NumberAfter(k)' = NumberAfter(k)
    BY <1>0, SenderUnchanged
  <2>5. RecordsTypeOK'
    <3>1. <<>> \in Seq(Unit)
      BY EmptySeq
    <3> QED
      BY <1>0, <1>1, <1>4, <2>2, <2>3, <3>1, ReceiverType DEF RecordsTypeOK, RxPcs, RecPcs
  <2>6. NextUnit' = NextUnit
    <3>1. NextUnit = <<Current + 1, 1>>
      BY <1>0, <1>2 DEF NextUnit, Taken
    <3>2. Taken' = 0
      BY <1>0, <1>4, <2>4 DEF Taken
    <3> QED  BY <2>3, <3>1, <3>2 DEF NextUnit
  <2>7. UnitsOfRecords' /\ Continuous' /\ JoinsUp'
    BY <1>0, <2>6, WireUntouched
  <2>8. TakenInOrder'
    <3>1. delivered' # <<>> /\ ingress' = "encrypted"
      BY <1>0, <1>4, <2>3, EmptySeq, AtTheFirst
    <3> QED  BY <1>4, <2>2, <2>3, <2>4, <3>1 DEF TakenInOrder
  <2>9. NumbersMatch'
    <3>1. PICK k \in Nat : k = Current /\ k = Len(delivered')
      BY <2>3
    <3>2. ingressSeq = NumberAfter(k) /\ ingressSeq' = NumberAfter(k)
      BY <1>0, <1>4, <3>1 DEF NumbersMatch
    <3>3. recPc' = "none" /\ NumberAfter(k)' = NumberAfter(k)
      BY <1>4, <2>4
    <3> QED  BY <3>1, <3>2, <3>3 DEF NumbersMatch
  <2> QED  BY <1>0, <1>4, <2>4, <2>5, <2>7, <2>8, <2>9 DEF RecordsConsistent
<1> QED  BY <1>0, <1>3, <1>4 DEF CopyMessage

LEMMA ReadHeaderConsistent ==
    ASSUME RecordsConsistent, ReadHeader
    PROVE  RecordsConsistent'
<1>0. /\ ingress = "plaintext" /\ rxPc = "header" /\ rxOk
      /\ UNCHANGED txVars
      /\ RecordsTypeOK /\ SentInOrder /\ TakenInOrder
  BY OnlyWhenNothingFailed DEF ReadHeader, RecordsConsistent
<1>1. PICK n \in 1..Header :
        /\ Recv(Header, n)
        /\ \/ /\ n = Header
              /\ rxPc' = "payload"
              /\ expected' = records[Head(wire)[1]].payload
              /\ buffer' = Got(n)
              /\ UNCHANGED <<ingress, ingressSeq, rxOk, recPc, delivered>>
           \/ FailsHere
  BY DEF ReadHeader
<1>2. /\ n \in 1..Len(wire) /\ n \in Nat /\ n <= Header
      /\ LosesTheFirst(n) /\ wire' \in Seq(Unit)
      /\ Got(n) \in Seq(Unit) /\ Len(Got(n)) = n
      /\ \A i \in 1..n : Got(n)[i] = wire[i]
  BY <1>0, <1>1, RecvFacts, SizesAssumption
<1>3. CASE FailsHere
  BY <1>0, <1>2, <1>3, FailsHereConsistent
<1>4. CASE /\ n = Header
           /\ rxPc' = "payload"
           /\ expected' = records[Head(wire)[1]].payload
           /\ buffer' = Got(n)
           /\ UNCHANGED <<ingress, ingressSeq, rxOk, recPc, delivered>>
  <2>0. recPc = "none"
    <3>1. "plaintext" # "encrypted"
      OBVIOUS
    <3> QED  BY <1>0, <3>1 DEF TakenInOrder
  <2>1. Taken = 0 /\ wire # <<>>
    BY <1>0, <1>2, <2>0, Sizes DEF Taken
  <2>2. Current \in DOMAIN records /\ wire[1] = <<Current, 1>>
    BY <1>0, <2>1, NextRecord
  <2>3. Head(wire)[1] = Current
    BY <1>0, <2>1, <2>2, HeadTailProperties DEF RecordsTypeOK
  <2>4. records[Current].payload \in Nat
    <3>1. records[Current] \in Record
      BY <1>0, <2>2, Sizes
    <3> QED  BY <3>1, SizesAssumption DEF Record
  <2>5. /\ Length(Current) = Header + records[Current].payload
        /\ Overhead(Current) = 0 /\ Total(Current) = Length(Current)
        /\ Header \in Nat /\ Header >= 1
    BY <1>0, <2>4, SizesAssumption, AtTheFirst DEF Length, Total
  <2>6. Taken \in Nat /\ Taken + n <= Total(Current)
    BY <1>2, <2>1, <2>4, <2>5
  <2>7. /\ \A i \in 1..n : wire[i] = <<Current, Taken + i>>
        /\ Taken + n = Total(Current) => records[Current].whole
    BY <1>0, <1>2, <2>2, <2>6, Continuation
  <2>8. /\ records' = records /\ Arriving' = Arriving /\ SentInOrder'
        /\ Current' = Current
        /\ \A k : Length(k)' = Length(k) /\ Total(k)' = Total(k) /\ NumberAfter(k)' = NumberAfter(k)
    BY <1>0, <1>4, SenderUnchanged DEF Current
  <2>9. buffer' \in Seq(Unit) /\ Len(buffer') = n /\ Piece(buffer', Current, 0)
    <3> DEFINE g == Got(n)
    <3>1. g \in Seq(Unit) /\ Len(g) = n /\ \A i \in 1..n : g[i] = <<Current, 0 + i>>
      BY <1>2, <2>1, <2>7
    <3> HIDE DEF g
    <3>2. g \in [1..Len(g) -> Unit]
      BY <3>1, LenProperties
    <3>3. Piece(g, Current, 0)
      BY <3>1, <3>2 DEF Piece
    <3>4. buffer' = g
      BY <1>4 DEF g
    <3> QED  BY <3>1, <3>3, <3>4 DEF Piece
  <2>10. RecordsTypeOK'
    BY <1>0, <1>2, <1>4, <2>3, <2>4, <2>9, ReceiverType DEF RecordsTypeOK, RxPcs
  <2>11. UnitsOfRecords' /\ Continuous'
    BY <1>0, <1>2, WireAfterRecv
  <2>12. JoinsUp'
    <3>1. Taken' = Taken + n /\ Taken' > 0
      BY <1>2, <1>4, <2>0, <2>1, <2>9 DEF Taken
    <3>2. NextUnit' = IF Taken + n = Total(Current)
                      THEN <<Current + 1, 1>> ELSE <<Current, Taken + n + 1>>
      BY <2>8, <3>1 DEF NextUnit
    <3> QED  BY <1>0, <1>2, <2>2, <2>6, <3>2, JoinsAfterRecv
  <2>13. TakenInOrder'
    <3>1. recPc = "none" /\ recPc' = recPc /\ delivered' = delivered
          /\ ingress = "plaintext" /\ ingress' = ingress /\ delivered = <<>>
      BY <1>0, <1>4, <2>0 DEF TakenInOrder
    <3>2. Len(buffer') + expected' = Length(Current) /\ Len(buffer') <= Length(Current)
          /\ (Len(buffer') = Length(Current) => records[Current].whole)
          /\ Header <= Len(buffer')
      BY <1>4, <2>1, <2>3, <2>4, <2>5, <2>7, <2>9
    <3> QED  BY <1>0, <1>4, <2>2, <2>5, <2>8, <2>9, <3>1, <3>2 DEF TakenInOrder, Piece
  <2>14. NumbersMatch' /\ recPc' # "stale"
    <3>1. NumbersMatch
      BY <1>0 DEF RecordsConsistent
    <3> QED  BY <1>4, <2>0, <2>8, <3>1 DEF NumbersMatch
  <2> QED  BY <1>0, <1>4, <2>8, <2>10, <2>11, <2>12, <2>13, <2>14 DEF RecordsConsistent
<1> QED  BY <1>1, <1>3, <1>4

LEMMA ReadPayloadConsistent ==
    ASSUME RecordsConsistent, ReadPayload
    PROVE  RecordsConsistent'
<1>0. /\ rxPc = "payload" /\ rxOk
      /\ UNCHANGED txVars
      /\ ingress' = ingress /\ ingressSeq' = ingressSeq /\ rxOk' = rxOk /\ recPc' = recPc
      /\ RecordsTypeOK /\ SentInOrder /\ TakenInOrder /\ NumbersMatch
  BY OnlyWhenNothingFailed DEF ReadPayload, RecordsConsistent
<1>1. /\ ingress = "plaintext" /\ Current \in DOMAIN records /\ recPc = "none"
      /\ delivered = <<>>
      /\ Len(buffer) + expected = Length(Current) /\ Header <= Len(buffer)
      /\ buffer = [i \in 1..Len(buffer) |-> <<Current, Overhead(Current) + i>>]
      /\ Len(buffer) = Length(Current) => records[Current].whole
      /\ buffer \in Seq(Unit) /\ expected \in Nat
      /\ delivered = [i \in 1..Len(delivered) |-> i]
      /\ Len(delivered) <= Arriving
  BY <1>0 DEF TakenInOrder, RecordsTypeOK
<1>2. /\ Length(Current) \in Nat /\ Overhead(Current) = 0 /\ Current = 1
      /\ Total(Current) = Length(Current)
      /\ Header \in Nat /\ Header >= 1
      /\ Len(buffer) \in Nat /\ Taken = Len(buffer)
      /\ wire \in Seq(Unit)
  BY <1>0, <1>1, Sizes, AtTheFirst DEF Taken, Total, RecordsTypeOK
<1>3. /\ records' = records /\ Arriving' = Arriving /\ SentInOrder'
      /\ \A k : Length(k)' = Length(k) /\ Total(k)' = Total(k) /\ NumberAfter(k)' = NumberAfter(k)
  BY <1>0, <1>1, SenderUnchanged
<1>4. CASE /\ expected > 0
           /\ \E n \in 1..expected :
                /\ Recv(expected, n)
                /\ expected' = expected - n
                /\ buffer' = buffer \o Got(n)
           /\ UNCHANGED <<rxPc, delivered>>
  <2>1. PICK n \in 1..expected :
          /\ Recv(expected, n)
          /\ expected' = expected - n
          /\ buffer' = buffer \o Got(n)
    BY <1>4
  <2>2. /\ n \in 1..Len(wire) /\ n \in Nat /\ n <= expected
        /\ LosesTheFirst(n) /\ wire' \in Seq(Unit)
        /\ Got(n) \in Seq(Unit) /\ Len(Got(n)) = n
        /\ \A i \in 1..n : Got(n)[i] = wire[i]
    BY <1>0, <1>1, <2>1, RecvFacts
  <2>3. Taken \in Nat /\ Taken + n <= Total(Current)
    BY <1>1, <1>2, <2>2
  <2>4. /\ \A i \in 1..n : wire[i] = <<Current, Taken + i>>
        /\ Taken + n = Total(Current) => records[Current].whole
    BY <1>0, <1>1, <2>2, <2>3, Continuation
  <2>5. /\ buffer' \in Seq(Unit)
        /\ Len(buffer') = Len(buffer) + n
        /\ Piece(buffer', Current, 0)
    <3>1. Piece(buffer, Current, 0) /\ 0 \in Nat
      BY <1>1, <1>2 DEF Piece
    <3>2. \A i \in 1..Len(Got(n)) : Got(n)[i] = <<Current, (0 + Len(buffer)) + i>>
      <4>1. 0 + Len(buffer) = Taken
        BY <1>2
      <4> QED  BY <2>2, <2>4, <4>1
    <3> DEFINE b == buffer \o Got(n)
    <3>3. /\ b \in Seq(Unit)
          /\ Len(b) = Len(buffer) + Len(Got(n))
          /\ Piece(b, Current, 0)
      <4>1. buffer \in Seq(Unit) /\ Got(n) \in Seq(Unit)
        BY <1>1, <2>2
      <4> QED  BY <3>1, <3>2, <4>1, BufferGrows
    <3> HIDE DEF b
    <3>4. buffer' = b
      BY <2>1 DEF b
    <3> QED  BY <2>2, <3>3, <3>4 DEF Piece
  <2>6. Current' = Current
    BY <1>4 DEF Current
  <2>7. expected' \in Nat
    BY <1>1, <2>1, <2>2
  <2>8. RecordsTypeOK'
    BY <1>0, <1>4, <2>2, <2>5, <2>7, ReceiverType DEF RecordsTypeOK
  <2>9. UnitsOfRecords' /\ Continuous'
    BY <1>0, <2>2, WireAfterRecv
  <2>10. JoinsUp'
    <3>1. Taken' = Taken + n /\ Taken' > 0
      BY <1>0, <1>1, <1>2, <1>3, <1>4, <2>2, <2>5 DEF Taken
    <3>2. NextUnit' = IF Taken + n = Total(Current)
                      THEN <<Current + 1, 1>> ELSE <<Current, Taken + n + 1>>
      BY <1>3, <2>6, <3>1 DEF NextUnit
    <3> QED  BY <1>0, <1>1, <2>2, <2>3, <3>2, JoinsAfterRecv
  <2>11. TakenInOrder'
    <3>1. /\ Len(buffer') + expected' = Length(Current)
          /\ Header <= Len(buffer') /\ Len(buffer') <= Length(Current)
          /\ Len(buffer') = Length(Current) => records[Current].whole
      BY <1>1, <1>2, <2>1, <2>2, <2>4, <2>5
    <3> QED  BY <1>0, <1>1, <1>2, <1>3, <1>4, <2>5, <2>6, <3>1 DEF TakenInOrder, Piece
  <2>12. NumbersMatch' /\ recPc' # "stale"
    BY <1>0, <1>1, <1>3, <1>4 DEF NumbersMatch
  <2> QED  BY <1>0, <1>3, <2>8, <2>9, <2>10, <2>11, <2>12 DEF RecordsConsistent
<1>5. CASE /\ expected = 0
           /\ Returns(IF \A i \in DOMAIN buffer : buffer[i] = <<buffer[1][1], i>>
                      THEN buffer[1][1] ELSE Garbage)
           /\ buffer' = <<>>
           /\ UNCHANGED <<wire, expected>>
  <2>1. /\ Len(buffer) = Length(Current) /\ records[Current].whole
        /\ Length(Current) >= 1
    BY <1>1, <1>2, <1>5
  <2>2. buffer[1][1] = Current /\ \A i \in DOMAIN buffer : buffer[i] = <<Current, i>>
    BY <1>1, <1>2, <2>1
  <2>3. rxPc' = "idle" /\ delivered' = Append(delivered, Current)
    BY <1>5, <2>2 DEF Returns
  <2>4. /\ delivered' \in Seq(Nat)
        /\ delivered' = [i \in 1..Len(delivered') |-> i]
        /\ Len(delivered') = Current /\ Current <= Arriving
        /\ Current' = Current + 1 /\ Current \in Nat
    BY <1>0, <1>1, <2>1, <2>3, Delivery
  <2>5. UNCHANGED <<txVars, wire>> /\ wire' = wire /\ expected' = expected /\ buffer' = <<>>
    BY <1>0, <1>5
  <2>6. RecordsTypeOK'
    <3>1. <<>> \in Seq(Unit)
      BY EmptySeq
    <3> QED
      BY <1>0, <1>1, <1>2, <2>3, <2>4, <2>5, <3>1, ReceiverType DEF RecordsTypeOK, RxPcs
  <2>7. NextUnit' = NextUnit
    <3>1. NextUnit = <<Current + 1, 1>>
      BY <1>2, <2>1 DEF NextUnit
    <3>2. Taken' = 0
      BY <1>0, <1>1, <2>3 DEF Taken
    <3> QED  BY <2>4, <3>1, <3>2 DEF NextUnit
  <2>8. UnitsOfRecords' /\ Continuous' /\ JoinsUp'
    BY <1>0, <2>5, <2>7, WireUntouched
  <2>9. TakenInOrder'
    <3>1. ingress' # "encrypted" /\ recPc' = "none" /\ rxPc' = "idle"
      BY <1>0, <1>1, <2>3
    <3> QED  BY <1>3, <2>4, <3>1 DEF TakenInOrder
  <2>10. NumbersMatch' /\ recPc' # "stale"
    <3>1. recPc' = "none" /\ Len(delivered') = 1 /\ Len(delivered) = 0
      BY <1>0, <1>1, <1>2, <2>4, EmptySeq
    <3>2. ingressSeq = 0 /\ ingressSeq' = 0
      BY <1>0, <1>1, <3>1 DEF NumbersMatch, NumberAfter
    <3> QED  BY <3>1, <3>2 DEF NumbersMatch, NumberAfter
  <2> QED  BY <1>0, <1>3, <2>6, <2>8, <2>9, <2>10 DEF RecordsConsistent
<1> QED  BY <1>4, <1>5 DEF ReadPayload

(***************************************************************************)
(* The receiver at rest: the sender closes its end, or nothing happens.    *)
(***************************************************************************)
LEMMA NothingMoves ==
    ASSUME RecordsConsistent, UNCHANGED <<records, egressSeq, txOk, wire, rxVars>>,
           closed' \in BOOLEAN, egress' \in Ways, egress' # egress => records # <<>>
    PROVE  RecordsConsistent'
<1>1. /\ records' = records /\ egressSeq' = egressSeq
      /\ txOk' = txOk /\ wire' = wire /\ ingress' = ingress /\ ingressSeq' = ingressSeq
      /\ rxPc' = rxPc
      /\ rxOk' = rxOk /\ recPc' = recPc /\ expected' = expected /\ buffer' = buffer
      /\ delivered' = delivered
  BY DEF rxVars
<1>2. RecordsTypeOK'
  BY <1>1 DEF RecordsConsistent, RecordsTypeOK
<1>3. /\ Current' = Current /\ Arriving' = Arriving /\ (LastIsWhole' <=> LastIsWhole)
      /\ \A k : Length(k)' = Length(k) /\ Total(k)' = Total(k) /\ NumberAfter(k)' = NumberAfter(k)
  BY <1>1 DEF Current, Arriving, LastIsWhole, Length, Total, NumberAfter
<1>s. SentInOrder'
  BY <1>1, <1>3 DEF RecordsConsistent, SentInOrder
<1>4. Taken' = Taken
  BY <1>1, <1>3 DEF Taken
<1>5. NextUnit' = NextUnit
  BY <1>3, <1>4 DEF NextUnit
<1>6. UnitsOfRecords' <=> UnitsOfRecords
  BY <1>1, <1>3 DEF UnitsOfRecords, OfRecord
<1>7. Continuous' <=> Continuous
  BY <1>1, <1>3 DEF Continuous, Continues
<1>8. JoinsUp' <=> JoinsUp
  BY <1>1, <1>3, <1>5 DEF JoinsUp
<1>9. TakenInOrder' <=> TakenInOrder
  BY <1>1, <1>3 DEF TakenInOrder
<1>10. NumbersMatch' <=> NumbersMatch
  BY <1>1, <1>3 DEF NumbersMatch
<1> QED
  BY <1>1, <1>2, <1>3, <1>s, <1>6, <1>7, <1>8, <1>9, <1>10 DEF RecordsConsistent

LEMMA RecordsStarts == RecordsInit => RecordsConsistent
<1> SUFFICES ASSUME RecordsInit PROVE RecordsConsistent
  OBVIOUS
<1>1. RecordsTypeOK
  <2>1. /\ <<>> \in Seq(Record) /\ <<>> \in Seq(Unit) /\ <<>> \in Seq(Nat)
        /\ Len(records) = 0 /\ 0 <= MaxSends
    BY EmptySeq, SizesAssumption DEF RecordsInit
  <2> QED  BY <2>1 DEF RecordsInit, RecordsTypeOK, RxPcs, RecPcs, Ways
<1>2. /\ Len(records) = 0 /\ Len(delivered) = 0 /\ Len(wire) = 0
      /\ DOMAIN records = {} /\ DOMAIN wire = {}
  BY EmptySeq DEF RecordsInit
<1>3. SentInOrder
  BY <1>2 DEF RecordsInit, SentInOrder, NumberAfter
<1>4. UnitsOfRecords /\ Continuous
  BY <1>2 DEF UnitsOfRecords, Continuous
<1>5. JoinsUp
  <2>1. Taken = 0 /\ Current = 1
    BY <1>2 DEF Taken, Current, RecordsInit
  <2>2. NextUnit = <<1, 1>>
    BY <2>1 DEF NextUnit
  <2> QED  BY <1>2, <2>2 DEF JoinsUp, RecordsInit
<1>6. TakenInOrder
  <2>1. Arriving = 0
    BY <1>2 DEF Arriving, LastIsWhole, RecordsInit
  <2>2. delivered = [i \in 1..Len(delivered) |-> i]
    BY <1>2 DEF RecordsInit
  <2> QED  BY <1>2, <2>1, <2>2 DEF TakenInOrder, RecordsInit
<1>7. NumbersMatch
  BY <1>2 DEF NumbersMatch, NumberAfter, RecordsInit
<1> QED  BY <1>1, <1>3, <1>4, <1>5, <1>6, <1>7 DEF RecordsConsistent, RecordsInit

LEMMA RecordsStep == RecordsConsistent /\ [RecordsNext]_recVars => RecordsConsistent'
<1> SUFFICES ASSUME RecordsConsistent, [RecordsNext]_recVars PROVE RecordsConsistent'
  OBVIOUS
<1>0. closed \in BOOLEAN /\ egress \in Ways /\ wire \in Seq(Unit)
  BY DEF RecordsConsistent, RecordsTypeOK
<1>1. CASE \E payload \in Payloads : Send(payload)
  BY <1>1, SendConsistent
<1>2. CASE Close
  BY <1>0, <1>2, NothingMoves DEF Close
<1>e. CASE EncryptEgress
  <2>1. egress' \in Ways
    BY <1>e DEF EncryptEgress, Ways
  <2> QED  BY <1>0, <1>e, <2>1, NothingMoves DEF EncryptEgress
<1>i. CASE EncryptIngress
  BY <1>i, EncryptIngressConsistent
<1>3. CASE Receive
  BY <1>3, ReceiveConsistent
<1>4. CASE ReadEnvelope
  BY <1>4, ReadEnvelopeConsistent
<1>5. CASE ReadRecord
  BY <1>5, ReadRecordConsistent
<1>6. CASE Decrypt
  BY <1>6, DecryptConsistent
<1>7. CASE CopyMessage
  BY <1>7, CopyMessageConsistent
<1>8. CASE ReadHeader
  BY <1>8, ReadHeaderConsistent
<1>9. CASE ReadPayload
  BY <1>9, ReadPayloadConsistent
<1>10. CASE EndOfStream
  <2>1. rxOk
    BY <1>10, OnlyWhenNothingFailed DEF EndOfStream, BlocksInRecv
  <2> QED  BY <1>0, <1>10, <2>1, FailsHereConsistent DEF EndOfStream
<1>11. CASE Interrupted
  <2>1. rxOk
    BY <1>11, OnlyWhenNothingFailed DEF Interrupted, BlocksInRecv
  <2> QED  BY <1>0, <1>11, <2>1, FailsHereConsistent DEF Interrupted
<1>12. CASE UNCHANGED recVars
  BY <1>0, <1>12, NothingMoves DEF recVars, txVars
<1> QED
  BY <1>1, <1>2, <1>e, <1>i, <1>3, <1>4, <1>5, <1>6, <1>7, <1>8, <1>9, <1>10, <1>11, <1>12
  DEF RecordsNext, RxStep

(***************************************************************************)
(* The receiver never takes a record out of its place, for any sizes, any  *)
(* number of messages and any misfortunes (channel.c:36-153,               *)
(* messages.c:45-97).                                                      *)
(***************************************************************************)
THEOREM AlwaysRecordsConsistent == RecordsSpec => []RecordsConsistent
  BY RecordsStarts, RecordsStep, PTL DEF RecordsSpec

(***************************************************************************)
(* Type correctness of the channel's state (channel.h).                    *)
(***************************************************************************)
THEOREM RecordsTypeCorrect == RecordsSpec => []RecordsTypeOK
<1>1. RecordsConsistent => RecordsTypeOK
  BY DEF RecordsConsistent
<1> QED  BY <1>1, AlwaysRecordsConsistent, PTL

(***************************************************************************)
(* The sequence numbers of the two ends do not get out of step             *)
(* (channel.c:90 and 149).                                                 *)
(***************************************************************************)
THEOREM StayInStep == RecordsSpec => []InStep
<1>1. RecordsConsistent => InStep
  <2> SUFFICES ASSUME RecordsConsistent, rxOk, recPc # "open"
               PROVE  IF Len(delivered) < Len(records)
                      THEN records[Len(delivered) + 1].seq = ingressSeq
                      ELSE txOk => egressSeq = ingressSeq
    BY DEF InStep
  <2>1. /\ RecordsTypeOK /\ SentInOrder /\ Len(delivered) <= Arriving
        /\ ingressSeq = NumberAfter(Len(delivered))
    BY DEF RecordsConsistent, TakenInOrder, NumbersMatch
  <2>2. /\ Len(records) \in Nat /\ DOMAIN records = 1..Len(records)
        /\ Arriving \in 0..Len(records)
    BY <2>1, Sizes, ArrivingFacts
  <2>3. PICK d \in Nat : d = Len(delivered) /\ d <= Len(records)
    BY <2>1, <2>2, Sizes
  <2>4. CASE d < Len(records)
    <3>1. d + 1 \in DOMAIN records /\ (d + 1) - 1 = d
      BY <2>2, <2>3, <2>4
    <3>2. records[d + 1].seq = NumberAfter(d)
      BY <2>1, <3>1 DEF SentInOrder
    <3> QED  BY <2>1, <2>3, <2>4, <3>2
  <2>5. CASE ~ (d < Len(records))
    <3>1. d = Len(records)
      <4>1. Len(records) \in Nat
        BY <2>2
      <4> QED  BY <2>3, <2>5, <4>1
    <3> QED  BY <2>1, <2>3, <2>5, <3>1 DEF SentInOrder
  <2> QED  BY <2>4, <2>5
<1> QED  BY <1>1, AlwaysRecordsConsistent, PTL
-----------------------------------------------------------------------------
(***************************************************************************)
(* The queue of Fifo: the messages from d + 1 to a.                        *)
(***************************************************************************)
Queued(a, d) == [i \in 1..(a - d) |-> d + i]

LEMMA QueueFacts ==
    ASSUME NEW a \in Nat, NEW d \in Nat, d <= a
    PROVE  /\ Len(Queued(a, d)) = a - d
           /\ Append(Queued(a, d), a + 1) = Queued(a + 1, d)
           /\ d < a => /\ Queued(a, d) # <<>>
                       /\ Head(Queued(a, d)) = d + 1
                       /\ Tail(Queued(a, d)) = Queued(a, d + 1)
<1> DEFINE q == Queued(a, d)
           l == a - d
<1>1. l \in Nat /\ q = [i \in 1..l |-> d + i] /\ \A i \in 1..l : d + i \in Nat
  BY DEF Queued
<1>2. q \in [1..l -> Nat]
  BY <1>1
<1>3. q \in Seq(Nat) /\ Len(q) = l
  BY <1>1, <1>2, SeqDef, LenProperties
<1>4. \A i \in 1..l : q[i] = d + i
  BY <1>1
<1> HIDE DEF q
<1>5. Append(q, a + 1) = Queued(a + 1, d)
  <2> DEFINE t == Append(q, a + 1)
  <2>1. /\ t \in Seq(Nat) /\ Len(t) = l + 1
        /\ \A i \in 1..l : t[i] = q[i]
        /\ t[l + 1] = a + 1
    BY <1>1, <1>3, AppendProperties
  <2> HIDE DEF t
  <2>2. t \in [1..(l + 1) -> Nat]
    BY <2>1, LenProperties
  <2>3. \A i \in 1..(l + 1) : t[i] = d + i
    BY <1>1, <1>4, <2>1
  <2>4. (a + 1) - d = l + 1
    BY <1>1
  <2>5. t = Queued(a + 1, d)
    BY <2>2, <2>3, <2>4 DEF Queued
  <2> QED  BY <2>5 DEF t
<1>6. ASSUME d < a
      PROVE  q # <<>> /\ Head(q) = d + 1 /\ Tail(q) = Queued(a, d + 1)
  <2>1. q # <<>> /\ l >= 1
    <3>1. l >= 1
      BY <1>6
    <3>2. Len(<<>>) = 0
      BY EmptySeq
    <3> QED  BY <1>3, <3>1, <3>2
  <2>2. Head(q) = d + 1
    BY <1>3, <1>4, <2>1, HeadTailProperties
  <2> DEFINE t == Tail(q)
  <2>3. /\ t \in Seq(Nat) /\ Len(t) = l - 1
        /\ \A i \in 1..(l - 1) : t[i] = q[i + 1]
    BY <1>3, <2>1, HeadTailProperties
  <2> HIDE DEF t
  <2>4. t \in [1..(l - 1) -> Nat]
    BY <2>3, LenProperties
  <2>5. \A i \in 1..(l - 1) : t[i] = (d + 1) + i
    <3> TAKE i \in 1..(l - 1)
    <3>1. i + 1 \in 1..l /\ d + (i + 1) = (d + 1) + i
      BY <1>1
    <3> QED  BY <1>4, <2>3, <3>1
  <2>6. a - (d + 1) = l - 1
    OBVIOUS
  <2>7. t = Queued(a, d + 1)
    BY <2>4, <2>5, <2>6 DEF Queued
  <2> QED  BY <2>1, <2>2, <2>7 DEF t
<1> QED  BY <1>3, <1>5, <1>6 DEF q

(***************************************************************************)
(* A step sends a message, returns one, or neither.                        *)
(***************************************************************************)
LEMMA SendsOrReturns ==
    ASSUME [RecordsNext]_recVars
    PROVE  \/ \E payload \in Payloads : Send(payload)
           \/ records' = records /\ delivered' = delivered
           \/ records' = records /\ \E m : delivered' = Append(delivered, m)
<1>1. CASE Close \/ EncryptEgress \/ EncryptIngress \/ Receive \/ Interrupted \/ EndOfStream \/ UNCHANGED recVars
  BY <1>1
  DEF Close, EncryptEgress, EncryptIngress, Receive, Interrupted, EndOfStream, FailsHere, Fails, recVars, rxVars, txVars
<1>2. CASE ReadEnvelope
  BY <1>2 DEF ReadEnvelope, FailsHere, Fails, txVars
<1>3. CASE ReadHeader
  BY <1>3 DEF ReadHeader, FailsHere, Fails, txVars
<1>4. CASE ReadRecord
  BY <1>4 DEF ReadRecord, txVars
<1>5. CASE Decrypt
  BY <1>5 DEF Decrypt, FailsHere, Fails, txVars
<1>6. CASE CopyMessage
  BY <1>6 DEF CopyMessage, Fails, Returns, txVars
<1>7. CASE ReadPayload
  BY <1>7 DEF ReadPayload, Returns, txVars
<1> QED  BY <1>1, <1>2, <1>3, <1>4, <1>5, <1>6, <1>7 DEF RecordsNext, RxStep

LEMMA StepsOfFifo ==
    RecordsConsistent /\ [RecordsNext]_recVars =>
        [Channel!Next]_<<Len(records), Queued(Arriving, Len(delivered)), delivered>>
<1> SUFFICES ASSUME RecordsConsistent, [RecordsNext]_recVars
             PROVE  [Channel!Next]_<<Len(records), Queued(Arriving, Len(delivered)), delivered>>
  OBVIOUS
<1> DEFINE q == Queued(Arriving, Len(delivered))
           d == Len(delivered)
<1>1. /\ RecordsTypeOK /\ SentInOrder
      /\ delivered = [i \in 1..d |-> i] /\ d <= Arriving
      /\ delivered' = [i \in 1..d' |-> i] /\ d' <= Arriving'
  BY RecordsStep DEF RecordsConsistent, TakenInOrder
<1>2. /\ d \in Nat /\ Arriving \in Nat /\ Arriving <= Len(records)
      /\ LastIsWhole => Arriving = Len(records)
      /\ Len(records) \in Nat /\ delivered \in Seq(Nat)
  BY <1>1, Sizes, ArrivingFacts DEF RecordsTypeOK
<1>3. ASSUME NEW payload \in Payloads, Send(payload)
      PROVE  Channel!Next
  <2>1. PICK r \in Record, k \in Nat, n \in Nat : SendsPart(r, k, n)
    BY <1>1, <1>3, SendShape
  <2>2. LastIsWhole /\ delivered' = delivered /\ d' = d
    BY <1>1, <1>3, SendShape, SendsAfterWhole DEF Send, rxVars
  <2>n. d + Len(q) = Len(records)
    <3>1. Len(q) = Arriving - d
      BY <1>1, <1>2, QueueFacts
    <3> HIDE DEF q
    <3> QED  BY <1>2, <2>2, <3>1
  <2>3. /\ records' = Append(records, r) /\ records \in Seq(Record)
    BY <1>1, <2>1 DEF SendsPart, AddsRecord, RecordsTypeOK
  <2>4. /\ Len(records') = Len(records) + 1
        /\ records'[Len(records) + 1] = r
        /\ records' # <<>>
    BY <2>3, AppendProperties
  <2>5. Arriving' = IF r.whole THEN Arriving + 1 ELSE Arriving
    BY <1>2, <2>2, <2>4 DEF Arriving, LastIsWhole
  <2>6. CASE r.whole
    <3>1. q' = Queued(Arriving + 1, d)
      BY <2>2, <2>5, <2>6 DEF Queued
    <3>2. q' = Append(q, Len(records) + 1)
      <4>1. Arriving = Len(records) /\ d <= Arriving
        BY <1>1, <1>2, <2>2
      <4>2. Append(q, Arriving + 1) = Queued(Arriving + 1, d)
        BY <1>2, <4>1, QueueFacts
      <4> QED  BY <3>1, <4>1, <4>2
    <3> QED  BY <2>2, <2>n, <2>4, <3>2 DEF Channel!Next, Channel!Send, Channel!NothingLost, Queued
  <2>7. CASE ~ r.whole
    <3>1. q' = q
      BY <2>2, <2>5, <2>7 DEF Queued
    <3> QED  BY <2>2, <2>n, <2>4, <3>1 DEF Channel!Next, Channel!Lose, Channel!NothingLost, Queued
  <2> QED  BY <2>6, <2>7
<1>4. CASE records' = records /\ delivered' = delivered
  <2>1. Arriving' = Arriving /\ d' = d
    BY <1>4 DEF Arriving, LastIsWhole
  <2>2. q' = q
    BY <2>1 DEF Queued
  <2> QED  BY <1>4, <2>2
<1>5. ASSUME records' = records, NEW m, delivered' = Append(delivered, m)
      PROVE  Channel!Next
  <2>1. Arriving' = Arriving
    BY <1>5 DEF Arriving, LastIsWhole
  <2>2. d' = d + 1 /\ delivered'[d + 1] = m
    BY <1>2, <1>5
  <2>3. m = d + 1 /\ d < Arriving
    BY <1>1, <1>2, <2>1, <2>2
  <2>4. q' = Queued(Arriving, d + 1)
    BY <2>1, <2>2 DEF Queued
  <2>5. q # <<>> /\ Head(q) = d + 1 /\ q' = Tail(q)
    BY <1>1, <1>2, <2>3, <2>4, QueueFacts
  <2> QED  BY <1>5, <2>3, <2>5 DEF Channel!Next, Channel!Receive, Queued
<1> QED  BY <1>3, <1>4, <1>5, SendsOrReturns

(***************************************************************************)
(* The channel implements Fifo: messages arrive once, whole and in order,  *)
(* however the stream is cut up and whatever fails (messages.c:45-97,      *)
(* channel.c:36-153).                                                      *)
(***************************************************************************)
THEOREM ChannelIsFifo == RecordsSpec => ImplementsFifo
<1>1. RecordsInit => Channel!Init
  <2> SUFFICES ASSUME RecordsInit PROVE Channel!Init
    OBVIOUS
  <2>1. Len(records) = 0 /\ Len(delivered) = 0 /\ Arriving = 0 /\ delivered = <<>>
    BY EmptySeq DEF RecordsInit, Arriving, LastIsWhole
  <2>2. [i \in 1..(0 - 0) |-> 0 + i] = <<>>
    OBVIOUS
  <2> QED  BY <2>1, <2>2 DEF Channel!Init
<1>2. RecordsConsistent /\ [RecordsNext]_recVars =>
        [Channel!Next]_<<Len(records), [i \in 1..(Arriving - Len(delivered)) |->
                                          Len(delivered) + i], delivered>>
  BY StepsOfFifo DEF Queued
<1>3. RecordsSpec => Channel!Spec
  BY <1>1, <1>2, AlwaysRecordsConsistent, PTL DEF RecordsSpec, Channel!Spec
<1> QED  BY <1>3 DEF ImplementsFifo
=============================================================================
