-------------------------- MODULE RecordsInductive --------------------------
(***************************************************************************)
(* The inductive invariant behind the channel's promise: what is on the    *)
(* wire continues what the receiver has taken, unit by unit, and the       *)
(* numbers in the records continue each other likewise.                    *)
(***************************************************************************)
EXTENDS Records

Total(k)  == Overhead(k) + Length(k)
Current   == Len(delivered) + 1

(***************************************************************************)
(* How much the receiver has taken of the record it is at, and so which    *)
(* unit comes next.                                                        *)
(***************************************************************************)
Taken ==
    CASE recPc = "reading" -> Overhead(Current) + Len(buffer)
      [] recPc = "open"    -> Total(Current)
      [] OTHER             -> IF rxPc = "payload" THEN Len(buffer) ELSE 0

NextUnit ==
    IF Taken > 0 /\ Taken = Total(Current)
    THEN <<Current + 1, 1>>
    ELSE <<Current, Taken + 1>>

(***************************************************************************)
(* The sender: only its last record can be in pieces, and then it sends no *)
(* more, because it has noticed or because nobody answers the first.  Each *)
(* number is the one before plus the length of that record; the first      *)
(* record does not count.                                                  *)
(***************************************************************************)
NumberAfter(k) == IF k <= 1 THEN 0 ELSE records[k].seq + Length(k)

SentInOrder ==
    /\ \A k \in DOMAIN records :
         /\ records[k].whole \/ (k = Len(records) /\ (txOk => k = 1))
         /\ records[k].seq = NumberAfter(k - 1)
    /\ txOk => egressSeq = NumberAfter(Len(records))
    /\ egress = "encrypted" => records # <<>>

(***************************************************************************)
(* The wire: every unit is one of a record, the last of a record only if   *)
(* that is whole; and behind a unit come the rest of its record and the    *)
(* first of the next.                                                      *)
(***************************************************************************)
OfRecord(k, i) ==
    /\ k \in DOMAIN records
    /\ i \in 1..Total(k)
    /\ i = Total(k) => records[k].whole

UnitsOfRecords == \A j \in DOMAIN wire : OfRecord(wire[j][1], wire[j][2])

Continues(k, i, m, unit) ==
    /\ i + m <= Total(k)    => unit = <<k, i + m>>
    /\ i + m = Total(k) + 1 => unit = <<k + 1, 1>>

Continuous ==
    \A j \in DOMAIN wire : \A m \in 1..(Len(wire) - j) :
        Continues(wire[j][1], wire[j][2], m, wire[j + m])

JoinsUp ==
    /\ wire # <<>> => wire[1] = NextUnit
    /\ txOk /\ LastIsWhole =>
               IF wire = <<>>
               THEN NextUnit = <<Len(records) + 1, 1>>
               ELSE wire[Len(wire)] = <<Len(records), Total(Len(records))>>

(***************************************************************************)
(* The receiver: what it has of the current record is the beginning of it, *)
(* it reads the first record, and no other, as plaintext, and its number   *)
(* is that of the current record or, when that is open, of the next.       *)
(***************************************************************************)
TakenInOrder ==
    /\ delivered = [i \in 1..Len(delivered) |-> i]
    /\ Len(delivered) <= Arriving
    /\ ingress = "encrypted" => delivered # <<>>
    /\ rxPc # "idle" => (ingress = "encrypted" <=> delivered # <<>>)
    /\ recPc # "none" => rxPc = "header" /\ ingress = "encrypted" /\ expected = Length(Current)
    /\ rxPc = "payload" => /\ ingress = "plaintext"
                           /\ Len(buffer) + expected = Length(Current)
                           /\ Header <= Len(buffer)
    /\ recPc # "none" \/ rxPc = "payload" =>
         /\ Current \in DOMAIN records
         /\ buffer = [i \in 1..Len(buffer) |-> <<Current, Overhead(Current) + i>>]
         /\ Len(buffer) <= Length(Current)
         /\ Len(buffer) = Length(Current) => records[Current].whole
    /\ recPc = "open" => Len(buffer) = Length(Current)

NumbersMatch ==
    ingressSeq = NumberAfter(IF recPc = "open" THEN Current ELSE Len(delivered))

(***************************************************************************)
(* The conjunction is inductive.  A receive that fails is the last one     *)
(* (channel.c:36-106, messages.c:52-97), so what it leaves behind is of no *)
(* consequence.                                                            *)
(***************************************************************************)
RecordsConsistent ==
    /\ RecordsTypeOK
    /\ SentInOrder
    /\ IF rxOk
       THEN /\ recPc # "stale"
            /\ UnitsOfRecords
            /\ Continuous
            /\ JoinsUp
            /\ TakenInOrder
            /\ NumbersMatch
       ELSE /\ rxPc = "idle"
            /\ delivered = [i \in 1..Len(delivered) |-> i]
            /\ Len(delivered) <= Arriving
=============================================================================
