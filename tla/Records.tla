------------------------------ MODULE Records -------------------------------
(***************************************************************************)
(* One direction of a channel: auntie_msg_send and auntie_msg_receive over *)
(* channel_egress and channel_ingress, over the host's send and recv on a  *)
(* TCP stream.  A message is a header and a payload.  The first, SYN or    *)
(* SYN/ACK, travels in plaintext; then each end calls channel_encrypt, and *)
(* every later message travels in a record of its own, behind an envelope, *)
(* sealed with the number of bytes sealed before it.                       *)
(*                                                                         *)
(* Bytes are counted in units; a unit on the wire is named by the record   *)
(* it belongs to and its place there.  recv returns what happens to have   *)
(* arrived, so it may end anywhere.                                        *)
(***************************************************************************)
EXTENDS Naturals, Sequences

CONSTANTS
    Envelope,   \* sizeof(struct envelope), in units
    Header,     \* sizeof(struct auntie_msg_hdr), in units
    Payloads,   \* the payload sizes considered
    MaxSends,   \* bound on the number of messages
    Mishaps     \* the kinds of misfortune a run considers

(***************************************************************************)
(* interrupt   a recv returns an error: SIGINT, a reset                    *)
(* short       a send writes a part of the message or nothing              *)
(* misreport   a send that wrote everything is reported as failed          *)
(* memory      a receive cannot allocate its record or its message         *)
(***************************************************************************)
MishapKinds == {"interrupt", "short", "misreport", "memory"}

ASSUME SizesAssumption ==
    /\ Envelope \in Nat \ {0}
    /\ Header \in Nat \ {0}
    /\ Payloads \subseteq Nat
    /\ MaxSends \in Nat
    /\ Mishaps \subseteq MishapKinds

VARIABLES
    egress,     \* channel->egress, at the sender
    records,    \* what was sent so far: [payload, seq, whole]
    egressSeq,  \* channel->egress_sequence
    txOk,       \* no send was reported as failed; the callers abort after one
    closed,     \* the sender's end of the connection is gone
    wire,       \* units sent and not received
    ingress,    \* channel->ingress, at the receiver
    ingressSeq, \* channel->ingress_sequence
    rxPc,       \* where auntie_msg_receive is
    rxOk,       \* no receive has failed; the contract aborts after one that did
    recPc,      \* the state of channel->message
    expected,   \* envelope.length
    buffer,     \* the units at channel->message, or the caller's when plain
    delivered   \* the messages returned, by number; Garbage if not a message

txVars == <<egress, records, egressSeq, txOk, closed>>
rxVars == <<ingress, ingressSeq, rxPc, rxOk, recPc, expected, buffer, delivered>>
recVars == <<txVars, wire, rxVars>>

Ways   == {"plaintext", "encrypted"}
RxPcs  == {"idle", "header", "payload"}
RecPcs == {"none", "reading", "open", "stale"}
Garbage == 0

Record == [payload : Payloads, seq : Nat, whole : BOOLEAN]
Unit   == Nat \X Nat

RecordsTypeOK ==
    /\ egress \in Ways
    /\ records \in Seq(Record)
    /\ Len(records) <= MaxSends
    /\ egressSeq \in Nat
    /\ txOk \in BOOLEAN
    /\ closed \in BOOLEAN
    /\ wire \in Seq(Unit)
    /\ ingress \in Ways
    /\ ingressSeq \in Nat
    /\ rxPc \in RxPcs
    /\ rxOk \in BOOLEAN
    /\ recPc \in RecPcs
    /\ expected \in Nat
    /\ buffer \in Seq(Unit)
    /\ delivered \in Seq(Nat)

RecordsInit ==
    /\ egress = "plaintext"
    /\ records = <<>>
    /\ egressSeq = 0
    /\ txOk = TRUE
    /\ closed = FALSE
    /\ wire = <<>>
    /\ ingress = "plaintext"
    /\ ingressSeq = 0
    /\ rxPc = "idle"
    /\ rxOk = TRUE
    /\ recPc = "none"
    /\ expected = 0
    /\ buffer = <<>>
    /\ delivered = <<>>

Least(a, b) == IF a < b THEN a ELSE b

(***************************************************************************)
(* The units of record k on the wire: envelope, header, payload.  The      *)
(* first is sent without an envelope.                                      *)
(***************************************************************************)
Overhead(k) == IF k = 1 THEN 0 ELSE Envelope
Length(k) == Header + records[k].payload
Units(k, size) == [i \in 1..(Overhead(k) + size) |-> <<k, i>>]
-----------------------------------------------------------------------------
(***************************************************************************)
(* auntie_msg_send.  A second message is not sent before the first has     *)
(* been answered, and then it is sealed (mutual_attestation of the two     *)
(* enclaves).  A complete write of a sealed message advances the sequence  *)
(* number; one that is not complete is reported as failed.  plaintext_     *)
(* egress returns what send returned, and auntie_msg_send takes any count  *)
(* for success: only an error, when nothing was written, is noticed.       *)
(***************************************************************************)
NotWaitingForAnAnswer ==
    /\ txOk /\ ~ closed
    /\ Len(records) < MaxSends
    /\ records # <<>> => egress = "encrypted"

MaySend ==
    /\ txOk /\ ~ closed
    /\ Len(records) < MaxSends
    /\ records # <<>> => egress = "encrypted" /\ delivered # <<>>

Add(payload, whole) ==
    records' = Append(records, [payload |-> payload, seq |-> egressSeq,
                                whole |-> whole])

ForgettingTheSequence(payload) ==
    LET k == Len(records) + 1
    IN  /\ MaySend
        /\ wire' = wire \o Units(k, Header + payload)
        /\ Add(payload, TRUE)
        /\ UNCHANGED <<egress, egressSeq, txOk, closed, rxVars>>

PassesForWhole(n) == egress = "plaintext" /\ n > 0

Send(payload) ==
    LET k == Len(records) + 1
        size == Header + payload
        units == Units(k, size)
    IN  /\ MaySend
        /\ \/ /\ wire' = wire \o units
              /\ Add(payload, TRUE)
              /\ egressSeq' = IF egress = "encrypted" THEN egressSeq + size ELSE egressSeq
              /\ UNCHANGED txOk
           \/ /\ "misreport" \in Mishaps
              /\ wire' = wire \o units
              /\ Add(payload, TRUE)
              /\ txOk' = FALSE
              /\ UNCHANGED egressSeq
           \/ /\ "short" \in Mishaps
              /\ \E n \in 0..(Len(units) - 1) :
                   /\ wire' = wire \o SubSeq(units, 1, n)
                   /\ txOk' = PassesForWhole(n)
              /\ Add(payload, FALSE)
              /\ UNCHANGED egressSeq
        /\ UNCHANGED <<egress, closed, rxVars>>

(***************************************************************************)
(* channel_encrypt, on the sender's end after its first message and on the *)
(* receiver's after it has received that.                                  *)
(***************************************************************************)
EncryptEgress ==
    /\ egress = "plaintext"
    /\ records # <<>> /\ txOk
    /\ egress' = "encrypted"
    /\ UNCHANGED <<records, egressSeq, txOk, closed, wire, rxVars>>

EncryptIngress ==
    /\ ingress = "plaintext"
    /\ delivered # <<>>
    /\ ingress' = "encrypted"
    /\ UNCHANGED <<txVars, wire, ingressSeq, rxPc, rxOk, recPc, expected, buffer, delivered>>

Close ==
    /\ ~ closed
    /\ closed' = TRUE
    /\ UNCHANGED <<egress, records, egressSeq, txOk, wire, rxVars>>
-----------------------------------------------------------------------------
(***************************************************************************)
(* recv of at most size units: some that have arrived.                     *)
(***************************************************************************)
Recv(size, n) == n \in 1..Least(size, Len(wire)) /\ wire' = SubSeq(wire, n + 1, Len(wire))

Got(n) == SubSeq(wire, 1, n)

(***************************************************************************)
(* A failing receive returns NULL and leaves the channel as it stands:     *)
(* what it has not taken of its record stays where the next read would     *)
(* find it, decrypted or not.  The callers abort instead of reading on.    *)
(***************************************************************************)
Fails(rec, left) ==
    /\ rxOk' = FALSE
    /\ rxPc' = "idle"
    /\ recPc' = rec
    /\ buffer' = left
    /\ UNCHANGED <<ingress, ingressSeq, expected, delivered>>

FailsHere == Fails(IF recPc = "reading" THEN "stale" ELSE recPc, buffer)

Returns(message) ==
    /\ rxPc' = "idle"
    /\ delivered' = Append(delivered, message)

(***************************************************************************)
(* A caller asks for a message; for a second one only when it has switched *)
(* to encryption.                                                          *)
(***************************************************************************)
Receive ==
    /\ rxOk
    /\ rxPc = "idle"
    /\ delivered # <<>> => ingress = "encrypted"
    /\ rxPc' = "header"
    /\ UNCHANGED <<txVars, wire, ingress, ingressSeq, rxOk, recPc, expected, buffer, delivered>>

(***************************************************************************)
(* The envelope must arrive in one piece, and so must the header of a      *)
(* plaintext message.                                                      *)
(***************************************************************************)
ReadEnvelope ==
    /\ ingress = "encrypted" /\ rxPc = "header" /\ recPc = "none"
    /\ \E n \in 1..Envelope :
         /\ Recv(Envelope, n)
         /\ \/ /\ n = Envelope
               /\ recPc' = "reading"
               /\ expected' = Length(Head(wire)[1])
               /\ buffer' = <<>>
               /\ UNCHANGED <<ingress, ingressSeq, rxPc, rxOk, delivered>>
            \/ /\ n < Envelope \/ "memory" \in Mishaps
               /\ FailsHere
    /\ UNCHANGED txVars

(***************************************************************************)
(* The rest of the record, in as many pieces as it takes.                  *)
(***************************************************************************)
EachPieceToTheStart ==
    /\ recPc = "reading" /\ rxPc = "header"
    /\ Len(buffer) < expected
    /\ \E n \in 1..(expected - Len(buffer)) :
         /\ Recv(expected - Len(buffer), n)
         /\ buffer' = Got(n)
    /\ UNCHANGED <<txVars, ingress, ingressSeq, rxPc, rxOk, recPc, expected, delivered>>

ReadRecord ==
    /\ recPc = "reading" /\ rxPc = "header"
    /\ Len(buffer) < expected
    /\ \E n \in 1..(expected - Len(buffer)) :
         /\ Recv(expected - Len(buffer), n)
         /\ buffer' = buffer \o Got(n)
    /\ UNCHANGED <<txVars, ingress, ingressSeq, rxPc, rxOk, recPc, expected, delivered>>

(***************************************************************************)
(* Decryption succeeds on the whole of one record that was sealed with the *)
(* sequence number the receiver has reached.                               *)
(***************************************************************************)
Authentic(k) ==
    /\ buffer = [i \in 1..Length(k) |-> <<k, Overhead(k) + i>>]
    /\ records[k].seq = ingressSeq

Decrypt ==
    /\ recPc = "reading" /\ rxPc = "header"
    /\ Len(buffer) = expected
    /\ IF \E k \in DOMAIN records : Authentic(k)
       THEN /\ recPc' = "open"
            /\ ingressSeq' = ingressSeq + expected
            /\ UNCHANGED <<ingress, rxPc, rxOk, expected, buffer, delivered>>
       ELSE FailsHere
    /\ UNCHANGED <<txVars, wire>>

(***************************************************************************)
(* Copy the header, then the payload the header announces, out of the      *)
(* record: it holds one message.  What a failed receive has left of one is *)
(* taken for a message too, if it is as long as a header.                  *)
(***************************************************************************)
Rest == SubSeq(buffer, Header + 1, Len(buffer))

CopyMessage ==
    /\ ingress = "encrypted" /\ rxPc = "header"
    /\ recPc \in {"open", "stale"}
    /\ \/ /\ Len(buffer) >= Header
          /\ Returns(IF recPc = "open" THEN buffer[1][1] ELSE Garbage)
          /\ recPc' = "none"
          /\ buffer' = <<>>
          /\ UNCHANGED <<ingress, ingressSeq, rxOk, expected>>
       \/ /\ Len(buffer) < Header \/ "memory" \in Mishaps
          /\ Fails(IF Rest = <<>> THEN "none" ELSE "stale", Rest)
    /\ UNCHANGED <<txVars, wire>>

(***************************************************************************)
(* Without encryption, header and payload are read straight from the wire. *)
(***************************************************************************)
ReadHeader ==
    /\ ingress = "plaintext" /\ rxPc = "header"
    /\ \E n \in 1..Header :
         /\ Recv(Header, n)
         /\ \/ /\ n = Header
               /\ rxPc' = "payload"
               /\ expected' = records[Head(wire)[1]].payload
               /\ buffer' = Got(n)
               /\ UNCHANGED <<ingress, ingressSeq, rxOk, recPc, delivered>>
            \/ /\ n < Header \/ "memory" \in Mishaps
               /\ FailsHere
    /\ UNCHANGED txVars

ReadPayload ==
    /\ rxPc = "payload"
    /\ \/ /\ expected > 0
          /\ \E n \in 1..expected :
               /\ Recv(expected, n)
               /\ expected' = expected - n
               /\ buffer' = buffer \o Got(n)
          /\ UNCHANGED <<rxPc, delivered>>
       \/ /\ expected = 0
          /\ Returns(IF \A i \in DOMAIN buffer : buffer[i] = <<buffer[1][1], i>>
                     THEN buffer[1][1] ELSE Garbage)
          /\ buffer' = <<>>
          /\ UNCHANGED <<wire, expected>>
    /\ UNCHANGED <<txVars, ingress, ingressSeq, rxOk, recPc>>

(***************************************************************************)
(* recv returns 0: the peer is gone and all it sent has been read.  The    *)
(* payload loop of auntie_msg_receive adds the 0 and asks again, so a      *)
(* plaintext payload has no such step.                                     *)
(***************************************************************************)
AtHeaderOnly == rxPc = "header" /\ recPc = "none"

BlocksInRecv ==
    \/ rxPc = "header" /\ recPc = "none"
    \/ rxPc = "header" /\ recPc = "reading" /\ Len(buffer) < expected

EndOfStream ==
    /\ closed /\ wire = <<>>
    /\ BlocksInRecv
    /\ FailsHere
    /\ UNCHANGED <<txVars, wire>>

(***************************************************************************)
(* recv reports an error, which every reader passes on.                    *)
(***************************************************************************)
Interrupted ==
    /\ "interrupt" \in Mishaps
    /\ BlocksInRecv \/ (rxPc = "payload" /\ expected > 0)
    /\ FailsHere
    /\ UNCHANGED <<txVars, wire>>

RxStep == \/ ReadEnvelope \/ ReadRecord \/ Decrypt \/ CopyMessage
          \/ ReadHeader \/ ReadPayload \/ EndOfStream

RecordsNext ==
    \/ \E payload \in Payloads : Send(payload)
    \/ EncryptEgress
    \/ Close
    \/ Receive
    \/ EncryptIngress
    \/ RxStep
    \/ Interrupted

RecordsSpec == RecordsInit /\ [][RecordsNext]_recVars

(***************************************************************************)
(* A receive that can go on does.  Nobody need send, or ask for a message. *)
(***************************************************************************)
FairRecords == RecordsSpec /\ WF_recVars(RxStep)
-----------------------------------------------------------------------------
(***************************************************************************)
(* The two sequence numbers agree whenever everything sent has been taken, *)
(* and until then the receiver's is that of the next record: neither a     *)
(* failed send nor a fragmented record gets them out of step (channel.c:90 *)
(* and 149).                                                               *)
(***************************************************************************)
InStep ==
    rxOk /\ recPc # "open" =>
        IF Len(delivered) < Len(records)
        THEN records[Len(delivered) + 1].seq = ingressSeq
        ELSE txOk => egressSeq = ingressSeq

(***************************************************************************)
(* The channel keeps the promise of Fifo, however the stream is cut up and *)
(* whatever fails (messages.c:45-97, channel.c:26-153).  For the first     *)
(* message that takes the protocol's help: a plaintext message of which a  *)
(* part is missing counts as sent, and is not followed by another only     *)
(* because the sender waits for the answer to it.                          *)
(***************************************************************************)
LastIsWhole == records = <<>> \/ records[Len(records)].whole

Arriving == IF LastIsWhole THEN Len(records) ELSE Len(records) - 1

Channel == INSTANCE Fifo WITH
    sends <- Len(records),
    queue <- [i \in 1..(Arriving - Len(delivered)) |-> Len(delivered) + i]

ImplementsFifo == Channel!Spec

(***************************************************************************)
(* An encrypted receive ends once the peer is gone, with a message or with *)
(* an error (channel.c:45-67): the callers count on it to abort the        *)
(* contract.                                                               *)
(***************************************************************************)
ReceiveReturns == (ingress = "encrypted" /\ rxPc # "idle" /\ closed) ~> (rxPc = "idle")

(***************************************************************************)
(* What the code and its comments disagree about: that a receive ends when *)
(* the stream does.  The comment for recv's 0, "on 0, return -ECONNRESET", *)
(* stands in encrypted_ingress (channel.c:47); the payload loop of a       *)
(* plaintext receive, which calls the same recv, has no such rule          *)
(* (messages.c:82-93).                                                     *)
(***************************************************************************)
EveryReceiveReturns == (rxPc # "idle" /\ closed) ~> (rxPc = "idle")
=============================================================================
