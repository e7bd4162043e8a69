------------------------------- MODULE Setup --------------------------------
(***************************************************************************)
(* How a contract comes to have its parties.  Clients are player processes *)
(* started with a player number (a seat), more of them than seats if need  *)
(* be.  The operator accepts one connection at a time, attests the client  *)
(* behind it, and once every seat is taken shows everybody all quotes,     *)
(* waits for every acknowledgement and announces that the contract is live.*)
(*                                                                         *)
(* A quote is identified by the client whose enclave it vouches for, and   *)
(* the key exchange inside SYN and SYNACK is left out.  Those two are sent *)
(* in plaintext: a part of one may be taken for the whole by its sender,   *)
(* and its reader waits for the rest without noticing the stream's end.    *)
(***************************************************************************)
EXTENDS Naturals, Sequences, FiniteSets

CONSTANTS
    NumPlayers,  \* AUNTIE_NUM_PLAYERS
    Clients,     \* the player processes that may be started
    NoClient,    \* players[i] is NULL
    Faults       \* the kinds of misfortune a run considers

Seats == 1..NumPlayers

(***************************************************************************)
(* leave    a party's process fails, is interrupted (SIGINT kills it: its  *)
(*          handler is installed only after the setup) or loses its        *)
(*          connection, and is gone                                        *)
(* attest   the operator's side of an attestation fails on its own account:*)
(*          the quoting enclave, the report, memory                        *)
(* present  the operator cannot write, allocate or send in present_quotes  *)
(* short    of a plaintext message a part is written, or arrives           *)
(***************************************************************************)
SetupFaultKinds == {"leave", "attest", "present", "short"}

ASSUME SeatsAssumption   == NumPlayers \in Nat \ {0}
ASSUME ClientsAssumption == NoClient \notin Clients
ASSUME SetupFaultsAssumption == Faults \subseteq SetupFaultKinds

VARIABLES
    opPc,     \* where the operator's process is
    opIdx,    \* the index i of present_quotes' current loop, from 1
    serving,  \* the client being attested, or NoClient
    players,  \* [Seats -> Clients \cup {NoClient}], players.c: players
    connected, \* players.c: players_connected
    clPc,     \* [Clients -> ClPcs], where the client's process is
    seat,     \* [Clients -> Seats], its player-id argument
    link,     \* [Clients -> Links], its connection on the operator's host
    up,       \* [Clients -> Seq(SetupMsg)], messages to the operator
    down,     \* [Clients -> Seq(SetupMsg)], messages to the client
    shown     \* [Clients -> SUBSET Clients], peers' quotes in its quotes-file

opSetupVars == <<opPc, opIdx, serving, players, connected, link>>
clSetupVars == <<clPc, seat, shown>>
setupVars   == <<opSetupVars, clSetupVars, up, down>>

PresentPcs == {"present", "broadcast", "collect", "notify"}
OpPcs == {"accept", "syn", "ack", "shell", "dead"} \cup PresentPcs
ClPcs == {"out", "synack", "quotes", "notice", "shell", "gone"}

(***************************************************************************)
(* none: not connected yet; queued: not accepted yet; open: known to the   *)
(* enclave; leaked: refused without being released; dropped: released by   *)
(* ocall_drop_connection.                                                  *)
(***************************************************************************)
Links == {"none", "queued", "open", "leaked", "dropped"}

NoQuotes == [i \in Seats |-> NoClient]
Cuts     == {"CUT_HEADER", "CUT_PAYLOAD"}
SetupMsg == [type : {"SYN", "SYNACK", "ACK", "QUOTES", "QUOTES_OK", "SETUP_COMPLETE"} \cup Cuts,
             quotes : [Seats -> Clients \cup {NoClient}]]
Msg(type) == [type |-> type, quotes |-> NoQuotes]
Quotes    == [type |-> "QUOTES", quotes |-> players]

SetupTypeOK ==
    /\ opPc \in OpPcs
    /\ opIdx \in Seats
    /\ serving \in Clients \cup {NoClient}
    /\ players \in [Seats -> Clients \cup {NoClient}]
    /\ connected \in 0..NumPlayers
    /\ clPc \in [Clients -> ClPcs]
    /\ seat \in [Clients -> Seats]
    /\ link \in [Clients -> Links]
    /\ up \in [Clients -> Seq(SetupMsg)]
    /\ down \in [Clients -> Seq(SetupMsg)]
    /\ shown \in [Clients -> SUBSET Clients]

SetupInit ==
    /\ opPc = "accept"
    /\ opIdx = 1
    /\ serving = NoClient
    /\ players = NoQuotes
    /\ connected = 0
    /\ clPc = [c \in Clients |-> "out"]
    /\ seat \in [Clients -> Seats]
    /\ link = [c \in Clients |-> "none"]
    /\ up = [c \in Clients |-> <<>>]
    /\ down = [c \in Clients |-> <<>>]
    /\ shown = [c \in Clients |-> {}]

Send(channel, c, m) == channel' = [channel EXCEPT ![c] = Append(@, m)]
Take(channel, c)    == channel' = [channel EXCEPT ![c] = Tail(@)]
HeadType(channel, c)   == Head(channel[c]).type

(***************************************************************************)
(* What there may be of a message sent in plaintext: all of it, a part of  *)
(* its header, or its header and a part of its payload.  The sender takes  *)
(* each for the whole.                                                     *)
(***************************************************************************)
Plaintext(type) == {Msg(type)} \cup {Msg(cut) : cut \in IF "short" \in Faults THEN Cuts ELSE {}}

Arrived(channel, c)  == channel[c] # <<>> /\ HeadType(channel, c) \notin Cuts
Cut(channel, c, cut) == channel[c] # <<>> /\ HeadType(channel, c) = cut

(***************************************************************************)
(* A receive fails when it gets less than a header, as it does at the end  *)
(* of the stream.  In the middle of a plaintext payload it does not: the   *)
(* end of the stream keeps it in its loop.                                 *)
(***************************************************************************)
ReceiveFails(channel, c, closed) ==
    \/ Cut(channel, c, "CUT_HEADER")
    \/ closed /\ ~ Cut(channel, c, "CUT_PAYLOAD")
-----------------------------------------------------------------------------
(***************************************************************************)
(* The player's process.  Every failure of its main ends in exit().        *)
(***************************************************************************)

(***************************************************************************)
(* Connect, and send SYN with the player number.                           *)
(***************************************************************************)
Connect(c) ==
    /\ clPc[c] = "out"
    /\ opPc # "dead"
    /\ clPc' = [clPc EXCEPT ![c] = "synack"]
    /\ link' = [link EXCEPT ![c] = "queued"]
    /\ \E syn \in Plaintext("SYN") : Send(up, c, syn)
    /\ UNCHANGED <<opPc, opIdx, serving, players, connected, seat, down, shown>>

(***************************************************************************)
(* Receive what the process waits for and go on, or exit over a wrong type.*)
(***************************************************************************)
ClReceive(c, pc, type, next) ==
    /\ clPc[c] = pc
    /\ Arrived(down, c)
    /\ Take(down, c)
    /\ clPc' = [clPc EXCEPT ![c] = IF HeadType(down, c) = type THEN next ELSE "gone"]
    /\ UNCHANGED <<opSetupVars, seat>>

(***************************************************************************)
(* SYNACK: keep the operator's quote, have one's own made, send ACK.       *)
(***************************************************************************)
ClAttest(c) ==
    /\ ClReceive(c, "synack", "SYNACK", "quotes")
    /\ IF HeadType(down, c) = "SYNACK" THEN Send(up, c, Msg("ACK")) ELSE UNCHANGED up
    /\ UNCHANGED shown

(***************************************************************************)
(* The broadcast: present every quote but the one at the own seat, and     *)
(* acknowledge.                                                            *)
(***************************************************************************)
AllButTheLastQuote(c) ==
    {Head(down[c]).quotes[i] : i \in Seats \ {seat[c], NumPlayers}}

QuotesAtOtherSeats(c) ==
    {Head(down[c]).quotes[i] : i \in Seats \ {seat[c]}}

ClPresentQuotes(c) ==
    /\ ClReceive(c, "quotes", "QUOTES", "notice")
    /\ IF HeadType(down, c) = "QUOTES"
       THEN /\ shown' = [shown EXCEPT ![c] = QuotesAtOtherSeats(c)]
            /\ Send(up, c, Msg("QUOTES_OK"))
       ELSE UNCHANGED <<shown, up>>

ClGoLive(c) ==
    /\ ClReceive(c, "notice", "SETUP_COMPLETE", "shell")
    /\ UNCHANGED <<up, shown>>

(***************************************************************************)
(* A receive fails, or anything else goes wrong.                           *)
(***************************************************************************)
ClGone(c) ==
    /\ clPc[c] \in {"synack", "quotes", "notice"}
    /\ clPc' = [clPc EXCEPT ![c] = "gone"]
    /\ UNCHANGED <<opSetupVars, up, down, seat, shown>>

ClExit(c)  == ReceiveFails(down, c, link[c] = "dropped" \/ opPc = "dead") /\ ClGone(c)
ClLeave(c) == "leave" \in Faults /\ ClGone(c)

ClProceeds(c) == ClAttest(c) \/ ClPresentQuotes(c) \/ ClGoLive(c) \/ ClExit(c)
-----------------------------------------------------------------------------
(***************************************************************************)
(* The operator's process: the accept loop of main, and under it           *)
(* ecall_connect_to_player.                                                *)
(***************************************************************************)
SeatFree(c) == players[seat[c]] = NoClient
AnySeat(c) == TRUE

PlayerIdOk(c) == SeatFree(c)

AllPlayersConnected == connected = NumPlayers

DropWithoutRelease ==
    /\ UNCHANGED link
    /\ serving' = NoClient
    /\ opPc' = "accept"

DropServing ==
    /\ link' = [link EXCEPT ![serving] = "dropped"]
    /\ serving' = NoClient
    /\ opPc' = "accept"

(***************************************************************************)
(* Accept a connection.  A full contract (EBUSY), or a quoting enclave     *)
(* that does not answer, ends the ECALL before it owns the connection.     *)
(***************************************************************************)
Accept(c) ==
    /\ opPc = "accept"
    /\ link[c] = "queued"
    /\ \/ /\ ~ AllPlayersConnected
          /\ link' = [link EXCEPT ![c] = "open"]
          /\ serving' = c
          /\ opPc' = "syn"
       \/ /\ AllPlayersConnected \/ "attest" \in Faults
          /\ link' = [link EXCEPT ![c] = "leaked"]
          /\ UNCHANGED <<serving, opPc>>
    /\ UNCHANGED <<opIdx, players, connected, up, down, clSetupVars>>

(***************************************************************************)
(* SYN: check the player number, have a quote made, send SYNACK.           *)
(***************************************************************************)
OpSyn ==
    /\ opPc = "syn"
    /\ Arrived(up, serving)
    /\ Take(up, serving)
    /\ IF HeadType(up, serving) = "SYN" /\ PlayerIdOk(serving)
       THEN /\ \E synack \in Plaintext("SYNACK") : Send(down, serving, synack)
            /\ opPc' = "ack"
            /\ UNCHANGED <<link, serving>>
       ELSE DropServing /\ UNCHANGED down
    /\ UNCHANGED <<opIdx, players, connected, clSetupVars>>

(***************************************************************************)
(* ACK: add_player.  Its assertion is not part of a default build, so it   *)
(* takes the seat whoever has it.                                          *)
(***************************************************************************)
OpAck ==
    /\ opPc = "ack"
    /\ Arrived(up, serving)
    /\ Take(up, serving)
    /\ IF HeadType(up, serving) = "ACK"
       THEN /\ players' = [players EXCEPT ![seat[serving]] = serving]
            /\ connected' = connected + 1
            /\ opPc' = IF AllPlayersConnected' THEN "present" ELSE "accept"
            /\ serving' = NoClient
            /\ UNCHANGED link
       ELSE DropServing /\ UNCHANGED <<players, connected>>
    /\ UNCHANGED <<opIdx, down, clSetupVars>>

(***************************************************************************)
(* The attestation fails and the connection is dropped: because a receive  *)
(* fails or the client is gone, or on the operator's own account, a read   *)
(* that is reset included.                                                 *)
(***************************************************************************)
NeverAtTheEnd(c) == ReceiveFails(up, c, FALSE)

EndOfStream(c) == ReceiveFails(up, c, clPc[c] = "gone")

DropConnection ==
    /\ opPc \in {"syn", "ack"}
    /\ DropServing
    /\ UNCHANGED <<opIdx, players, connected, up, down, clSetupVars>>

OpFindsClosed  == DropConnection /\ EndOfStream(serving)
OpAttestFails  == DropConnection /\ "attest" \in Faults

(***************************************************************************)
(* Two of the failure paths destroy a message a second time, the SYN when  *)
(* there is no report and the ACK when there is no player object: the      *)
(* allocator may notice and take the enclave down.                         *)
(***************************************************************************)
OpDestroysTwice ==
    /\ opPc \in {"syn", "ack"}
    /\ "attest" \in Faults
    /\ Arrived(up, serving)
    /\ HeadType(up, serving) = IF opPc = "syn" THEN "SYN" ELSE "ACK"
    /\ opPc = "syn" => PlayerIdOk(serving)
    /\ opPc' = "dead"
    /\ UNCHANGED <<opIdx, serving, players, connected, link, up, down, clSetupVars>>

(***************************************************************************)
(* present_quotes, whose loops go over the seats in order.                 *)
(***************************************************************************)
OneSeatTooFar(next) ==
    IF opIdx <= NumPlayers
    THEN opIdx' = opIdx + 1 /\ UNCHANGED opPc
    ELSE opIdx' = 1 /\ opPc' = next

OneSeatShort(next) ==
    IF opIdx + 1 < NumPlayers
    THEN opIdx' = opIdx + 1 /\ UNCHANGED opPc
    ELSE opIdx' = 1 /\ opPc' = next

NextSeat(next) ==
    IF opIdx < NumPlayers
    THEN opIdx' = opIdx + 1 /\ UNCHANGED opPc
    ELSE opIdx' = 1 /\ opPc' = next

(***************************************************************************)
(* When present_quotes fails no connection is dropped and no seat is freed,*)
(* and main goes back to accepting.                                        *)
(***************************************************************************)
BackToPresenting == opPc' = "present" /\ opIdx' = 1
BackToAccepting  == opPc' = "accept" /\ UNCHANGED opIdx

OpPrintQuotes ==
    /\ opPc = "present"
    /\ opPc' = "broadcast"
    /\ UNCHANGED <<opIdx, serving, players, connected, link, up, down, clSetupVars>>

OpBroadcast ==
    /\ opPc = "broadcast"
    /\ Send(down, players[opIdx], Quotes)
    /\ NextSeat("collect")
    /\ UNCHANGED <<serving, players, connected, link, up, clSetupVars>>

NotCollecting ==
    /\ opPc = "collect"
    /\ NextSeat("notify")
    /\ UNCHANGED <<serving, players, connected, link, up, down, clSetupVars>>

OpCollect ==
    /\ opPc = "collect"
    /\ up[players[opIdx]] # <<>>
    /\ Take(up, players[opIdx])
    /\ IF HeadType(up, players[opIdx]) = "QUOTES_OK"
       THEN NextSeat("notify")
       ELSE BackToAccepting
    /\ UNCHANGED <<serving, players, connected, link, down, clSetupVars>>

(***************************************************************************)
(* The last notification makes the accept loop's count complete, and main  *)
(* goes on to the shell.                                                   *)
(***************************************************************************)
OpNotify ==
    /\ opPc = "notify"
    /\ Send(down, players[opIdx], Msg("SETUP_COMPLETE"))
    /\ NextSeat("shell")
    /\ UNCHANGED <<serving, players, connected, link, up, clSetupVars>>

(***************************************************************************)
(* A player is found to be gone, or something fails that need not.         *)
(***************************************************************************)
OpFindsPlayerGone ==
    /\ opPc \in PresentPcs \ {"present"}
    /\ EndOfStream(players[opIdx])
    /\ BackToAccepting
    /\ UNCHANGED <<serving, players, connected, link, up, down, clSetupVars>>

OpPresentFails ==
    /\ opPc \in PresentPcs
    /\ "present" \in Faults
    /\ BackToAccepting
    /\ UNCHANGED <<serving, players, connected, link, up, down, clSetupVars>>

(***************************************************************************)
(* The operator's process is interrupted or killed before its shell runs,  *)
(* and every connection with it.                                           *)
(***************************************************************************)
OpLeaves ==
    /\ opPc \in {"accept", "syn", "ack"} \cup PresentPcs
    /\ "leave" \in Faults
    /\ opPc' = "dead"
    /\ UNCHANGED <<opIdx, serving, players, connected, link, up, down, clSetupVars>>

OpServes    == OpSyn \/ OpAck \/ OpFindsClosed
OpPresents  == OpPrintQuotes \/ OpBroadcast \/ OpCollect \/ OpNotify \/ OpFindsPlayerGone

SetupNext ==
    \/ \E c \in Clients : Connect(c) \/ ClProceeds(c) \/ ClLeave(c) \/ Accept(c)
    \/ OpServes \/ OpAttestFails \/ OpDestroysTwice
    \/ OpPresents \/ OpPresentFails \/ OpLeaves

SetupSpec == SetupInit /\ [][SetupNext]_setupVars

(***************************************************************************)
(* Everyone that can move does, every client is started, and accept serves *)
(* every connection in the backlog in turn.  Nobody has to leave, and what *)
(* may fail for no reason of the protocol's does not have to.              *)
(***************************************************************************)
SetupFairness ==
    /\ WF_setupVars(OpServes)
    /\ WF_setupVars(OpPresents)
    /\ \A c \in Clients : /\ WF_setupVars(Connect(c))
                          /\ WF_setupVars(ClProceeds(c))
                          /\ SF_setupVars(Accept(c))

FairSetup == SetupSpec /\ SetupFairness
-----------------------------------------------------------------------------
(***************************************************************************)
(* Whoever reaches its shell belongs to a contract in which every party    *)
(* holds the quotes of all the others, and of the same others: what        *)
(* setup.c:91 prints and the README promises of the quotes-files.  The     *)
(* notification is sent only after the last acknowledgement (players.c:108).*)
(***************************************************************************)
Informed(c) ==
    /\ clPc[c] \in {"notice", "shell", "gone"}
    /\ shown[c] = {players[i] : i \in Seats} \ {c}

Live == \A i \in Seats : players[i] # NoClient /\ Informed(players[i])

LiveForAll == (opPc = "shell" \/ \E c \in Clients : clPc[c] = "shell") => Live

(***************************************************************************)
(* players_connected counts the seats that are taken, so that whoever finds*)
(* all players connected may dereference every players[i] (players.c:44    *)
(* and all that follows).  add_player overwrites and counts without        *)
(* looking; that no seat is taken twice rests on the check of the SYN      *)
(* (mutual_attestation.c:100) and on one client being attested at a time.  *)
(***************************************************************************)
SeatsTaken == {i \in Seats : players[i] # NoClient}

Counted == connected = Cardinality(SeatsTaken)

SeatsCounted ==
    /\ Counted
    /\ opPc \in PresentPcs \cup {"shell"} => SeatsTaken = Seats

(***************************************************************************)
(* Whoever receives finds the type it expects at the head of its channel,  *)
(* so no type check of the setup ever rejects a client that is itself; and *)
(* only a SYN and a SYNACK may be cut.                                     *)
(***************************************************************************)
Expects(channel, c, types) == channel[c] # <<>> => HeadType(channel, c) \in types

SetupInOrder ==
    /\ opPc = "syn" => Expects(up, serving, {"SYN"} \cup Cuts)
    /\ opPc = "ack" => Expects(up, serving, {"ACK"})
    /\ opPc = "collect" => Expects(up, players[opIdx], {"QUOTES_OK"})
    /\ \A c \in Clients :
         /\ clPc[c] = "synack" => Expects(down, c, {"SYNACK"} \cup Cuts)
         /\ clPc[c] = "quotes" => Expects(down, c, {"QUOTES"})
         /\ clPc[c] = "notice" => Expects(down, c, {"SETUP_COMPLETE"})

(***************************************************************************)
(* When the shells take over, no message of the setup is left on a channel *)
(* for the contract to stumble over: the player has taken its notification *)
(* (player setup.c:84) and the operator every acknowledgement              *)
(* (players.c:86-105).                                                     *)
(***************************************************************************)
HandoverClean ==
    /\ \A c \in Clients : clPc[c] = "shell" => down[c] = <<>>
    /\ opPc = "shell" => \A i \in Seats : up[players[i]] = <<>>

(***************************************************************************)
(* With every seat wanted by someone and nothing that fails, the contract  *)
(* goes live, also when clients compete for a seat or come too late        *)
(* (operator main.c:293).  A client that is turned away leaves, and no     *)
(* client is turned away whose seat is free.                               *)
(***************************************************************************)
NothingFails ==
    /\ opPc # "dead"
    /\ ~ (opPc = "accept" /\ AllPlayersConnected)
    /\ \A c \in Clients :
         /\ link[c] # "leaked"
         /\ ~ Cut(up, c, "CUT_PAYLOAD") /\ ~ Cut(down, c, "CUT_PAYLOAD")
         /\ link[c] = "dropped" => players[seat[c]] \notin {NoClient, c}
         /\ clPc[c] = "gone" => link[c] = "dropped"

SetupCompletes ==
    (\A i \in Seats : \E c \in Clients : seat[c] = i) /\ []NothingFails
        => <>(opPc = "shell" /\ \A i \in Seats : clPc[players[i]] = "shell")

(***************************************************************************)
(* A client that leaves in the middle of its attestation does not keep the *)
(* operator from the others, wherever the two are (channel.c:45-67,        *)
(* messages.c:59-65).  One does of whose SYN a part of the payload is      *)
(* missing, and one that waits for the rest of its SYNACK: the read ends   *)
(* neither with the message nor with the stream (messages.c:82-93).        *)
(***************************************************************************)
Stranded(c) ==
    \/ Cut(up, c, "CUT_PAYLOAD")
    \/ clPc[c] = "synack" /\ Cut(down, c, "CUT_PAYLOAD")

AcceptLoopMovesOn ==
    (opPc \in {"syn", "ack"}) ~> (opPc \notin {"syn", "ack"} \/ Stranded(serving))

(***************************************************************************)
(* The setup is the abstract agreement: quotes-files and seats as above,   *)
(* and whoever is in its shell has started, also when others left or the   *)
(* operator abandoned present_quotes (players.c:60-121, setup.c:59-91).    *)
(***************************************************************************)
Promise == INSTANCE Agreement WITH
    roster  <- players,
    view    <- [i \in Seats |-> IF players[i] = NoClient THEN {} ELSE shown[players[i]]],
    started <- {c \in Clients : clPc[c] = "shell"},
    opened  <- opPc = "shell"

ImplementsAgreement == Promise!Spec

(***************************************************************************)
(* What the code and its comments disagree about.                          *)
(*                                                                         *)
(* A connection that could not be made into a channel is released          *)
(* ("connection has been released in ocall_drop_connection",               *)
(* operator/untrusted/main.c:124).                                         *)
(***************************************************************************)
ConnectionReleased == \A c \in Clients : link[c] # "leaked"
=============================================================================
