---------------------------- MODULE SetupProofs ----------------------------
(***************************************************************************)
(* Proofs about the setup, for every number of seats, every set of clients *)
(* and every combination of faults.                                        *)
(***************************************************************************)
EXTENDS SetupInductive, SequenceTheorems, FiniteSetTheorems, TLAPS

(***************************************************************************)
(* Channels hold no message or one.                                        *)
(***************************************************************************)
LEMMA OneMessage ==
    ASSUME NEW m
    PROVE  /\ Append(<<>>, m) = <<m>>
           /\ Head(<<m>>) = m
           /\ Tail(<<m>>) = <<>>
           /\ <<m>> # <<>>
  OBVIOUS

LEMMA MessageKinds ==
    ASSUME SetupTypeOK
    PROVE  /\ \A type \in {"SYN", "SYNACK", "ACK", "QUOTES_OK", "SETUP_COMPLETE"} \cup Cuts :
                Msg(type) \in SetupMsg /\ Msg(type).type = type
           /\ Quotes \in SetupMsg
           /\ Quotes.type = "QUOTES"
           /\ Quotes.quotes = players
  BY DEF SetupTypeOK, SetupMsg, Msg, NoQuotes, Quotes, Cuts

(***************************************************************************)
(* A message sent in plaintext is whole or cut; what arrives is whole.     *)
(***************************************************************************)
LEMMA PlaintextKinds ==
    ASSUME SetupTypeOK, NEW type \in {"SYN", "SYNACK"}, NEW m \in Plaintext(type)
    PROVE  /\ m \in SetupMsg
           /\ m.type \in {type} \cup Cuts
           /\ type \notin Cuts
<1>1. m = Msg(type) \/ \E cut \in Cuts : m = Msg(cut)
  BY DEF Plaintext
<1>2. type \notin Cuts
  BY DEF Cuts
<1> QED  BY <1>1, <1>2, MessageKinds

LEMMA ArrivesWhole ==
    ASSUME SetupTypeOK, NEW channel, NEW c, NEW type \in {"SYN", "SYNACK"},
           NEW m \in Plaintext(type), channel[c] = <<m>>, Arrived(channel, c)
    PROVE  HeadType(channel, c) = type
<1>1. HeadType(channel, c) = m.type
  BY OneMessage DEF HeadType
<1> QED  BY <1>1, PlaintextKinds DEF Arrived

(***************************************************************************)
(* The count says whether every seat is taken.                             *)
(***************************************************************************)
LEMMA CountTells ==
    ASSUME NEW S \in SUBSET Seats
    PROVE  /\ IsFiniteSet(S)
           /\ Cardinality(S) \in 0..NumPlayers
           /\ Cardinality(S) = NumPlayers <=> S = Seats
<1>1. IsFiniteSet(Seats) /\ Cardinality(Seats) = NumPlayers
  BY SeatsAssumption, FS_Interval DEF Seats
<1>2. /\ IsFiniteSet(S)
      /\ Cardinality(S) <= Cardinality(Seats)
      /\ Cardinality(Seats) = Cardinality(S) => Seats = S
  BY <1>1, FS_Subset
<1>3. Cardinality(S) \in Nat
  BY <1>2, FS_CardinalityType
<1> QED  BY <1>1, <1>2, <1>3, SeatsAssumption

LEMMA AllConnected ==
    ASSUME Counted
    PROVE  AllPlayersConnected <=> AllSeatsTaken
<1>1. SeatsTaken \in SUBSET Seats
  BY DEF SeatsTaken
<1>2. Cardinality(SeatsTaken) = NumPlayers <=> SeatsTaken = Seats
  BY <1>1, CountTells
<1> QED  BY <1>2 DEF Counted, AllPlayersConnected, AllSeatsTaken, SeatsTaken

LEMMA CountKept ==
    ASSUME Counted, UNCHANGED <<players, connected>>
    PROVE  Counted'
  BY DEF Counted, SeatsTaken

LEMMA SeatsOrder == 1 \in Seats /\ NumPlayers \in Seats /\ Seats \subseteq Nat
  BY SeatsAssumption DEF Seats

LEMMA NextSeatType ==
    ASSUME SetupTypeOK, NEW next, NextSeat(next)
    PROVE  opIdx' \in Seats /\ opPc' \in {opPc, next}
  BY SeatsAssumption DEF SetupTypeOK, NextSeat, Seats

LEMMA SendType ==
    ASSUME SetupTypeOK, NEW c \in Clients, NEW m \in SetupMsg
    PROVE  /\ Send(up, c, m) => up' \in [Clients -> Seq(SetupMsg)]
           /\ Send(down, c, m) => down' \in [Clients -> Seq(SetupMsg)]
<1>1. Append(up[c], m) \in Seq(SetupMsg) /\ Append(down[c], m) \in Seq(SetupMsg)
  BY AppendProperties DEF SetupTypeOK
<1> QED  BY <1>1 DEF SetupTypeOK, Send

LEMMA TakeType ==
    ASSUME SetupTypeOK, NEW c \in Clients
    PROVE  /\ Take(up, c) /\ up[c] # <<>> => up' \in [Clients -> Seq(SetupMsg)]
           /\ Take(down, c) /\ down[c] # <<>> => down' \in [Clients -> Seq(SetupMsg)]
           /\ down[c] # <<>> => Head(down[c]) \in SetupMsg
<1>1. /\ up[c] # <<>> => Tail(up[c]) \in Seq(SetupMsg)
      /\ down[c] # <<>> => Tail(down[c]) \in Seq(SetupMsg) /\ Head(down[c]) \in SetupMsg
  BY HeadTailProperties DEF SetupTypeOK
<1> QED  BY <1>1 DEF SetupTypeOK, Take

-----------------------------------------------------------------------------
(***************************************************************************)
(* What a step leaves of a client, and what that means for its stage.      *)
(***************************************************************************)
Unmoved(c) == /\ clPc'[c] = clPc[c]
              /\ link'[c] = link[c]
              /\ up'[c] = up[c]
              /\ down'[c] = down[c]
              /\ shown'[c] = shown[c]

StageKept(c) ==
    /\ NotStarted(c) => NotStarted(c)'
    /\ SynSent(c) => SynSent(c)'
    /\ Attesting(c) => Attesting(c)'
    /\ TurnedAway(c) => TurnedAway(c)'
    /\ Registered(c) => Registered(c)'
    /\ AllSeatsTaken /\ HasSeat(c) /\ Presented(c) => Presented(c)'
    /\ Acknowledged(c) => Acknowledged(c)'
    /\ Notified(c) => Notified(c)'
    /\ ~ HasSeat(c) => shown'[c] = shown[c]

LEMMA UnmovedKeepsStage ==
    ASSUME NEW c \in Clients, Unmoved(c), players' = players
    PROVE  StageKept(c)
  BY DEF Unmoved, StageKept, NotStarted, SynSent, Attesting, TurnedAway, Registered,
         Presented, Acknowledged, Notified, At, HasAllQuotes, Quotes

LEMMA SeatedClient ==
    ASSUME SetupConsistent, NEW i \in Seats, players[i] # NoClient
    PROVE  /\ players[i] \in Clients
           /\ \/ Registered(players[i]) \/ Presented(players[i])
              \/ Acknowledged(players[i]) \/ Notified(players[i])
<1>1. players[i] \in Clients /\ opPc \in OpPcs
  BY DEF SetupConsistent, SetupTypeOK
<1>2. CASE ~ AllSeatsTaken
  BY <1>1, <1>2 DEF SetupConsistent, Presenting
<1>3. CASE AllSeatsTaken
  BY <1>1, <1>3
  DEF SetupConsistent, Presenting, OneAtATime, OpPcs, PresentPcs
<1> QED  BY <1>1, <1>2, <1>3

(***************************************************************************)
(* A client's steps change what it waits for and what is under way, never  *)
(* the stage of the conversation, which is the operator's to move.         *)
(***************************************************************************)
LEMMA AllSetQuotes ==
    ASSUME SetupConsistent, AllSeatsTaken, NEW c \in Clients, HasSeat(c)
    PROVE  {players[i] : i \in Seats \ {seat[c]}} = {players[i] : i \in Seats} \ {c}
  BY DEF SetupConsistent, OwnSeats, AllSeatsTaken, HasSeat

LEMMA PresentedOnly ==
    ASSUME SetupConsistent, NEW c \in Clients, clPc[c] = "quotes", down[c] # <<>>
    PROVE  down[c] = <<Quotes>> /\ AllSeatsTaken /\ HasSeat(c)
<1>1. HasSeat(c)
  BY DEF SetupConsistent, Lobby, NotStarted, SynSent, Attesting, TurnedAway, At
<1>2. seat[c] \in Seats /\ c # NoClient
  BY ClientsAssumption DEF SetupConsistent, SetupTypeOK
<1>3. AllSeatsTaken
  BY <1>1, <1>2 DEF SetupConsistent, Presenting, Registered, At, HasSeat
<1>4. Presented(c)
  BY <1>1, <1>2, SeatedClient DEF HasSeat, Registered, Acknowledged, Notified, At
<1> QED  BY <1>1, <1>3, <1>4 DEF Presented, At

LEMMA ClientMovesOn ==
    ASSUME SetupConsistent, NEW c \in Clients, ClProceeds(c) \/ ClLeave(c)
    PROVE  /\ SetupTypeOK'
           /\ \A d \in Clients : StageKept(d)
<1>0. SetupTypeOK /\ players' = players /\ seat' = seat /\ link' = link
  BY DEF SetupConsistent, ClProceeds, ClLeave, ClExit, ClGone, ClAttest,
         ClPresentQuotes, ClGoLive, ClReceive, opSetupVars
<1>1. CASE ClAttest(c)
  <2>1. SetupTypeOK'
    BY <1>0, <1>1, TakeType, SendType, MessageKinds
    DEF ClAttest, ClReceive, Arrived, SetupTypeOK, ClPcs, opSetupVars
  <2>2. \A d \in Clients \ {c} : Unmoved(d)
    BY <1>0, <1>1 DEF ClAttest, ClReceive, Take, Send, Unmoved, SetupTypeOK
  <2>3. StageKept(c)
    <3>1. /\ clPc[c] = "synack" /\ down[c] # <<>> /\ Arrived(down, c)
          /\ down'[c] = Tail(down[c])
          /\ clPc'[c] = IF HeadType(down, c) = "SYNACK" THEN "quotes" ELSE "gone"
          /\ up'[c] = IF HeadType(down, c) = "SYNACK" THEN Append(up[c], Msg("ACK")) ELSE up[c]
          /\ shown'[c] = shown[c] /\ link'[c] = link[c]
      BY <1>0, <1>1 DEF ClAttest, ClReceive, Arrived, Take, Send, SetupTypeOK
    <3>2. /\ ~ NotStarted(c) /\ ~ SynSent(c) /\ ~ TurnedAway(c)
          /\ ~ Registered(c) /\ ~ Acknowledged(c)
      BY <3>1 DEF NotStarted, SynSent, TurnedAway, Registered, Acknowledged, At
    <3>3. ~ Presented(c) /\ ~ Notified(c)
      BY <3>1 DEF Presented, Notified, At
    <3>4. ASSUME Attesting(c)
          PROVE  Attesting(c)'
      <4>1. PICK synack \in Plaintext("SYNACK") :
              /\ up[c] = <<>> /\ down[c] = <<synack>>
              /\ link[c] \in {"open", "dropped"}
        BY <3>1, <3>4 DEF Attesting, At
      <4>2. HeadType(down, c) = "SYNACK"
        BY <1>0, <3>1, <4>1, ArrivesWhole
      <4>3. clPc'[c] = "quotes" /\ up'[c] = <<Msg("ACK")>> /\ down'[c] = <<>>
        BY <3>1, <4>1, <4>2, OneMessage
      <4> QED  BY <3>1, <4>1, <4>3 DEF Attesting, At, Msg, NoQuotes
    <3> QED  BY <3>1, <3>2, <3>3, <3>4 DEF StageKept
  <2> QED  BY <1>0, <2>1, <2>2, <2>3, UnmovedKeepsStage
<1>2. CASE ClPresentQuotes(c)
  <2>a. Head(down[c]) = Quotes /\ AllSeatsTaken /\ HasSeat(c)
    BY <1>2, PresentedOnly, OneMessage DEF ClPresentQuotes, ClReceive, Arrived
  <2>b. QuotesAtOtherSeats(c) \in SUBSET Clients
    <3>1. Head(down[c]).quotes = players
      BY <1>0, <2>a, MessageKinds
    <3>2. \A i \in Seats : players[i] \in Clients
      BY <1>0, <2>a DEF AllSeatsTaken, SetupTypeOK
    <3>3. QuotesAtOtherSeats(c) = {players[i] : i \in Seats \ {seat[c]}}
      BY <3>1 DEF QuotesAtOtherSeats
    <3> QED  BY <3>2, <3>3
  <2>1. SetupTypeOK'
    <3>1. shown' \in [Clients -> SUBSET Clients]
      BY <1>0, <1>2, <2>b DEF ClPresentQuotes, SetupTypeOK
    <3> QED
      BY <1>0, <1>2, <3>1, TakeType, SendType, MessageKinds
      DEF ClPresentQuotes, ClReceive, Arrived, SetupTypeOK, ClPcs, opSetupVars
  <2>2. \A d \in Clients \ {c} : Unmoved(d)
    BY <1>0, <1>2 DEF ClPresentQuotes, ClReceive, Take, Send, Unmoved, SetupTypeOK
  <2>3. clPc[c] = "quotes" /\ down[c] # <<>> /\ shown' \in [Clients -> SUBSET Clients]
    BY <1>2, <2>1 DEF ClPresentQuotes, ClReceive, Arrived, SetupTypeOK
  <2>4. ASSUME AllSeatsTaken, HasSeat(c), Presented(c)
        PROVE  Presented(c)'
    <3>1. up[c] = <<>> /\ down[c] = <<Quotes>>
      BY <2>3, <2>4 DEF Presented, At
    <3>2. HeadType(down, c) = "QUOTES" /\ Head(down[c]).quotes = players
      BY <1>0, <3>1, OneMessage, MessageKinds DEF HeadType
    <3>3. /\ clPc'[c] = "notice"
          /\ up'[c] = <<Msg("QUOTES_OK")>>
          /\ down'[c] = <<>>
          /\ shown'[c] = {players[i] : i \in Seats \ {seat[c]}}
      BY <1>0, <1>2, <3>1, <3>2, OneMessage
      DEF ClPresentQuotes, ClReceive, Take, Send, QuotesAtOtherSeats, SetupTypeOK
    <3> QED
      BY <1>0, <2>4, <3>3, AllSetQuotes DEF Presented, At, HasAllQuotes
  <2>5. StageKept(c)
    BY <2>a, <2>3, <2>4
    DEF StageKept, NotStarted, SynSent, Attesting, TurnedAway, Registered,
        Acknowledged, Notified, At
  <2> QED  BY <1>0, <2>1, <2>2, <2>5, UnmovedKeepsStage
<1>3. CASE ClGoLive(c)
  <2>1. SetupTypeOK'
    BY <1>0, <1>3, TakeType
    DEF ClGoLive, ClReceive, Arrived, SetupTypeOK, ClPcs, opSetupVars
  <2>2. \A d \in Clients \ {c} : Unmoved(d)
    BY <1>0, <1>3 DEF ClGoLive, ClReceive, Take, Unmoved, SetupTypeOK
  <2>3. StageKept(c)
    <3>1. /\ clPc[c] = "notice" /\ down[c] # <<>>
          /\ down'[c] = Tail(down[c])
          /\ clPc'[c] = IF HeadType(down, c) = "SETUP_COMPLETE" THEN "shell" ELSE "gone"
          /\ up'[c] = up[c] /\ shown' = shown
      BY <1>0, <1>3 DEF ClGoLive, ClReceive, Arrived, Take, SetupTypeOK
    <3>2. /\ ~ NotStarted(c) /\ ~ SynSent(c) /\ ~ Attesting(c) /\ ~ TurnedAway(c)
          /\ ~ Registered(c) /\ ~ Presented(c) /\ ~ Acknowledged(c)
      BY <3>1
      DEF NotStarted, SynSent, Attesting, TurnedAway, Registered, Presented,
          Acknowledged, At
    <3>3. ASSUME Notified(c)
          PROVE  Notified(c)'
      <4>1. up[c] = <<>> /\ down[c] = <<Msg("SETUP_COMPLETE")>> /\ HasAllQuotes(c)
        BY <3>1, <3>3 DEF Notified, At
      <4>2. HeadType(down, c) = "SETUP_COMPLETE"
        BY <1>0, <4>1, OneMessage, MessageKinds DEF HeadType
      <4>3. clPc'[c] = "shell" /\ up'[c] = <<>> /\ down'[c] = <<>>
        BY <3>1, <4>1, <4>2, OneMessage
      <4> QED  BY <1>0, <3>1, <4>1, <4>3 DEF Notified, At, HasAllQuotes
    <3> QED  BY <3>1, <3>2, <3>3 DEF StageKept
  <2> QED  BY <1>0, <2>1, <2>2, <2>3, UnmovedKeepsStage
<1>4. CASE ClGone(c)
  <2>1. SetupTypeOK'
    BY <1>0, <1>4 DEF ClGone, SetupTypeOK, ClPcs, opSetupVars
  <2>2. \A d \in Clients \ {c} : Unmoved(d)
    BY <1>0, <1>4 DEF ClGone, Unmoved, SetupTypeOK
  <2>3. StageKept(c)
    BY <1>0, <1>4
    DEF ClGone, SetupTypeOK, StageKept, NotStarted, SynSent, Attesting, TurnedAway,
        Registered, Presented, Acknowledged, Notified, At, HasAllQuotes, Quotes
  <2> QED  BY <1>0, <2>1, <2>2, <2>3, UnmovedKeepsStage
<1> QED
  BY <1>1, <1>2, <1>3, <1>4 DEF ClProceeds, ClLeave, ClExit

LEMMA StagesKept ==
    ASSUME SetupConsistent, SetupTypeOK', UNCHANGED opSetupVars, seat' = seat,
           \A d \in Clients : StageKept(d)
    PROVE  SetupConsistent'
<1>3. AllSeatsTaken' <=> AllSeatsTaken
  BY DEF AllSeatsTaken, opSetupVars
<1>4. OneAtATime'
  BY <1>3
  DEF SetupConsistent, OneAtATime, StageKept, HasSeat, SeatFree, opSetupVars
<1>5. Lobby'
  BY DEF SetupConsistent, Lobby, StageKept, HasSeat, opSetupVars
<1>6. OwnSeats'
  BY DEF SetupConsistent, OwnSeats, opSetupVars
<1>7. Presenting'
  <2>1. ASSUME NEW i \in Seats, players[i] # NoClient
        PROVE  /\ Registered(players[i]) => Registered(players[i])'
               /\ AllSeatsTaken =>
                    (Presented(players[i]) => Presented(players[i])')
               /\ Acknowledged(players[i]) => Acknowledged(players[i])'
               /\ Notified(players[i]) => Notified(players[i])'
    <3>1. players[i] \in Clients /\ HasSeat(players[i])
      BY <2>1 DEF SetupConsistent, SetupTypeOK, OwnSeats, HasSeat
    <3>2. players'[i] = players[i]
      BY DEF opSetupVars
    <3> DEFINE d == players[i]
    <3>3. StageKept(d)
      BY <3>1
    <3> QED  BY <3>1, <3>2, <3>3 DEF StageKept
  <2> QED
    BY <1>3, <2>1
    DEF SetupConsistent, Presenting, AllSeatsTaken, opSetupVars, PresentPcs
<1>8. Counted'
  BY CountKept DEF SetupConsistent, opSetupVars
<1> QED  BY <1>4, <1>5, <1>6, <1>7, <1>8 DEF SetupConsistent

LEMMA ClientStep ==
    ASSUME SetupConsistent, NEW c \in Clients, ClProceeds(c) \/ ClLeave(c)
    PROVE  SetupConsistent'
<1>1. UNCHANGED opSetupVars /\ seat' = seat
  BY DEF ClProceeds, ClLeave, ClExit, ClGone, ClAttest, ClPresentQuotes, ClGoLive,
         ClReceive
<1> QED  BY <1>1, ClientMovesOn, StagesKept

(***************************************************************************)
(* The operator and the clients without a seat: nothing that is shown or   *)
(* acknowledged depends on them.                                           *)
(***************************************************************************)
LEMMA LobbyStep ==
    ASSUME SetupConsistent, NEW c \in Clients, ~ HasSeat(c),
           SetupTypeOK', UNCHANGED <<players, connected, seat, opIdx, shown>>,
           \A d \in Clients \ {c} : Unmoved(d),
           \/ opPc' = opPc
           \/ {opPc, opPc'} \subseteq {"accept", "syn", "ack"} /\ ~ AllSeatsTaken,
           \/ SynSent(c)' \/ Attesting(c)' \/ TurnedAway(c)',
           link'[c] \in {"queued", "leaked"} => SynSent(c)',
           OneAtATime'
    PROVE  SetupConsistent'
<1>1. \A d \in Clients \ {c} : StageKept(d) /\ link'[d] = link[d]
  BY UnmovedKeepsStage DEF Unmoved
<1>2. Lobby'
  BY <1>1 DEF SetupConsistent, Lobby, StageKept, HasSeat
<1>3. \A i \in Seats : players[i] # NoClient => players[i] \in Clients \ {c} /\ HasSeat(players[i])
  BY DEF SetupConsistent, SetupTypeOK, OwnSeats, HasSeat
<1>4. OwnSeats'
  BY <1>1, <1>3 DEF SetupConsistent, OwnSeats
<1>5. AllSeatsTaken' <=> AllSeatsTaken
  BY DEF AllSeatsTaken
<1>6. ASSUME NEW i \in Seats, players[i] # NoClient
      PROVE  /\ Registered(players[i]) => Registered(players[i])'
             /\ AllSeatsTaken => (Presented(players[i]) => Presented(players[i])')
             /\ Acknowledged(players[i]) => Acknowledged(players[i])'
             /\ Notified(players[i]) => Notified(players[i])'
  BY <1>1, <1>3, <1>6 DEF StageKept
<1>7. Presenting'
  BY <1>5, <1>6 DEF SetupConsistent, Presenting, AllSeatsTaken, PresentPcs
<1> QED  BY <1>2, <1>4, <1>7, CountKept DEF SetupConsistent

LEMMA ConnectStep ==
    ASSUME SetupConsistent, NEW c \in Clients, Connect(c)
    PROVE  SetupConsistent'
<1>0. SetupTypeOK /\ c # NoClient /\ seat[c] \in Seats
  BY ClientsAssumption DEF SetupConsistent, SetupTypeOK
<1>1. ~ HasSeat(c)
  BY <1>0, SeatedClient
  DEF Connect, HasSeat, Registered, Presented, Acknowledged, Notified, At
<1>2. NotStarted(c)
  BY <1>1 DEF SetupConsistent, Lobby, Connect, SynSent, Attesting, TurnedAway, At
<1>s. PICK syn \in Plaintext("SYN") : Send(up, c, syn)
  BY DEF Connect
<1>3. SetupTypeOK'
  BY <1>0, <1>s, SendType, PlaintextKinds DEF Connect, SetupTypeOK, ClPcs, Links
<1>4. \A d \in Clients \ {c} : Unmoved(d)
  BY <1>0, <1>s DEF Connect, Send, Unmoved, SetupTypeOK
<1>5. SynSent(c)'
  BY <1>0, <1>s, <1>2, OneMessage DEF Connect, Send, SynSent, NotStarted, At, SetupTypeOK
<1>6. OneAtATime'
  <2>1. opPc \in {"syn", "ack"} => serving \in Clients \ {c}
    BY <1>2 DEF SetupConsistent, OneAtATime, NotStarted
  <2>2. opPc \in {"syn", "ack"} => StageKept(serving) /\ link'[serving] = link[serving]
    BY <1>4, <2>1, UnmovedKeepsStage DEF Connect, Unmoved
  <2> QED
    BY <2>1, <2>2
    DEF Connect, SetupConsistent, OneAtATime, StageKept, HasSeat, SeatFree,
        AllSeatsTaken
<1> QED
  BY <1>1, <1>3, <1>4, <1>5, <1>6, LobbyStep DEF Connect

LEMMA AcceptStep ==
    ASSUME SetupConsistent, NEW c \in Clients, Accept(c)
    PROVE  SetupConsistent'
<1>0. SetupTypeOK /\ c # NoClient /\ seat[c] \in Seats
  BY ClientsAssumption DEF SetupConsistent, SetupTypeOK
<1>1. ~ HasSeat(c)
  BY <1>0 DEF Accept, SetupConsistent, OwnSeats, HasSeat
<1>2. SynSent(c)
  BY <1>1 DEF SetupConsistent, Lobby, Accept
<1>3. SetupTypeOK' /\ UNCHANGED <<players, connected, seat, opIdx, shown>>
  BY <1>0 DEF Accept, SetupTypeOK, OpPcs, Links, clSetupVars
<1>4. \A d \in Clients \ {c} : Unmoved(d)
  BY <1>0 DEF Accept, Unmoved, SetupTypeOK, clSetupVars
<1>5. SynSent(c)' /\ link'[c] \in {"open", "leaked"}
  BY <1>0, <1>2 DEF Accept, SynSent, At, SetupTypeOK, clSetupVars
<1>6. \/ opPc' = "accept" /\ opPc = "accept"
      \/ /\ ~ AllSeatsTaken /\ opPc = "accept" /\ opPc' = "syn"
         /\ serving' = c /\ link'[c] = "open"
  BY <1>0, AllConnected DEF Accept, SetupTypeOK, SetupConsistent
<1>7. OneAtATime'
  BY <1>1, <1>3, <1>5, <1>6 DEF OneAtATime, HasSeat, AllSeatsTaken
<1> QED
  BY <1>1, <1>3, <1>4, <1>5, <1>6, <1>7, LobbyStep

LEMMA SynStep ==
    ASSUME SetupConsistent, OpSyn
    PROVE  SetupConsistent'
<1>0. SetupTypeOK /\ opPc = "syn" /\ ~ AllSeatsTaken
  BY DEF SetupConsistent, OneAtATime, OpSyn
<1>c. PICK c \in Clients : c = serving
  BY <1>0 DEF SetupConsistent, OneAtATime
<1>1. ~ HasSeat(c) /\ SynSent(c) /\ link[c] = "open"
  BY <1>0, <1>c DEF SetupConsistent, OneAtATime
<1>m. PICK syn \in Plaintext("SYN") : up[c] = <<syn>> /\ down[c] = <<>>
  BY <1>1 DEF SynSent, At
<1>2. up[c] = <<syn>> /\ down[c] = <<>> /\ HeadType(up, c) = "SYN"
  BY <1>0, <1>c, <1>m, ArrivesWhole DEF OpSyn
<1>3. CASE PlayerIdOk(c)
  <2>1. PICK synack \in Plaintext("SYNACK") :
          /\ Take(up, c)
          /\ Send(down, c, synack)
          /\ opPc' = "ack"
          /\ UNCHANGED <<link, serving, opIdx, players, connected, clPc, seat, shown>>
    BY <1>2, <1>3, <1>c DEF OpSyn, clSetupVars
  <2>2. SetupTypeOK'
    BY <1>0, <1>2, <2>1, OneMessage, TakeType, SendType, PlaintextKinds
    DEF SetupTypeOK, OpPcs
  <2>3. \A d \in Clients \ {c} : Unmoved(d)
    BY <1>0, <2>1 DEF Take, Send, Unmoved, SetupTypeOK
  <2>4. Attesting(c)' /\ link'[c] = "open"
    BY <1>0, <1>1, <1>2, <2>1, OneMessage
    DEF Take, Send, SynSent, Attesting, At, SetupTypeOK
  <2>5. OneAtATime'
    BY <1>0, <1>1, <1>3, <1>c, <2>1, <2>4
    DEF OneAtATime, HasSeat, SeatFree, PlayerIdOk, AllSeatsTaken
  <2> QED  BY <1>0, <1>1, <2>1, <2>2, <2>3, <2>4, <2>5, LobbyStep
<1>4. CASE ~ PlayerIdOk(c)
  <2>1. /\ Take(up, c)
        /\ link' = [link EXCEPT ![c] = "dropped"]
        /\ opPc' = "accept"
        /\ serving' = NoClient
        /\ UNCHANGED <<down, opIdx, players, connected, clPc, seat, shown>>
    BY <1>2, <1>4, <1>c DEF OpSyn, DropServing, clSetupVars
  <2>2. SetupTypeOK'
    BY <1>0, <1>2, <2>1, OneMessage, TakeType DEF SetupTypeOK, OpPcs, Links
  <2>3. \A d \in Clients \ {c} : Unmoved(d)
    BY <1>0, <2>1 DEF Take, Unmoved, SetupTypeOK
  <2>4. TurnedAway(c)' /\ link'[c] = "dropped"
    BY <1>0, <1>1, <1>2, <2>1, OneMessage
    DEF Take, SynSent, TurnedAway, At, SetupTypeOK
  <2>5. OneAtATime'
    BY <2>1 DEF OneAtATime
  <2> QED  BY <1>0, <1>1, <2>1, <2>2, <2>3, <2>4, <2>5, LobbyStep
<1> QED  BY <1>3, <1>4

LEMMA DropStep ==
    ASSUME SetupConsistent, DropConnection
    PROVE  SetupConsistent'
<1>0. SetupTypeOK /\ opPc \in {"syn", "ack"} /\ ~ AllSeatsTaken
  BY DEF SetupConsistent, OneAtATime, DropConnection
<1>c. PICK c \in Clients : c = serving
  BY <1>0 DEF SetupConsistent, OneAtATime
<1>1. ~ HasSeat(c) /\ (SynSent(c) \/ Attesting(c))
  BY <1>0, <1>c DEF SetupConsistent, OneAtATime
<1>2. /\ link' = [link EXCEPT ![c] = "dropped"]
      /\ opPc' = "accept"
      /\ serving' = NoClient
      /\ UNCHANGED <<opIdx, players, connected, up, down, clPc, seat, shown>>
  BY <1>c DEF DropConnection, DropServing, clSetupVars
<1>3. SetupTypeOK'
  BY <1>0, <1>2 DEF SetupTypeOK, OpPcs, Links
<1>4. \A d \in Clients \ {c} : Unmoved(d)
  BY <1>0, <1>2 DEF Unmoved, SetupTypeOK
<1>5. (SynSent(c)' \/ Attesting(c)') /\ link'[c] = "dropped"
  BY <1>0, <1>1, <1>2 DEF SynSent, Attesting, At, SetupTypeOK
<1>6. OneAtATime'
  BY <1>2 DEF OneAtATime
<1> QED  BY <1>0, <1>1, <1>2, <1>3, <1>4, <1>5, <1>6, LobbyStep

(***************************************************************************)
(* add_player: the seat is still free, and the last one starts the quotes. *)
(***************************************************************************)
LEMMA AckStep ==
    ASSUME SetupConsistent, OpAck
    PROVE  SetupConsistent'
<1>0. SetupTypeOK /\ opPc = "ack" /\ ~ AllSeatsTaken
  BY DEF SetupConsistent, OneAtATime, OpAck
<1>c. PICK c \in Clients : c = serving
  BY <1>0 DEF SetupConsistent, OneAtATime
<1>1. ~ HasSeat(c) /\ Attesting(c) /\ SeatFree(c) /\ link[c] = "open"
  BY <1>0, <1>c DEF SetupConsistent, OneAtATime
<1>2. up[c] = <<Msg("ACK")>> /\ HeadType(up, c) = "ACK"
      /\ clPc[c] \in {"quotes", "gone"} /\ down[c] = <<>>
  BY <1>0, <1>1, <1>c, OneMessage, MessageKinds DEF Attesting, At, OpAck, Arrived, HeadType
<1>a. /\ Take(up, c)
      /\ players' = [players EXCEPT ![seat[c]] = c]
      /\ connected' = connected + 1
      /\ opPc' = IF AllPlayersConnected' THEN "present" ELSE "accept"
      /\ serving' = NoClient
      /\ UNCHANGED <<link, opIdx, down, clPc, seat, shown>>
  BY <1>2, <1>c DEF OpAck, clSetupVars
<1>b. Counted' /\ connected' \in 0..NumPlayers
  <2>1. SeatsTaken' = SeatsTaken \cup {seat[c]} /\ seat[c] \notin SeatsTaken
    BY <1>0, <1>1, <1>a, ClientsAssumption DEF SeatsTaken, SeatFree, SetupTypeOK
  <2>2. SeatsTaken \in SUBSET Seats /\ SeatsTaken' \in SUBSET Seats
    BY DEF SeatsTaken
  <2>3. IsFiniteSet(SeatsTaken) /\ Cardinality(SeatsTaken') \in 0..NumPlayers
    BY <2>2, CountTells
  <2>4. Cardinality(SeatsTaken') = Cardinality(SeatsTaken) + 1
    BY <2>1, <2>3, FS_AddElement
  <2> QED  BY <1>a, <2>3, <2>4 DEF SetupConsistent, Counted
<1>d. AllPlayersConnected' <=> AllSeatsTaken'
  <2>1. SeatsTaken' \in SUBSET Seats
    BY DEF SeatsTaken
  <2>2. Cardinality(SeatsTaken') = NumPlayers <=> SeatsTaken' = Seats
    BY <2>1, CountTells
  <2> QED  BY <1>b, <2>2 DEF Counted, AllPlayersConnected, AllSeatsTaken, SeatsTaken
<1>3. /\ Take(up, c)
      /\ players' = [players EXCEPT ![seat[c]] = c]
      /\ opPc' = IF AllSeatsTaken' THEN "present" ELSE "accept"
      /\ serving' = NoClient
      /\ UNCHANGED <<link, opIdx, down, clPc, seat, shown>>
  BY <1>a, <1>d
<1>4. SetupTypeOK'
  BY <1>0, <1>2, <1>3, <1>b, OneMessage, TakeType DEF SetupTypeOK, OpPcs, PresentPcs
<1>5. \A d \in Clients \ {c} : Unmoved(d)
  BY <1>0, <1>3 DEF Take, Unmoved, SetupTypeOK
<1>6. Registered(c)' /\ link'[c] = "open"
  BY <1>0, <1>1, <1>2, <1>3, OneMessage DEF Take, Registered, At, SetupTypeOK
<1>7. c # NoClient /\ seat[c] \in Seats /\ players'[seat[c]] = c
      /\ \A i \in Seats \ {seat[c]} : players'[i] = players[i]
  BY <1>0, <1>3, ClientsAssumption DEF SetupTypeOK
<1>8. OneAtATime'
  BY <1>3 DEF OneAtATime
<1>9. Lobby'
  <2> SUFFICES ASSUME NEW d \in Clients, ~ HasSeat(d)'
               PROVE  /\ NotStarted(d)' \/ SynSent(d)' \/ Attesting(d)' \/ TurnedAway(d)'
                      /\ link'[d] \in {"queued", "leaked"} => SynSent(d)'
                      /\ shown'[d] = {}
    BY DEF Lobby
  <2>1. d # c /\ seat[d] \in Seats /\ d # NoClient
    BY <1>0, <1>3, <1>7, ClientsAssumption DEF HasSeat, SetupTypeOK
  <2>2. ~ HasSeat(d)
    BY <1>1, <1>3, <1>7, <2>1 DEF HasSeat, SeatFree
  <2> QED
    BY <1>3, <1>5, <2>1, <2>2
    DEF SetupConsistent, Lobby, Unmoved, NotStarted, SynSent, Attesting, TurnedAway, At
<1>10. ASSUME NEW i \in Seats, players'[i] # NoClient
       PROVE  /\ seat'[players'[i]] = i
              /\ link'[players'[i]] = "open"
              /\ Registered(players[i])'
  <2>1. CASE i = seat[c]
    BY <1>3, <1>6, <1>7, <2>1
  <2>2. CASE i # seat[c]
    <3>1. players'[i] = players[i]
      BY <1>7, <2>2
    <3>2. players[i] \in Clients /\ seat[players[i]] = i /\ link[players[i]] = "open"
          /\ Registered(players[i])
      BY <1>0, <1>10, <3>1 DEF SetupConsistent, OwnSeats, Presenting, SetupTypeOK
    <3>3. Unmoved(players[i])
      BY <1>5, <2>2, <3>2
    <3> QED  BY <1>3, <3>1, <3>2, <3>3 DEF Unmoved, Registered, At
  <2> QED  BY <2>1, <2>2
<1>11. OwnSeats'
  BY <1>10 DEF OwnSeats
<1>12. Presenting'
  <2>1. opPc' \in {"present", "accept"} /\ opIdx' = 1
        /\ (opPc' = "accept" => ~ AllSeatsTaken')
        /\ (opPc' = "present" => AllSeatsTaken')
    BY <1>0, <1>3 DEF SetupConsistent, Presenting
  <2> QED  BY <1>10, <2>1 DEF Presenting, PresentPcs
<1> QED  BY <1>4, <1>8, <1>9, <1>11, <1>12, <1>b DEF SetupConsistent

(***************************************************************************)
(* The operator gives up: it stops, or abandons present_quotes, and leaves *)
(* everybody where it is.                                                  *)
(***************************************************************************)
LEMMA GiveUpStep ==
    ASSUME SetupConsistent, opPc # "shell",
           opPc' = "dead" \/ (opPc' = "accept" /\ opPc \in PresentPcs),
           UNCHANGED <<opIdx, serving, players, connected, link, up, down, clSetupVars>>
    PROVE  SetupConsistent'
<1>0. /\ SetupTypeOK
      /\ Counted'
      /\ \A c \in Clients : Unmoved(c)
      /\ players' = players /\ seat' = seat /\ opIdx' = opIdx /\ link' = link
  BY CountKept DEF SetupConsistent, Unmoved, clSetupVars
<1>1. \A c \in Clients : StageKept(c)
  BY <1>0, UnmovedKeepsStage
<1>2. SetupTypeOK'
  BY <1>0 DEF SetupTypeOK, OpPcs, clSetupVars
<1>3. OneAtATime'
  BY DEF OneAtATime
<1>4. Lobby' /\ OwnSeats'
  BY <1>0, <1>1 DEF SetupConsistent, Lobby, OwnSeats, StageKept, HasSeat
<1>5. AllSeatsTaken' <=> AllSeatsTaken
  BY <1>0 DEF AllSeatsTaken
<1>6. ASSUME NEW i \in Seats, players[i] # NoClient
      PROVE  /\ Registered(players[i]) => Registered(players[i])'
             /\ AllSeatsTaken => (Presented(players[i]) => Presented(players[i])')
             /\ Acknowledged(players[i]) => Acknowledged(players[i])'
             /\ Notified(players[i]) => Notified(players[i])'
  <2>1. players[i] \in Clients /\ HasSeat(players[i])
    BY <1>0, <1>6 DEF SetupConsistent, SetupTypeOK, OwnSeats, HasSeat
  <2> QED  BY <1>0, <1>1, <2>1 DEF StageKept
<1>7. CASE ~ AllSeatsTaken
  <2>1. opPc' # "accept"
    BY <1>7 DEF SetupConsistent, Presenting
  <2> QED
    BY <1>0, <1>2, <1>3, <1>4, <1>5, <1>6, <1>7, <2>1
    DEF SetupConsistent, Presenting, PresentPcs
<1>8. CASE AllSeatsTaken
  <2>1. \A i \in Seats : players[i] # NoClient
    BY <1>8 DEF AllSeatsTaken
  <2>2. opPc \in {"present", "broadcast", "collect", "notify", "accept", "dead"}
    BY <1>0, <1>8 DEF SetupConsistent, OneAtATime, SetupTypeOK, OpPcs, PresentPcs
  <2>3. \/ \A i \in Seats : \/ Registered(players[i])
                            \/ Presented(players[i])
                            \/ Acknowledged(players[i])
        \/ \A i \in Seats : Acknowledged(players[i]) \/ Notified(players[i])
    BY <1>8, <2>1, <2>2 DEF SetupConsistent, Presenting
  <2>4. \/ \A i \in Seats : \/ Registered(players[i])'
                            \/ Presented(players[i])'
                            \/ Acknowledged(players[i])'
        \/ \A i \in Seats : Acknowledged(players[i])' \/ Notified(players[i])'
    BY <1>6, <1>8, <2>1, <2>3
  <2>5. Presenting'
    BY <1>5, <1>8, <2>4 DEF Presenting, PresentPcs
  <2> QED  BY <1>0, <1>2, <1>3, <1>4, <2>5 DEF SetupConsistent
<1> QED  BY <1>7, <1>8

(***************************************************************************)
(* One turn of a loop of present_quotes: it moves the player at the loop's *)
(* seat from one stage to the next, and nobody else.                       *)
(***************************************************************************)
LEMMA TurnStep ==
    ASSUME SetupConsistent, SetupTypeOK', AllSeatsTaken,
           opPc' \in PresentPcs \cup {"shell"},
           opPc' # "present",
           UNCHANGED <<serving, players, connected, link, seat, shown, clPc>>,
           \A c \in Clients \ {players[opIdx]} : Unmoved(c),
           Presenting'
    PROVE  SetupConsistent'
<1>0. SetupTypeOK /\ opIdx \in Seats /\ players[opIdx] # NoClient
  BY DEF SetupConsistent, SetupTypeOK, AllSeatsTaken
<1>1. OneAtATime'
  BY DEF OneAtATime, PresentPcs
<1>2. ASSUME NEW c \in Clients, ~ HasSeat(c)
      PROVE  StageKept(c)
  <2>1. c # players[opIdx]
    BY <1>0, <1>2 DEF SetupConsistent, OwnSeats, HasSeat
  <2> QED  BY <2>1, UnmovedKeepsStage
<1>3. Lobby' /\ OwnSeats'
  BY <1>2 DEF SetupConsistent, Lobby, OwnSeats, StageKept, HasSeat
<1> QED  BY <1>1, <1>3, CountKept DEF SetupConsistent

LEMMA TurnFrame ==
    ASSUME SetupConsistent, AllSeatsTaken,
           UNCHANGED <<players, link, seat, shown, clPc>>,
           \A c \in Clients \ {players[opIdx]} : Unmoved(c),
           NEW i \in Seats, i # opIdx
    PROVE  /\ players'[i] = players[i]
           /\ Registered(players[i]) => Registered(players[i])'
           /\ Presented(players[i]) => Presented(players[i])'
           /\ Acknowledged(players[i]) => Acknowledged(players[i])'
           /\ Notified(players[i]) => Notified(players[i])'
<1>1. /\ players[i] \in Clients \ {players[opIdx]}
      /\ HasSeat(players[i])
  BY DEF SetupConsistent, SetupTypeOK, OwnSeats, HasSeat, AllSeatsTaken
<1>2. StageKept(players[i])
  BY <1>1, UnmovedKeepsStage
<1> QED  BY <1>1, <1>2 DEF StageKept

LEMMA PrintStep ==
    ASSUME SetupConsistent, OpPrintQuotes
    PROVE  SetupConsistent'
<1>0. SetupTypeOK /\ AllSeatsTaken /\ opIdx = 1 /\ opPc' = "broadcast"
      /\ UNCHANGED <<opIdx, serving, players, connected, link, up, down, clPc, seat, shown>>
  BY DEF SetupConsistent, Presenting, OpPrintQuotes, PresentPcs, clSetupVars
<1>1. SetupTypeOK'
  BY <1>0 DEF SetupTypeOK, OpPcs, PresentPcs
<1>2. \A c \in Clients : Unmoved(c)
  BY <1>0 DEF Unmoved
<1>3. ASSUME NEW i \in Seats
      PROVE  Registered(players[i])' /\ ~ (i < opIdx')
  <2>1. Registered(players[i])
    BY <1>0 DEF SetupConsistent, Presenting, OpPrintQuotes, AllSeatsTaken
  <2> QED  BY <1>0, <2>1, SeatsOrder DEF Registered, At, Seats
<1>4. AllSeatsTaken'
  BY <1>0 DEF AllSeatsTaken
<1>5. Presenting'
  BY <1>0, <1>3, <1>4 DEF Presenting, PresentPcs
<1> QED  BY <1>0, <1>1, <1>2, <1>5, TurnStep DEF PresentPcs

LEMMA LoopOrder ==
    ASSUME SetupTypeOK, NEW next, NextSeat(next)
    PROVE  \/ /\ opIdx < NumPlayers /\ opPc' = opPc /\ opIdx' = opIdx + 1
              /\ \A i \in Seats : i < opIdx' <=> i < opIdx \/ i = opIdx
           \/ /\ opIdx = NumPlayers /\ opPc' = next /\ opIdx' = 1
              /\ \A i \in Seats : /\ i < opIdx \/ i = opIdx
                                  /\ ~ (i < opIdx')
  BY SeatsAssumption DEF SetupTypeOK, NextSeat, Seats

LEMMA BroadcastStep ==
    ASSUME SetupConsistent, OpBroadcast
    PROVE  SetupConsistent'
<1>0. SetupTypeOK /\ AllSeatsTaken /\ opPc = "broadcast" /\ opIdx \in Seats
  BY DEF SetupConsistent, Presenting, OpBroadcast, PresentPcs, SetupTypeOK
<1>c. PICK c \in Clients : c = players[opIdx]
  BY <1>0 DEF SetupTypeOK, AllSeatsTaken
<1>1. /\ Send(down, c, Quotes)
      /\ NextSeat("collect")
      /\ UNCHANGED <<serving, players, connected, link, up, clPc, seat, shown>>
  BY <1>c DEF OpBroadcast, clSetupVars
<1>2. SetupTypeOK'
  BY <1>0, <1>1, NextSeatType, SendType, MessageKinds DEF SetupTypeOK, OpPcs, PresentPcs
<1>3. \A d \in Clients \ {players[opIdx]} : Unmoved(d)
  BY <1>0, <1>1, <1>c DEF Send, Unmoved, SetupTypeOK
<1>4. Presented(c)'
  <2>1. Registered(c)
    BY <1>0, <1>c, SeatsOrder DEF SetupConsistent, Presenting
  <2>2. clPc'[c] \in {"quotes", "gone"} /\ up'[c] = <<>> /\ down'[c] = <<Quotes>>
    BY <1>0, <1>1, <2>1, OneMessage DEF Send, Registered, At, SetupTypeOK
  <2> QED  BY <1>1, <1>c, <2>2 DEF Presented, At, Quotes
<1>5. \A i \in Seats : i < opIdx => Presented(players[i])
  BY <1>0 DEF SetupConsistent, Presenting
<1>6. \A i \in Seats : ~ (i < opIdx) => Registered(players[i])
  BY <1>0 DEF SetupConsistent, Presenting
<1>7. \A i \in Seats \ {opIdx} :
        /\ Registered(players[i]) => Registered(players[i])'
        /\ Presented(players[i]) => Presented(players[i])'
  BY <1>0, <1>1, <1>3, TurnFrame
<1>8. AllSeatsTaken'
  BY <1>0, <1>1 DEF AllSeatsTaken
<1>9. Presenting'
  <2>1. CASE opPc' = "broadcast" /\ \A i \in Seats : i < opIdx' <=> i < opIdx \/ i = opIdx
    BY <1>1, <1>c, <1>4, <1>5, <1>6, <1>7, <1>8, <2>1 DEF Presenting, PresentPcs
  <2>2. CASE opPc' = "collect" /\ \A i \in Seats : (i < opIdx \/ i = opIdx) /\ ~ (i < opIdx')
    BY <1>1, <1>c, <1>4, <1>5, <1>7, <1>8, <2>2 DEF Presenting, PresentPcs
  <2> QED  BY <1>0, <1>1, <2>1, <2>2, LoopOrder
<1> QED
  BY <1>0, <1>1, <1>2, <1>3, <1>9, LoopOrder, TurnStep DEF PresentPcs

LEMMA CollectStep ==
    ASSUME SetupConsistent, OpCollect
    PROVE  SetupConsistent'
<1>0. SetupTypeOK /\ AllSeatsTaken /\ opPc = "collect" /\ opIdx \in Seats
  BY DEF SetupConsistent, Presenting, OpCollect, PresentPcs, SetupTypeOK
<1>c. PICK c \in Clients : c = players[opIdx]
  BY <1>0 DEF SetupTypeOK, AllSeatsTaken
<1>1. /\ up[c] = <<Msg("QUOTES_OK")>> /\ HeadType(up, c) = "QUOTES_OK"
      /\ clPc[c] \in {"notice", "gone"} /\ down[c] = <<>> /\ HasAllQuotes(c)
  <2>1. Presented(c) /\ up[c] # <<>>
    BY <1>0, <1>c, SeatsOrder DEF SetupConsistent, Presenting, OpCollect
  <2> QED  BY <1>0, <2>1, OneMessage, MessageKinds DEF Presented, At, HeadType
<1>2. /\ Take(up, c)
      /\ NextSeat("notify")
      /\ UNCHANGED <<serving, players, connected, link, down, clPc, seat, shown>>
  BY <1>1, <1>c DEF OpCollect, clSetupVars
<1>3. SetupTypeOK'
  BY <1>0, <1>1, <1>2, OneMessage, NextSeatType, TakeType DEF SetupTypeOK, OpPcs, PresentPcs
<1>4. \A d \in Clients \ {players[opIdx]} : Unmoved(d)
  BY <1>0, <1>2, <1>c DEF Take, Unmoved, SetupTypeOK
<1>5. Acknowledged(c)'
  <2>1. up'[c] = <<>>
    BY <1>0, <1>1, <1>2, OneMessage DEF Take, SetupTypeOK
  <2> QED  BY <1>1, <1>2, <1>c, <2>1 DEF Acknowledged, At, HasAllQuotes
<1>6. \A i \in Seats : i < opIdx => Acknowledged(players[i])
  BY <1>0 DEF SetupConsistent, Presenting
<1>7. \A i \in Seats : ~ (i < opIdx) => Presented(players[i])
  BY <1>0 DEF SetupConsistent, Presenting
<1>8. \A i \in Seats \ {opIdx} :
        /\ Presented(players[i]) => Presented(players[i])'
        /\ Acknowledged(players[i]) => Acknowledged(players[i])'
  BY <1>0, <1>2, <1>4, TurnFrame
<1>9. AllSeatsTaken'
  BY <1>0, <1>2 DEF AllSeatsTaken
<1>10. Presenting'
  <2>1. CASE opPc' = "collect" /\ \A i \in Seats : i < opIdx' <=> i < opIdx \/ i = opIdx
    BY <1>2, <1>c, <1>5, <1>6, <1>7, <1>8, <1>9, <2>1 DEF Presenting, PresentPcs
  <2>2. CASE opPc' = "notify" /\ \A i \in Seats : (i < opIdx \/ i = opIdx) /\ ~ (i < opIdx')
    BY <1>2, <1>c, <1>5, <1>6, <1>8, <1>9, <2>2 DEF Presenting, PresentPcs
  <2> QED  BY <1>0, <1>2, <2>1, <2>2, LoopOrder
<1> QED
  BY <1>0, <1>2, <1>3, <1>4, <1>10, LoopOrder, TurnStep DEF PresentPcs

LEMMA NotifyStep ==
    ASSUME SetupConsistent, OpNotify
    PROVE  SetupConsistent'
<1>0. SetupTypeOK /\ AllSeatsTaken /\ opPc = "notify" /\ opIdx \in Seats
  BY DEF SetupConsistent, Presenting, OpNotify, PresentPcs, SetupTypeOK
<1>c. PICK c \in Clients : c = players[opIdx]
  BY <1>0 DEF SetupTypeOK, AllSeatsTaken
<1>1. /\ Send(down, c, Msg("SETUP_COMPLETE"))
      /\ NextSeat("shell")
      /\ UNCHANGED <<serving, players, connected, link, up, clPc, seat, shown>>
  BY <1>c DEF OpNotify, clSetupVars
<1>2. SetupTypeOK'
  BY <1>0, <1>1, NextSeatType, SendType, MessageKinds DEF SetupTypeOK, OpPcs, PresentPcs
<1>3. \A d \in Clients \ {players[opIdx]} : Unmoved(d)
  BY <1>0, <1>1, <1>c DEF Send, Unmoved, SetupTypeOK
<1>4. Notified(c)'
  <2>1. Acknowledged(c)
    BY <1>0, <1>c, SeatsOrder DEF SetupConsistent, Presenting
  <2>2. /\ clPc'[c] \in {"notice", "gone"} /\ up'[c] = <<>>
        /\ down'[c] = <<Msg("SETUP_COMPLETE")>>
        /\ HasAllQuotes(c)
    BY <1>0, <1>1, <2>1, OneMessage DEF Send, Acknowledged, At, SetupTypeOK
  <2> QED  BY <1>1, <1>c, <2>2 DEF Notified, At, HasAllQuotes
<1>5. \A i \in Seats : i < opIdx => Notified(players[i])
  BY <1>0 DEF SetupConsistent, Presenting
<1>6. \A i \in Seats : ~ (i < opIdx) => Acknowledged(players[i])
  BY <1>0 DEF SetupConsistent, Presenting
<1>7. \A i \in Seats \ {opIdx} :
        /\ Acknowledged(players[i]) => Acknowledged(players[i])'
        /\ Notified(players[i]) => Notified(players[i])'
  BY <1>0, <1>1, <1>3, TurnFrame
<1>8. AllSeatsTaken'
  BY <1>0, <1>1 DEF AllSeatsTaken
<1>9. Presenting'
  <2>1. CASE opPc' = "notify" /\ \A i \in Seats : i < opIdx' <=> i < opIdx \/ i = opIdx
    BY <1>1, <1>c, <1>4, <1>5, <1>6, <1>7, <1>8, <2>1 DEF Presenting, PresentPcs
  <2>2. CASE opPc' = "shell" /\ \A i \in Seats : (i < opIdx \/ i = opIdx) /\ ~ (i < opIdx')
    BY <1>1, <1>c, <1>4, <1>5, <1>7, <1>8, <2>2 DEF Presenting, PresentPcs
  <2> QED  BY <1>0, <1>1, <2>1, <2>2, LoopOrder
<1> QED
  BY <1>0, <1>1, <1>2, <1>3, <1>9, LoopOrder, TurnStep DEF PresentPcs

-----------------------------------------------------------------------------
LEMMA SetupConsistentInit == SetupInit => SetupConsistent
<1> SUFFICES ASSUME SetupInit PROVE SetupConsistent
  OBVIOUS
<1>1. SetupTypeOK
  BY SeatsOrder, SeatsAssumption
  DEF SetupInit, SetupTypeOK, OpPcs, ClPcs, Links, NoQuotes
<1>2. \A i \in Seats : players[i] = NoClient
  BY DEF SetupInit, NoQuotes
<1>3. \A c \in Clients : NotStarted(c) /\ link[c] = "none"
  BY DEF SetupInit, NotStarted, At
<1>4. ~ AllSeatsTaken
  BY <1>2, SeatsOrder DEF AllSeatsTaken
<1>5. Counted
  <2>1. SeatsTaken = {}
    BY <1>2 DEF SeatsTaken
  <2> QED  BY <2>1, FS_EmptySet DEF Counted, SetupInit
<1> QED
  BY <1>1, <1>2, <1>3, <1>4, <1>5
  DEF SetupInit, SetupConsistent, OneAtATime, Lobby, OwnSeats, Presenting, PresentPcs

LEMMA SetupConsistentStep == SetupConsistent /\ [SetupNext]_setupVars => SetupConsistent'
<1> SUFFICES ASSUME SetupConsistent, [SetupNext]_setupVars PROVE SetupConsistent'
  OBVIOUS
<1>1. CASE \E c \in Clients : Connect(c) \/ ClProceeds(c) \/ ClLeave(c) \/ Accept(c)
  BY <1>1, ConnectStep, ClientStep, AcceptStep
<1>2. CASE OpServes \/ OpAttestFails
  BY <1>2, SynStep, AckStep, DropStep DEF OpServes, OpAttestFails, OpFindsClosed
<1>3. CASE OpDestroysTwice \/ OpLeaves \/ OpPresentFails \/ OpFindsPlayerGone
  BY <1>3, GiveUpStep
  DEF OpDestroysTwice, OpLeaves, OpPresentFails, OpFindsPlayerGone, BackToAccepting,
      PresentPcs
<1>4. CASE OpPrintQuotes \/ OpBroadcast \/ OpCollect \/ OpNotify
  BY <1>4, PrintStep, BroadcastStep, CollectStep, NotifyStep
<1>5. CASE UNCHANGED setupVars
  <2>1. \A c \in Clients : Unmoved(c)
    BY <1>5 DEF setupVars, opSetupVars, clSetupVars, Unmoved
  <2>2. SetupTypeOK' /\ UNCHANGED opSetupVars /\ seat' = seat /\ players' = players
    BY <1>5
    DEF SetupConsistent, SetupTypeOK, setupVars, opSetupVars, clSetupVars
  <2> QED  BY <2>1, <2>2, UnmovedKeepsStage, StagesKept
<1> QED
  BY <1>1, <1>2, <1>3, <1>4, <1>5 DEF SetupNext, OpPresents

(***************************************************************************)
(* The stages fit together in every run of the setup, whatever fails and   *)
(* whoever leaves (mutual_attestation.c of both sides, players.c:60-121).  *)
(***************************************************************************)
THEOREM AlwaysSetupConsistent == SetupSpec => []SetupConsistent
  BY SetupConsistentInit, SetupConsistentStep, PTL DEF SetupSpec

(***************************************************************************)
(* The variables keep their types; in particular no loop of present_quotes *)
(* leaves the seats (players.c:70, 88 and 108).                            *)
(***************************************************************************)
THEOREM SetupTypeCorrect == SetupSpec => []SetupTypeOK
<1>1. SetupConsistent => SetupTypeOK
  BY DEF SetupConsistent
<1> QED  BY <1>1, AlwaysSetupConsistent, PTL

LEMMA PastTheLastAcknowledgement ==
    ASSUME SetupConsistent, NEW c \in Clients, HasSeat(c),
           ~ Registered(c), ~ Presented(c), ~ Acknowledged(c)
    PROVE  /\ AllSeatsTaken
           /\ \A i \in Seats : Acknowledged(players[i]) \/ Notified(players[i])
<1>1. seat[c] \in Seats /\ c # NoClient /\ opPc \in OpPcs
  BY ClientsAssumption DEF SetupConsistent, SetupTypeOK
<1>2. AllSeatsTaken
  BY <1>1 DEF SetupConsistent, Presenting, HasSeat
<1>3. opPc \in {"notify", "shell", "accept", "dead"}
  BY <1>1, <1>2
  DEF SetupConsistent, OneAtATime, Presenting, HasSeat, OpPcs, PresentPcs,
      AllSeatsTaken
<1> QED  BY <1>1, <1>2, <1>3 DEF SetupConsistent, Presenting, HasSeat

LEMMA LiveClient ==
    ASSUME SetupConsistent, NEW c \in Clients, clPc[c] = "shell"
    PROVE  /\ HasSeat(c)
           /\ AllSeatsTaken
           /\ \A i \in Seats : Acknowledged(players[i]) \/ Notified(players[i])
<1>1. HasSeat(c)
  BY DEF SetupConsistent, Lobby, NotStarted, SynSent, Attesting, TurnedAway, At
<1>2. ~ Registered(c) /\ ~ Presented(c) /\ ~ Acknowledged(c)
  BY DEF Registered, Presented, Acknowledged, At
<1> QED  BY <1>1, <1>2, PastTheLastAcknowledgement

(***************************************************************************)
(* Nobody starts a contract whose other parties have not all been shown    *)
(* the same quotes (players.c:108, setup.c:84-91).                         *)
(***************************************************************************)
THEOREM EverybodyIsLive == SetupSpec => []LiveForAll
<1>1. ASSUME SetupConsistent PROVE LiveForAll
  <2>1. ASSUME AllSeatsTaken,
               \A i \in Seats : Acknowledged(players[i]) \/ Notified(players[i])
        PROVE  Live
    BY <2>1 DEF Live, Informed, AllSeatsTaken, Acknowledged, Notified, At, HasAllQuotes
  <2>2. opPc = "shell" => Live
    BY <1>1, <2>1 DEF SetupConsistent, Presenting
  <2>3. (\E c \in Clients : clPc[c] = "shell") => Live
    BY <1>1, <2>1, LiveClient
  <2> QED  BY <2>2, <2>3 DEF LiveForAll
<1> QED  BY <1>1, AlwaysSetupConsistent, PTL

(***************************************************************************)
(* No type check of the setup rejects a message of an honest peer.         *)
(***************************************************************************)
THEOREM SetupMessagesInOrder == SetupSpec => []SetupInOrder
<1>1. ASSUME SetupConsistent PROVE SetupInOrder
  <2>0. SetupTypeOK
    BY <1>1 DEF SetupConsistent
  <2>1. opPc = "syn" => Expects(up, serving, {"SYN"} \cup Cuts)
    <3> SUFFICES ASSUME opPc = "syn" PROVE HeadType(up, serving) \in {"SYN"} \cup Cuts
      BY DEF Expects
    <3>1. PICK syn \in Plaintext("SYN") : up[serving] = <<syn>>
      BY <1>1 DEF SetupConsistent, OneAtATime, SynSent, At
    <3> QED  BY <2>0, <3>1, OneMessage, PlaintextKinds DEF HeadType
  <2>2. opPc = "ack" => Expects(up, serving, {"ACK"})
    BY <1>1, <2>0, OneMessage, MessageKinds
    DEF SetupConsistent, OneAtATime, Attesting, At, Expects, HeadType
  <2>3. opPc = "collect" => Expects(up, players[opIdx], {"QUOTES_OK"})
    <3> SUFFICES ASSUME opPc = "collect" PROVE Expects(up, players[opIdx], {"QUOTES_OK"})
      OBVIOUS
    <3>1. Presented(players[opIdx])
      BY <1>1, <2>0, SeatsOrder DEF SetupConsistent, Presenting, SetupTypeOK
    <3> QED
      BY <2>0, <3>1, OneMessage, MessageKinds DEF Presented, At, Expects, HeadType
  <2>4. ASSUME NEW c \in Clients
        PROVE  /\ clPc[c] = "synack" => Expects(down, c, {"SYNACK"} \cup Cuts)
               /\ clPc[c] = "quotes" => Expects(down, c, {"QUOTES"})
               /\ clPc[c] = "notice" => Expects(down, c, {"SETUP_COMPLETE"})
    <3>1. \/ NotStarted(c) \/ SynSent(c) \/ Attesting(c) \/ TurnedAway(c)
          \/ Registered(c) \/ Presented(c) \/ Acknowledged(c) \/ Notified(c)
      <4>1. CASE HasSeat(c)
        BY <1>1, <2>0, <4>1, SeatedClient, ClientsAssumption DEF HasSeat, SetupTypeOK
      <4>2. CASE ~ HasSeat(c)
        BY <1>1, <4>2 DEF SetupConsistent, Lobby
      <4> QED  BY <4>1, <4>2
    <3>2. CASE clPc[c] = "synack" /\ down[c] # <<>>
      <4>1. PICK synack \in Plaintext("SYNACK") : down[c] = <<synack>>
        BY <3>1, <3>2
        DEF NotStarted, SynSent, Attesting, TurnedAway, Registered, Presented,
            Acknowledged, Notified, At
      <4> QED
        BY <2>0, <3>2, <4>1, OneMessage, PlaintextKinds DEF Expects, HeadType
    <3>3. CASE ~ (clPc[c] = "synack" /\ down[c] # <<>>)
      BY <2>0, <3>1, <3>3, OneMessage, MessageKinds
      DEF NotStarted, SynSent, Attesting, TurnedAway, Registered, Presented,
          Acknowledged, Notified, At, Expects, HeadType
    <3> QED  BY <3>2, <3>3
  <2> QED  BY <2>1, <2>2, <2>3, <2>4 DEF SetupInOrder
<1> QED  BY <1>1, AlwaysSetupConsistent, PTL

(***************************************************************************)
(* The contract starts on channels without anything of the setup on them   *)
(* (setup.c:84, players.c:86-105).                                         *)
(***************************************************************************)
THEOREM HandoverIsClean == SetupSpec => []HandoverClean
<1>1. ASSUME SetupConsistent PROVE HandoverClean
  <2>1. ASSUME NEW c \in Clients, clPc[c] = "shell" PROVE down[c] = <<>>
    <3>1. seat[c] \in Seats
      BY <1>1 DEF SetupConsistent, SetupTypeOK
    <3> QED
      BY <1>1, <2>1, <3>1, LiveClient DEF HasSeat, Acknowledged, Notified, At
  <2>2. opPc = "shell" => \A i \in Seats : up[players[i]] = <<>>
    BY <1>1 DEF SetupConsistent, Presenting, Notified, At
  <2> QED  BY <2>1, <2>2 DEF HandoverClean
<1> QED  BY <1>1, AlwaysSetupConsistent, PTL

(***************************************************************************)
(* players_connected counts the seats that are taken, and present_quotes   *)
(* finds a player at every seat (players.c:17-72): the check of the SYN    *)
(* keeps a client from a seat that is taken, and no other client takes it  *)
(* before the ACK, because one is attested at a time.                      *)
(***************************************************************************)
THEOREM SeatsAreCounted == SetupSpec => []SeatsCounted
<1>1. ASSUME SetupConsistent PROVE SeatsCounted
  <2>1. opPc \in PresentPcs \cup {"shell"} => AllSeatsTaken
    BY <1>1 DEF SetupConsistent, Presenting
  <2>2. AllSeatsTaken => SeatsTaken = Seats
    BY DEF AllSeatsTaken, SeatsTaken
  <2> QED  BY <1>1, <2>1, <2>2 DEF SetupConsistent, SeatsCounted
<1> QED  BY <1>1, AlwaysSetupConsistent, PTL

-----------------------------------------------------------------------------
(***************************************************************************)
(* The abstract agreement, as it is instantiated in Setup.                 *)
(***************************************************************************)
View      == [i \in Seats |-> IF players[i] = NoClient THEN {} ELSE shown[players[i]]]
InShell   == {c \in Clients : clPc[c] = "shell"}

LEMMA AgreementStutters ==
    ASSUME players' = players, View' = View, InShell' = InShell,
           (opPc = "shell") <=> (opPc' = "shell")
    PROVE  UNCHANGED Promise!vars
  BY DEF Promise!vars, View, InShell

LEMMA AgreementComplete == Promise!Complete <=> AllSeatsTaken
  BY DEF Promise!Complete, Promise!Everybody, AllSeatsTaken

LEMMA AllAgreed ==
    ASSUME AllSeatsTaken,
           \A i \in Seats : Acknowledged(players[i]) \/ Notified(players[i])
    PROVE  Promise!Agreed
  BY AgreementComplete
  DEF Promise!Agreed, Promise!Others, Promise!Everybody, Acknowledged, Notified,
      HasAllQuotes, AllSeatsTaken

LEMMA AgreementInit == SetupInit => Promise!Init
  BY DEF SetupInit, NoQuotes, Promise!Init

(***************************************************************************)
(* Taking a seat.                                                          *)
(***************************************************************************)
LEMMA AckAgrees ==
    ASSUME SetupConsistent, OpAck
    PROVE  [Promise!Next]_Promise!vars
<1>0. SetupTypeOK /\ opPc = "ack"
  BY DEF SetupConsistent, OpAck
<1>c. PICK c \in Clients : c = serving
  BY <1>0 DEF SetupConsistent, OneAtATime
<1>1. ~ HasSeat(c) /\ Attesting(c) /\ SeatFree(c) /\ shown[c] = {}
  BY <1>0, <1>c DEF SetupConsistent, OneAtATime, Lobby
<1>2. HeadType(up, c) = "ACK"
  BY <1>0, <1>1, <1>c, OneMessage, MessageKinds DEF Attesting, At, OpAck, Arrived, HeadType
<1>3. /\ players' = [players EXCEPT ![seat[c]] = c]
      /\ opPc' # "shell"
      /\ UNCHANGED <<clPc, shown>>
  BY <1>2, <1>c DEF OpAck, clSetupVars
<1>4. seat[c] \in Seats /\ c # NoClient /\ players[seat[c]] = NoClient
  BY <1>0, <1>1, ClientsAssumption DEF SetupTypeOK, SeatFree
<1>5. c \notin Promise!Everybody
  BY <1>1, <1>4 DEF Promise!Everybody, SetupConsistent, OwnSeats, HasSeat
<1>6. View' = View
  BY <1>0, <1>1, <1>3, <1>4 DEF View, SetupTypeOK
<1>7. Promise!Join(seat[c], c)
  BY <1>0, <1>3, <1>4, <1>5, <1>6 DEF Promise!Join, View
<1> QED  BY <1>4, <1>7 DEF Promise!Next

(***************************************************************************)
(* Learning who the others are, and starting.                              *)
(***************************************************************************)
LEMMA ClientAgrees ==
    ASSUME SetupConsistent, NEW c \in Clients,
           Connect(c) \/ ClProceeds(c) \/ ClLeave(c) \/ Accept(c)
    PROVE  [Promise!Next]_Promise!vars
<1>0. SetupTypeOK /\ players' = players
  BY DEF SetupConsistent, Connect, Accept, ClProceeds, ClLeave, ClExit, ClGone,
         ClAttest, ClPresentQuotes, ClGoLive, ClReceive, opSetupVars
<1>1. (opPc = "shell") <=> (opPc' = "shell")
  BY DEF Connect, Accept, ClProceeds, ClLeave, ClExit, ClGone, ClAttest,
         ClPresentQuotes, ClGoLive, ClReceive, opSetupVars
<1>2. CASE ClPresentQuotes(c)
  <2>1. down[c] = <<Quotes>> /\ AllSeatsTaken /\ HasSeat(c)
    BY <1>2, PresentedOnly DEF ClPresentQuotes, ClReceive, Arrived
  <2>2. Head(down[c]) = Quotes /\ HeadType(down, c) = "QUOTES"
    BY <1>0, <2>1, OneMessage, MessageKinds DEF HeadType
  <2>3. /\ shown' = [shown EXCEPT ![c] = Promise!Others(seat[c])]
        /\ clPc' = [clPc EXCEPT ![c] = "notice"]
    BY <1>0, <1>2, <2>1, <2>2, AllSetQuotes, MessageKinds
    DEF ClPresentQuotes, ClReceive, QuotesAtOtherSeats, Promise!Others,
        Promise!Everybody, HasSeat
  <2>4. InShell' = InShell
    BY <1>0, <1>2, <2>3 DEF InShell, ClPresentQuotes, ClReceive, SetupTypeOK
  <2>5. seat[c] \in Seats /\ players[seat[c]] = c /\ c # NoClient
        /\ \A i \in Seats \ {seat[c]} : players[i] # c
    BY <1>0, <2>1, ClientsAssumption
    DEF HasSeat, SetupConsistent, SetupTypeOK, OwnSeats
  <2>6. View' = [View EXCEPT ![seat[c]] = Promise!Others(seat[c])]
    <3> DEFINE Other == Promise!Others(seat[c])
    <3>1. shown'[c] = Other /\ \A d \in Clients \ {c} : shown'[d] = shown[d]
      BY <1>0, <2>3 DEF SetupTypeOK
    <3> HIDE DEF Other
    <3>2. \A i \in Seats :
            (IF players[i] = NoClient THEN {} ELSE shown'[players[i]])
              = IF i = seat[c] THEN Other
                ELSE IF players[i] = NoClient THEN {} ELSE shown[players[i]]
      BY <1>0, <2>5, <3>1 DEF SetupTypeOK
    <3>3. View' = [i \in Seats |-> IF players[i] = NoClient THEN {} ELSE shown'[players[i]]]
      BY <1>0 DEF View
    <3>4. [View EXCEPT ![seat[c]] = Other]
            = [i \in Seats |-> IF i = seat[c] THEN Other
                               ELSE IF players[i] = NoClient THEN {} ELSE shown[players[i]]]
      BY <2>5 DEF View
    <3>5. View' = [View EXCEPT ![seat[c]] = Other]
      BY <3>2, <3>3, <3>4, Zenon
    <3> QED  BY <3>5 DEF Other
  <2>7. Promise!Learn(seat[c])
    BY <1>0, <1>1, <2>1, <2>4, <2>6, AgreementComplete DEF Promise!Learn, View, InShell
  <2>8. PICK i \in Seats : i = seat[c]
    BY <2>5
  <2>9. Promise!Learn(i)
    BY <2>7, <2>8 DEF Promise!Learn
  <2> QED  BY <2>9 DEF Promise!Next
<1>3. CASE ClGoLive(c)
  <2>1. clPc[c] = "notice" /\ down[c] # <<>> /\ shown' = shown
    BY <1>3 DEF ClGoLive, ClReceive, Arrived
  <2>2. HasSeat(c)
    BY <2>1 DEF SetupConsistent, Lobby, NotStarted, SynSent, Attesting, TurnedAway, At
  <2>3. ~ Registered(c) /\ ~ Acknowledged(c) /\ ~ Presented(c)
    BY <2>1, OneMessage DEF Registered, Presented, Acknowledged, At
  <2>4. Notified(c)
    <3>1. seat[c] \in Seats /\ players[seat[c]] = c /\ c # NoClient
      BY <1>0, <2>2, ClientsAssumption DEF HasSeat, SetupTypeOK
    <3> QED  BY <2>3, <3>1, SeatedClient
  <2>5. HeadType(down, c) = "SETUP_COMPLETE"
    BY <1>0, <2>1, <2>4, OneMessage, MessageKinds DEF Notified, At, HeadType
  <2>6. InShell' = InShell \cup {c}
    BY <1>0, <1>3, <2>5 DEF InShell, ClGoLive, ClReceive, SetupTypeOK
  <2>7. Promise!Start(c)
    <3>1. c \in Promise!Everybody
      BY <1>0, <2>2 DEF Promise!Everybody, HasSeat, SetupTypeOK
    <3>2. View' = View
      BY <1>0, <2>1 DEF View
    <3> QED
      BY <1>0, <1>1, <2>2, <2>3, <2>6, <3>1, <3>2, PastTheLastAcknowledgement, AllAgreed
      DEF Promise!Start, View, InShell
  <2> QED  BY <2>7 DEF Promise!Next
<1>4. CASE ~ ClPresentQuotes(c) /\ ~ ClGoLive(c)
  <2>1. View' = View
    BY <1>0, <1>4
    DEF View, Connect, Accept, ClProceeds, ClLeave, ClExit, ClGone, ClAttest, clSetupVars
  <2>2. InShell' = InShell
    BY <1>0, <1>4
    DEF InShell, SetupTypeOK, Connect, Accept, ClProceeds, ClLeave, ClExit, ClGone,
        ClAttest, ClReceive, clSetupVars
  <2> QED  BY <1>0, <1>1, <2>1, <2>2, AgreementStutters
<1> QED  BY <1>2, <1>3, <1>4

(***************************************************************************)
(* The operator's other steps: only the last notification shows.           *)
(***************************************************************************)
LEMMA OperatorAgrees ==
    ASSUME SetupConsistent, ~ OpAck,
           \/ OpServes \/ OpAttestFails \/ OpDestroysTwice
           \/ OpPresents \/ OpPresentFails \/ OpLeaves
    PROVE  [Promise!Next]_Promise!vars
<1>0. SetupTypeOK /\ UNCHANGED <<players, clPc, shown>>
  BY DEF SetupConsistent, OpServes, OpSyn, OpFindsClosed, OpAttestFails, DropConnection,
         DropServing, OpDestroysTwice, OpPresents, OpPrintQuotes, OpBroadcast, OpCollect,
         OpNotify, OpFindsPlayerGone, OpPresentFails, OpLeaves, clSetupVars
<1>1. View' = View /\ InShell' = InShell
  BY <1>0 DEF View, InShell
<1>2. CASE opPc' # "shell"
  <2>1. opPc # "shell"
    BY DEF OpServes, OpSyn, OpFindsClosed, OpAttestFails, DropConnection, OpDestroysTwice,
           OpPresents, OpPrintQuotes, OpBroadcast, OpCollect, OpNotify, OpFindsPlayerGone,
           OpPresentFails, OpLeaves, PresentPcs
  <2> QED  BY <1>0, <1>1, <1>2, <2>1, AgreementStutters
<1>3. CASE opPc' = "shell"
  <2>1. OpNotify
    BY <1>3
    DEF OpServes, OpSyn, OpFindsClosed, OpAttestFails, DropConnection, DropServing,
        OpDestroysTwice, OpPresents, OpPrintQuotes, OpBroadcast, OpCollect, NextSeat,
        OpFindsPlayerGone, OpPresentFails, OpLeaves, BackToAccepting
  <2>2. AllSeatsTaken
    BY <2>1 DEF SetupConsistent, Presenting, OpNotify, PresentPcs
  <2>3. \A i \in Seats : Acknowledged(players[i]) \/ Notified(players[i])
    BY <2>1 DEF SetupConsistent, Presenting, OpNotify
  <2>4. Promise!Open
    BY <1>0, <1>1, <1>3, <2>2, <2>3, AllAgreed DEF Promise!Open, View, InShell
  <2> QED  BY <2>4 DEF Promise!Next
<1> QED  BY <1>2, <1>3

LEMMA SetupNextAgrees ==
    SetupConsistent /\ [SetupNext]_setupVars => [Promise!Next]_Promise!vars
<1> SUFFICES ASSUME SetupConsistent, [SetupNext]_setupVars
             PROVE  [Promise!Next]_Promise!vars
  OBVIOUS
<1>1. CASE UNCHANGED setupVars
  BY <1>1, AgreementStutters
  DEF setupVars, opSetupVars, clSetupVars, View, InShell
<1> QED  BY <1>1, AckAgrees, ClientAgrees, OperatorAgrees DEF SetupNext

(***************************************************************************)
(* The setup implements the abstract agreement, for every number of seats, *)
(* any clients and all faults (players.c:60-121, player setup.c).          *)
(***************************************************************************)
THEOREM SetupIsAgreement == SetupSpec => ImplementsAgreement
<1>1. SetupSpec => Promise!Spec
  BY AgreementInit, SetupNextAgrees, AlwaysSetupConsistent, PTL
  DEF SetupSpec, Promise!Spec
<1> QED  BY <1>1 DEF ImplementsAgreement
=============================================================================
