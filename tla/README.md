# Auntie in TLA+

A verification development for Auntie, the contract execution engine over Zcash
and Intel SGX in this repository. Paths below are relative to the repository's
`src/` directory unless they name a file of this one.

* `Auntie.tla` and what it is built from: the contract, from `initialize` to
  `settle` or `refund`, checked and proved.
* `Setup.tla`: how the parties meet, before the contract.
* `Records.tla`: the channel between two enclaves, below the contract.
* `Hosts.tla`: the contract again, with the shells and the files through which
  hosts drive it.
* `Terms.tla`: the amounts and data of the contract, beside its control.
* `Blocks.tla`: how an enclave counts blocks in a file its host gives it.

## 1. The system

One operator and N players (`AUNTIE_NUM_PLAYERS`) execute a contract. Each party
is a host process with a shell and an enclave that the host calls (ECALLs) and
that calls back (OCALLs). The enclaves hold keys the hosts do not know; the
hosts hold files, sockets and the right to make or not to make the next call.

### Components

| Component | Code | State | Operations |
|---|---|---|---|
| operator enclave | `operator/trusted/entry.c`, `core.c` | `state`, `deposit_wallet`, `unauthorized_settlement`, `operator_signature` | initialize, clear_contract, finalize, refund |
| player enclave | `player/trusted/entry.c`, `core.c` | `state`, two wallets, `deposit_advice`, the settlement's hashes, the functionality's output | initialize, deposit_and_input, get_deposits, confirm_deposits, settle, refund |
| player registry | `operator/trusted/players.c` | `players[]`, `players_connected` | add_player, present_quotes |
| attestation | both `mutual_attestation.c`, `player/trusted/setup.c` | a channel and two or three messages at a time | SYN, SYNACK, ACK; quotes, acknowledgement, announcement |
| messages, channel | `common/trusted/messages.c`, `channel.c` | two sequence numbers, a partly consumed record | send, receive, encrypt, tear down |
| functionality | `operator/trusted/functionality.c` | none | the lottery |
| Zcash library | `common/trusted/rust/zcash_ffi` | none (keys and transactions belong to callers) | build, sign, authorize a settlement |
| block verification | `zcash_ffi/src/blocks.rs` | a position in the file, the previous hash, a count | header, count, txids, Merkle root |
| hosts | both `main.c`, `shell.c`, the OCALL files | files, sockets | shell commands, accept loop, callbacks |
| chain | outside the repository | deposits, settlement, depth | mine |

How they interact: a host enters its enclave with one ECALL at a time from a
single-threaded shell; the enclave reaches its host by OCALLs whose return
values it must not trust where money depends on them; enclaves exchange messages
over one connection per player; everybody sees the chain. There are no shared
variables and no threads. The concurrency is that of N+1 sequential processes.

### What is hard here

* **Order.** The operator serves players in the order of their numbers with
  blocking receives; players call when they like.
* **Partial failure.** A broadcast can stop in the middle. A send or a callback
  can be reported as failed after it took effect, and the same `return ret`
  must be right for both cases.
* **Races on the chain.** A refund and the settlement compete for one deposit.
* **Stale state.** Pointers and hashes live in static variables across calls, and
  error paths free some of them.
* **Crash.** Nothing is persisted: a host that stops loses its keys. What it has
  left is in its files, which a command empties before the enclave decides
  whether to carry it out.
* **Fragmentation.** TCP cuts records anywhere.
* **Boundaries.** Two delays, unsigned fees, offsets that must add up, a branchless
  comparison.

### What makes each component correct

* Contract: the operator cannot have both the settlement and its collateral key;
  a settlement needs every player's consent; a payout is only out after the
  settlement; nobody who is up loses a deposit; decisions are final.
* Setup: who starts, starts with the same quotes as everybody else; seats are
  given once and counted; a client that leaves does not block the others, except in
  the middle of a plaintext message (section 6, item 3).
* Channel: whole messages, once, in order; a receive ends.
* Hosts: what is in a file is worth what it was when it was written, and what a
  host cannot read from a file it can ask for again.
* Block verification: never more blocks than there are, whatever the file holds;
  the exact number for an honest file; and no file that a host may make by
  mistake ends the enclave.
* Terms: spent equals paid plus fees; one winner, told so; players are shown what
  they sign for.

## 2. Modules

| Module | Models | Extends |
|---|---|---|
| `Parties` | the parties, channels between them, what hosts hold | |
| `Zcash` | the chain (external) and what `blocks.rs` reads off it | `Parties` |
| `OperatorTEE` | the operator's enclave | `Zcash` |
| `PlayerTEE` | the players' enclaves | `Zcash` |
| `Auntie` | all of it together: `Next`, fairness, properties | `OperatorTEE`, `PlayerTEE` |
| `Contract` | the abstract contract | |
| `AuntieInductive` | the inductive invariant | `Auntie` |
| `AuntieSafetyProofs`, `AuntieRefinementProofs` | theorems: types and safety; the refinement | the above, `TLAPS` |
| `Hosts` | shells, callbacks and files around `Auntie` | `Auntie` |
| `HostsProofs` | theorems | `Hosts`, `AuntieRefinementProofs` |
| `Agreement` | the abstract setup | |
| `Setup` | accept loop, attestation, quotes, announcement | |
| `SetupInductive`, `SetupProofs` | the inductive invariant of the setup; theorems | `Setup` |
| `Fifo` | what a channel promises | |
| `Records` | messages over records over TCP | |
| `RecordsInductive`, `RecordsProofs` | the inductive invariant of a channel; theorems | `Records` |
| `Loops` | what loops over arrays compute: sums, joined copies, the bits of a word | |
| `LoopsProofs` | induction over a loop's counter, and lemmas about `Loops` | `Loops` |
| `Terms` | amounts, offsets, lottery, settlement | `Loops` |
| `TermsInductive`, `TermsProofs` | the inductive invariant of the terms; theorems | `Terms`, `LoopsProofs` |
| `Blocks` | both loops of `blocks.rs` over a file | |
| `BlocksProofs` | theorems | `Blocks`, `LoopsProofs` |
| `MCAuntie`, `MCHosts`, `MCSetup`, `MCRecords`, `MCTerms`, `MCBlocks` | values for the model checker | |

How they fit together: `Auntie` composes the enclaves, the channels and the chain.
Its channels are those of `Fifo`, which `Records` implements; its two numbers about
the chain are those that `Blocks` computes from a file; it begins where `Setup` ends,
with empty channels (`HandoverClean`) and parties that agree on each other
(`Agreement`). `Hosts` contains `Auntie` and adds what the shells do.

In `OperatorTEE`, `PlayerTEE`, `Hosts`, `Setup`, `Records` and `Blocks` some operators are
used by no action (`OnePlayerTooFar`, `TrustingTheHost`, `AnySeat` and the like; also a
few in `Zcash` and `Terms`). Each is a wrong version of the definition after it, named
for the mistake, and exists to show that a property would notice that mistake
(`mutants` in `PROJECT.json`).

### Correspondence for the contract

* `opState` and `plState[p]` are the `state` of the two `entry.c`. A `CHECK_STATE`
  is a guard: a refused call changes nothing, so it is no step.
* An ECALL that cannot block is one action. `clear_contract`, `finalize` and
  `get_deposits` wait for peers; they are split at the waits (`opPc`, `opIdx`,
  `plPc`), and no other call of that party runs in between, as in the shell.
* `unauthorized`, `opSignature`, `advice`, `output`, `wallet`, `settlementHash`
  are the static variables. A pointer is modelled by whether it is NULL, a
  settlement by the number of its creation (0 for NULL or a zeroed buffer), which
  stands for its sighash and its txid.
* `depositKeyOut`, `payoutOut` and `settlementOut` record what an OCALL handed to
  a host. `host_io` lets a callback report failure with or without effect.
* `Delivered` and `MaybeDelivered` are the two ends of a send. After a failed
  send or receive every caller aborts, which `Fifo` and `Records` show is enough.
* The type checks on messages are in the model, as branches to `ABORTED`.
* `settle` without an output: the callback gets a NULL pointer and a length, and
  the host dies in `fwrite`. `tee[p] = "gone"`.
* `refund` without a wallet: the enclave dereferences NULL, `ecall.h:18-23` exits.
  `tee[x] = "faulted"`.
* An evaluation of the contract that fails for want of memory has released outputs
  that the cleanup releases again (`functionality.c:84`, `OpEvaluateFaults`): the
  enclave may fault or go on to `ABORTED`.

### Correspondence for the hosts

`Hosts` has one action per shell command whose file matters: `initialize` (the
deposit address), `refund` (the deposit key), and `settle` or `finalize`
(`"conclude"`: payout key and output, or the settlement). Each is an action of
`Auntie` together with what becomes of the file, which `handle_*` opens with mode
`"w"` before the ECALL; a refused call empties it and does nothing else (`Refused`).
`complete` is the set of files that hold all that belongs there. It need not be what
the callback reported, since `fclose` is not checked (`Output`). `returned` is the set
of calls that have returned 0, which is all a host learns of the enclave's state.
Money moves on the chain only with what a complete file holds. The other commands
are those of `Auntie`.

### Correspondence for the setup

`opPc` is the place in `main.c`'s accept loop, in `mutual_attestation` or in the
loops of `present_quotes`; `players` and `connected` are the array and the count of
`players.c`; `clPc` is the place in the player's `connect_to_operator`. The model is of
the default build, in which the assertions of `add_player` are compiled out
(`trusted.mak:32-36`): it overwrites the seat and counts up, whoever is there. A quote
is the identity of the client it vouches for. After an operator-side failure in
`mutual_attestation` the connection is dropped; at the two places where a message is destroyed twice the
allocator may abort the process or not (`OpDestroysTwice`, `opPc = "dead"`).
Failures of `present_quotes` leave everything as it is, as the code does.

What may go wrong, by kind: `"leave"`, a process ends (the handlers of SIGINT are
installed only when the setup is over, so before that the signal kills); `"attest"`,
a step of the attestation fails at the operator for a reason of its own;
`"present"`, a step of `present_quotes` does; `"short"`, only a part of a SYN or SYNACK
gets through. These two are plaintext, so their sender does not notice
(`messages.c:49`). A part of the header (`CUT_HEADER`) makes the read fail. A part of the
payload (`CUT_PAYLOAD`) makes it wait for the rest, also when the stream has ended
(`messages.c:82-93`). A client that a failed step has turned away exits. Whoever waits
anywhere else for a process that is gone finds the end of its stream (`EndOfStream`).

### Correspondence for the records

A unit of the stream is named by its record and its place, so decryption is: the
units are those of one record, whole, and sealed with the receiver's sequence
number. `recPc` is the state of `channel->message`: `none` for NULL, `reading` and
`open` around decryption, `stale` after a failure that left it set
(`channel.c:56-67`, `85-87`). `recv` returns any part of what has arrived. The
nonce travels in the envelope and nothing depends on its value.

In either direction the first message (SYN or SYNACK) is plaintext and the rest is
encrypted; `EncryptEgress` and `EncryptIngress` are the switch (`channel_encrypt`) at the
two ends. A short write of an encrypted message is an error. One of the plaintext
message is not: `plaintext_egress` returns the count, and `auntie_msg_send` turns any
count into 0 (`messages.c:49`). So a cut plaintext message passes for sent
(`PassesForWhole`). Nothing follows it, because its sender sends again only when it has
received the answer (`MaySend`), and there is none to a message that has not arrived.

The model lets a sender send until a send fails. A second send on a connection
that the peer has reset (SIGPIPE) does not occur in the contract: each party
receives between its sends, and that receive fails first.

### Correspondence for the terms

Buffers are sequences of cells that remember what they are part of, so an offset
that is off by one yields an item that does not import. `Pack` and `Unpack` are
the two ends of `DEPOSIT_AND_INPUT`, `ClearContract` and `GetDeposits` those of
`CLEAR_CONTRACT`. `DepositedAmount` sums all notes for the wallet,
`HasUniqueNote` and `Spend` choose the one that is spent. `Move` is the code's
comparison by shifts, on words, which are the sets of the positions of their ones
(`Bits`). Amounts are reduced modulo
`ZatRange` where the code subtracts unsigned numbers.

`Terms` has no type invariant: its other properties fix the contents of every
buffer and amount that matters.

### Correspondence for the blocks

The file is not given in advance: each read finds its end or any of the things that
could be there, so a behaviour is a file as far as it is read. A header is the block
it belongs to and stands for its hash; solution and difficulty filter are the set
`Work`. `ReadHeader`, `ReadCount` and `ReadTransactions` are the three parts of a block
in `authorized_and_buried`; a refund's file has headers only. A count is the four
bytes in the order in which they are read; one that asks for more txids than the
heap holds ends the enclave, as does a count of 0, whose Merkle tree has no root.
`MerkleRoot` is the code's, layer by layer, an odd node paired with itself, and a
hash is the pair of what is hashed. `ConsensusRoot` is what a block's header must
carry: the same tree, defined from the top down as the network defines it, without
the code's loop. Of the two numbers, `AuthorizedAndBuried` and
`BlocksSinceCheckpoint` of `Zcash` are the values for an honest file that shows the
whole chain, which `Exact` is about.

## 3. What is checked

`PROJECT.json` lists for every run its module, configuration and properties.

### The contract

| Run | Instance | Shows |
|---|---|---|
| `safety` | 2 players, delays 2 and 3; calls, callbacks and whole processes fail | type invariant, seven safety invariants, the inductive invariant, `Irrevocable`, refinement of `Contract` |
| `liveness` | 2 players, delays 1 and 2, `call_error` | `PlayerMadeWhole`, `OperatorMadeWhole` |
| `flow` | 2 players, no failures | `ContractCompletes` |
| `hosts` | operator and 1 player with their files, delays 1 and 2, everything fails | `AddressLive`, `ReturnsTellTheState`, `PlayerFindsItsMoney`, `OperatorFindsItsMoney` |
| `output_lost` | 1 player | a disagreement, section 6 |

`OperatorCommitted` is the property the comments in `ecall_finalize_impl` and
`ecall_refund_impl` argue for; a version that trusts the return value of the
callback breaks it. `PayoutOnlyAfterSettlement` and `SettleNeedsTheLongerChain`
are what the two delays are for. `UnanimousConsent` relates the operator's
settlement to each player's memory of it, also after failures. `PlayerMadeWhole`
is why settle is allowed after a refund: without that, a refund that loses the
race on the chain leaves the player with nothing.

`Contract` is what the parties promise each other: players consent, once all have,
the operator commits, and then publishes; before it commits it may reclaim its
collateral; players may reclaim at any time; a player is paid only after
publication. `ImplementsContract` maps `consent` to "has signed", that is, has a
settlement's hash and no advice left.

`PlayerFindsItsMoney` and `OperatorFindsItsMoney` are the liveness properties as a host
sees them: they hold also when a file could not be written, when the command was
repeated or refused in between, and when either process goes down (excepting the
party whose own process that was, since nothing is persisted). The exception
`OwnLoss` is a host that has got what it asked for, was told so by a return value
of 0, and did not keep the file: the enclave does not hand out a payout key or a
settlement twice. `ReturnsTellTheState` is why that is the host's own affair.

### The setup

| Run | Instance | Shows |
|---|---|---|
| `setup` | 2 seats, 3 clients, all misfortunes | `LiveForAll`, `SetupInOrder`, `HandoverClean`, `SeatsCounted`, types, the inductive invariant, refinement of `Agreement`, `SetupCompletes`, `AcceptLoopMovesOn` |
| `connection_leak` | 2 seats, 3 clients | a disagreement, section 6 |

`Agreement` is what the setup promises without connections and messages: a seat is
taken once; when all are taken everybody learns who the others are; a party starts
only when all of them know. `ImplementsAgreement` maps `view` to the quotes a client has
been shown and `started` to the clients that have reached their shell.

`SeatsCounted` is what lets `present_quotes` dereference every entry once the count is
complete. Since `add_player` does not look, it rests on the check of the SYN, several
steps earlier, and on one attestation at a time. `AcceptLoopMovesOn` has one exception,
`Stranded`: an attestation that waits for the rest of a plaintext payload never ends, and
there the operator is kept from the other clients.

Clients differ only in the seat they ask for, so the run takes them in the order of
their seats (`InOrderOfSeats`).

`SetupCompletes` is claimed for setups in which nothing fails and no client leaves
that has not been turned away. Otherwise the code can get stuck: when `present_quotes` fails, no seat is freed, every later client is
refused as `-EBUSY`, and the loop in `main.c:293` never ends. A registered player
that leaves cannot be replaced either. The operator has to be restarted.

### The channel

| Run | Instance | Shows |
|---|---|---|
| `records` | a plaintext message and then encrypted ones, 5 in all, all mishaps | `InStep`, the inductive invariant with the types, refinement of `Fifo`, `ReceiveReturns` |
| `plain_eof` | a plaintext message and an encrypted one | a disagreement, section 6 |

`ImplementsFifo` justifies the channels of `Parties`. It depends on callers that stop
after a failure, and on the protocol: a sender that did not wait for an answer
(`NotWaitingForAnAnswer`) would have the missing part of a cut plaintext message made
up by the next one. A message is lost only as the last.

### The terms

| Run | Instance | Shows |
|---|---|---|
| `terms_safety` | 3 players, 6 kinds of deposit, inputs of 0 or 1 byte, 6 random words | `FeesCovered`, `OperatorRewarded`, `WinnerTakesThePot`, `DepositsShown`, `GoodDepositsSettle` |
| `wrong_offset` | 2 players, inputs of up to 2 bytes | a disagreement, section 6 |

### The blocks

| Run | Instance | Shows |
|---|---|---|
| `blocks` | a chain of five blocks, a fork of three, a block without work | `NeverOvercounts`, `Exact`, `EnclaveSurvives`, types |

`NeverOvercounts` is what money rests on: the settlement counts as found before the
txids have been compared with the header, so that the number must not have moved
when the comparison fails. `Exact` is the other direction, for honest files, and fails
for a Merkle tree that treats odd layers differently. `EnclaveSurvives` says which
mistakes of a host do not end its enclave, and its keys: a file cut off, from
another chain, with wrong txids, or in the format of the other call. A count of 0
does end it.

### Bounds, and why they are enough

* **Two players.** The loops over players have a first, a last and one in between
  only in their index; what differs between two players is whether they were
  served before or after a failure, and two give both. The proofs are for any
  number. The flow and the refinement treat the operator apart.
* **Three players** in `Terms`, as in the Makefile: the comparison by shifts needs two
  bits, and a deposit in the middle has neighbours on both sides.
* **Delays 1 and 2, or 2 and 3.** Depths are compared with the two delays only, so
  they saturate at the longer; these values leave room for a refund before,
  between and after the steps of a settlement.
* **Messages.** Channels in `Auntie` are unbounded; the states bound them to two.
* **Three clients for two seats**: one too many, for a taken seat or too late.
* **One player** in `hosts`: its files are its own, and what two players add is in
  `safety` and `liveness`. Both hosts have all three kinds of file and all faults.
* **Five blocks** (`MaxBlocks`): the settlement in the second leaves one before it and
  three on top; the fork has it one later, the block without work is on the chain.
  Lists have up to four txids, for odd and even layers. `Heap` is 10 txids, above
  any block and below the one `Counts` value that stands for a huge count.
* **Records.** Envelope and header of two units can be cut once each; payloads of
  0 and 2 are the message without a body and one that can be cut; four encrypted
  messages after the plaintext one leave one before, at and after a failure on either side. `MaxSends` is the bound.
* **Random words** 0 to 5 give every winner twice; `ZatRange` is one above the
  largest sum, 9 for each party (37 for four, 28 for three), so only a subtraction
  below zero wraps.
* `MaxInput` bounds inputs; the offset error in section 6 shows at length 1, and an
  input longer than the address and advice behind it reads past the message.
* `CHECK_DEADLOCK FALSE` is used for `Setup`, `Records`, `Terms` and `Blocks`, which end:
  the setup in its shells, the channel when nobody sends, the terms when all is
  shown, a file where it ends. The contract's runs check for deadlock.

### Fairness

`FairSpec`: blocks keep coming and broadcast transactions are mined; an ECALL in
progress goes on or fails, because its receive gets a message or the host
interrupts it, which is what the SIGINT handlers of both `main.c` are for (the
shell ignores the `EINTR` of its own prompt, `shell.c:153`); and a host that is up
asks for its refund or payout once that is due. No fairness is assumed of any
other call: a host may stop taking part at any point.

`FairHosts`: the same with files. A host that is up asks for its refund until it
finds a key in its file, and the disk takes it sooner or later; if it keeps emptying
the file it still spends the deposit at some time when the key is there (strong
fairness of `RefundFromFile`); and it calls settle until that has returned 0.

`FlowSpec`: every host makes the calls of the README in order, none fails, and
none is obliged to ask for a refund.

`FairSetup`: everyone that can move does; nobody has to leave, and what may fail for
no reason of the protocol's need not; `accept` takes from a backlog, so a
connection that waits is eventually accepted, which is strong fairness because
the operator accepts only between two attestations.
A client that neither answers nor closes its connection would keep the operator in
a receive; only the operator's SIGINT ends that. The setup has two such clients: one
stopped while it waits for a SYNACK of which a part is missing, and one whose SYN is cut
(`Stranded`). No other client stops without leaving.

`FairRecords`: a receive that can go on does. Nobody is obliged to send.

### Assumptions

* The chain does not reorganise, nobody forges blocks, and hosts show the whole
  chain: a shorter prefix only yields `-EAGAIN`.
* The files a host prepares are well formed, except block files (`Blocks`).
* Hashes do not collide (`MerkleAssumption` says it of Merkle trees); every block has
  a transaction and the consensus root of its transactions in its header, and the
  heap holds the txids of one block (`BodyAssumption`): 16 MB are 500000 txids, and a
  block of 2 MB has fewer.
* Amounts are those of a chain (`AmountsFit`): no deposit is above the money supply,
  2.1e15 zatoshi, and all parties' together are below 2^64, which holds for
  thousands of players, who are counted with an `int` (`NumbersAreNatural`). A deposit
  transaction has at least one note (`BundlesAreTransactions`).
* `RefundDelay <= SettleDelay`, as in the Makefile (40 and 80). A player's safety
  after a refund rests on it.
* Enclaves and cryptography do what they promise.
* The delay constants and numbers of players are the same for all parties: they are
  compiled in and part of the measurement the quotes attest.

## 4. What is proved

### The contract

These theorems are for every number of players, every pair of delays that meets
`DelayAssumption` and every set of faults.

* `AuntieSafetyProofs!TypeCorrect`: `TypeOK` is inductive.
* `AuntieSafetyProofs!AlwaysConsistent`: `Consistent` is an invariant. From it
  follow `OperatorIsCommitted`, `ConsentIsUnanimous`, `PayoutAfterSettlement`,
  `SettleWaitsLonger`, `PointersAreLive`, `MessagesArriveInOrder`,
  `FaultsAreHarmless` and, for steps, `DecisionsAreIrrevocable`.
* `AuntieRefinementProofs!Implementation`: `Spec` implements `Contract`'s.

Why an inductive invariant is needed: none of the properties is inductive. That
the settlement which leaves the enclave is signed by all, say, depends on what
signatures are in flight; that depends on which settlement the players were sent;
and that on there being one settlement only, since a second clear_contract is
impossible after the first. `Consistent` in `AuntieInductive` states this chain in
parts, each about one boundary:

1. `OneSettlement`: at most one settlement is created, and which states and
   program counters go with which of the operator's pointers;
2. `OperatorsSecrets`: what its host holds determines the operator's state;
3. the wallets: a wallet exists from `initialize` on and a deposit needs one;
4. each player's channel and state: which messages can be in flight in which
   state, upwards and downwards, and what they carry;
5. the players' memory: whoever has signed has the settlement's hash and no
   advice;
6. the chain: what is mined was handed out, a payout follows a burial, and the
   depth of the settlement is less than that of the chain.

The proof that `Next` preserves it has a lemma per component (operator, player,
chain, crash) with one step per action. The properties then follow from `Consistent`
and `TypeOK` without induction. The refinement proof uses `Consistent` to show that
whenever the operator commits all players have consented, and that no step takes
back a consent or a publication.

### The hosts

`HostsProofs!HostsAreHosts`: every step of `Hosts` is one of `Auntie` or changes only
files, so all theorems about the contract hold with files; among them the refinement,
`HostsKeepTheContract`. `AddressIsLive` and
`ReturnsAreTrue` follow from one more invariant, `HostsOK`, by which a wallet outlives
the address in the file and only the calls that reach their last state return 0.

### The setup

For every number of seats, any set of clients and all misfortunes. Neither `LiveForAll`
nor `SetupInOrder` is inductive: that all acknowledged before anybody is notified
depends on where the acknowledgements are. `SetupConsistent` in `SetupInductive` rests
on the observation that at most one message is under way in either direction, so that
the conversation with a client is always at one of eight stages (not started, SYN sent,
attesting, turned away, registered, presented, acknowledged, notified; at each the
client may also be gone). `Presenting` says which stages go with which place of the
operator: seats before the loop's index are one stage ahead of those from it on.
`OneAtATime` has the seat of the client being attested free between SYN and ACK, from
which the count follows (`Counted`). `SetupProofs` shows that a step of the operator
moves one client by one stage, that a step of a client starts it or keeps it at its
stage, and that both keep `SetupConsistent`. From it follow `SetupTypeCorrect`,
`EverybodyIsLive`, `SetupMessagesInOrder`, `HandoverIsClean`, `SeatsAreCounted` and
`SetupIsAgreement`.

### The channel

For every size of envelope and header, every set of payload sizes, any number of
messages, the first in plaintext, and all mishaps. `InStep` and the refinement are
not inductive: that decryption finds a whole record depends on what is on the wire.
`RecordsConsistent` in `RecordsInductive` says:

1. the wire continues itself: behind each unit come the rest of its record and the
   beginning of the next (`Continuous`), and only the last record can be cut short;
2. the wire continues what the receiver has taken (`JoinsUp`, with `NextUnit` the
   unit that is due);
3. what the receiver has is the beginning of the record that is due (`TakenInOrder`);
4. the numbers sealed into the records continue each other likewise, and the
   receiver's is that of the record that is due (`NumbersMatch`).

After a failed receive nothing of the kind holds and nothing is claimed except what
has been delivered, because the callers stop. `StayInStep` and `ChannelIsFifo` follow.

### The terms

For any number of players, any set of deposit transactions with any number of notes,
inputs of every length, any amounts that meet `AmountsFit` and every random word.

What these properties depend on is computed by loops: running sums of lengths, copies
behind copies, and a comparison in five shifts. `LoopsProofs` has what is needed to
reason about loops of any length. `Induct` is induction over a counter, stated for
sets and derived from the well-foundedness of `<` on the naturals; `Recursion` says
that a loop has a value after every number of rounds, and that this value is unique.
From these follow `SumTable` and `JoinTable`; `JoinPieces`, by which piece i of a joined
buffer starts where the lengths before it add up to; and `BitsDetermine`, by which two
words with the same bits are equal, which is what the branchless comparison rests on.

`TermsConsistent` in `TermsInductive` says of every buffer what it holds once it is
filled: the message of a player is its packed deposit, what the operator has collected
is what the hosts gave in the order of the players, the result pays one player, the
settlement spends one note of each wallet, its only one if no Merkle path is missing,
and what is shown are the deposits. Each part needs the ones before it, as the code's
buffers do. `FeesAreCovered`, `OperatorIsRewarded`, `TheWinnerTakesThePot`,
`DepositsAreShown` and `GoodDepositsAlwaysSettle` follow. In `FeesAreCovered` the pot is a
sum over the players, so that it must be shown that no subtraction wraps (`PotFits`).

### The blocks

For every set of blocks, any lists of txids, any heap that holds a block, and files
of any length.

* `DepthIsReal` is `NeverOvercounts`; `BlocksTypeCorrect` bounds the count by the headers
  that verified. `BlocksInvariant` relates the count to the place of the settlement in
  the accepted blocks: between two blocks it is the number of blocks on top, inside a
  block it is one behind.
* `MerkleIsConsensus`: for a list of any length at least one, the root of the code's loop
  is `ConsensusRoot`. By induction over the layers, layer h holds the trees over 2^h
  txids that start at every 2^h-th of them, as many as it takes to cover all (`Row`);
  the layer at which one suffices is the height of the tree.
* `HonestFilesCountExactly` is `Exact`, and `NoRealFileIsFatal` is `EnclaveSurvives`. They follow
  from `FileInvariant`: lists keep pace with headers, the count is the number of lists
  after the first with the settlement, and a call that has failed has read a list
  that is not its block's own, which is where `MerkleIsConsensus` is needed.

The assumptions are the three named ones of `Blocks`.

### Left to the model checker

Liveness, which needs fairness and `ENABLED`, in all modules. All safety properties,
action properties and refinements that the runs check are theorems.

## 5. What is not modelled

* **Cryptography.** Keys, hashes, signatures, proofs, AES-GCM, Equihash and random
  numbers have no state to explore; the models use what they promise.
* **Key exchange and the contents of quotes**, and their verification by the tools: a
  quote is the identity of its client. That the quote commits to the exchanged keys
  is a cryptographic argument.
* **Encodings** of transactions, notes and headers, apart from the order of bytes in
  a count and the offsets of `Terms`.
* **`read_entire_file` and the other utilities**: they return what is there, or the
  command is not carried out before anything has changed.
* **The settlement memo, printing, the build, the Rust runtime**: no state and no
  control of the protocol.
* **Memory management** is modelled only where a pointer's being NULL or freed twice
  changes what happens next.

`PROJECT.json` gives each component's status and reason.

## 6. Where code and comments disagree

Each of these has a run with a counterexample:

1. `output_lost`: `player/trusted/core.c:232` returns 0 after the last callback of
   get_deposits failed and the output was freed. The player goes on, confirms, and
   when it settles its host is handed a NULL output with a length.
2. `connection_leak`: early returns of `ecall_connect_to_player` do not drop the
   connection that `accept_player_connection` believes released.
3. `plain_eof`: the plaintext payload loop (`messages.c:82-93`) does not stop at the end
   of the stream. `encrypted_ingress`, which calls the same `recv`, handles that case and
   says so (`channel.c:47`); no comment speaks of the plaintext loop itself. In the setup
   it keeps the operator in a SYN that is cut (`Stranded`).
4. `wrong_offset`: the functionality is given bytes from the payout address on
   instead of the player's input.

These are in the models, as what the code does, without a run of their own:

5. Refund before initialize dereferences a NULL wallet in both enclaves instead of
   returning an error. No deposit can be lost by it (`FaultStrandsNoDeposit`, proved).
6. The comment at `player/trusted/core.c:331` says that the transition to REFUNDED
   keeps a player from getting both a refund and the output; `entry.c:94` allows
   settle after a refund, deliberately and with reasons: `PlayerMadeWhole` fails
   without it. Only the comment is out of date.
7. Two error paths of the operator's `mutual_attestation` destroy a message a second
   time (lines 174 and 259).
8. The check for exactly one note per deposit (`transactions.rs:205`) looks only at
   actions that have a Merkle path. The settlement that results is not accepted by
   the network. `FeesCovered` is therefore stated for settlements made with all the
   paths.
9. `ecall_connect_to_player` is documented to return a player's number and returns 0.
10. The operator's host needs Merkle paths for deposits that `clear_contract` shows
    it only afterwards, so it has to learn of them otherwise.
11. A block file with a transaction count of 0 ends the enclave (`blocks.rs:108`), and
    with it the keys. No such block exists, so it takes a damaged file.
12. Commands open their output file before the enclave has accepted the call. A
    repeated settle or finalize is refused and has destroyed the only copy of the
    payout key, the output or the settlement. `fclose` is not checked.
13. A failing allocation in the functionality releases outputs whose pointers the
    cleanup of clear_contract releases again (`functionality.c:84`).
14. The `perror` of `handle_settle` and of both `handle_refund` names the file of blocks
    when it is the output file that cannot be opened, and `shell.c:166` drops the last character of a last line without
    a newline. Neither changes what a model does.

## 7. Plan

Done: the contract with its proofs and its refinement; the hosts and their files; the
setup with its proofs and its refinement of `Agreement`; the channel with its proofs
and its refinement of `Fifo`; the terms and the block files with their proofs.

Next, in this order:

1. A composition of `Setup` with `Auntie`, in which a contract starts at the
   announcement, and a player that misses it never starts.
2. The contents of an attestation: which keys a quote commits to, and that a channel
   ends where the quotes say it does.
