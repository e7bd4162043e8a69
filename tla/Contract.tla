------------------------------ MODULE Contract ------------------------------
(***************************************************************************)
(* What an Auntie contract promises, without enclaves, messages or loops:  *)
(* deposits are settled together, by a settlement everyone consented to    *)
(* and the operator committed to; nobody is paid before that; everyone can *)
(* reclaim a deposit until then, the operator only before committing.      *)
(***************************************************************************)
EXTENDS Naturals

CONSTANT NumPlayers

VARIABLES
    coin,       \* [0..NumPlayers -> {"none", "unspent", "settled", "refunded"}]
    consent,    \* the players who agreed to the settlement
    committed,  \* the operator can no longer back out
    published,  \* the settlement is in the operator's hands
    reclaimed,  \* the parties who hold their deposit key
    paid        \* the players who hold their payout and output

vars == <<coin, consent, committed, published, reclaimed, paid>>

Players == 1..NumPlayers
Parties == 0..NumPlayers

Init ==
    /\ coin = [x \in Parties |-> "none"]
    /\ consent = {}
    /\ committed = FALSE
    /\ published = FALSE
    /\ reclaimed = {}
    /\ paid = {}

Deposit(x) ==
    /\ coin[x] = "none"
    /\ coin' = [coin EXCEPT ![x] = "unspent"]
    /\ UNCHANGED <<consent, committed, published, reclaimed, paid>>

Consent(p) ==
    /\ consent' = consent \cup {p}
    /\ UNCHANGED <<coin, committed, published, reclaimed, paid>>

(***************************************************************************)
(* The operator commits for better or worse: it may lose the settlement.   *)
(***************************************************************************)
Commit ==
    /\ ~ committed
    /\ consent = Players
    /\ 0 \notin reclaimed
    /\ committed' = TRUE
    /\ published' \in BOOLEAN
    /\ UNCHANGED <<coin, consent, reclaimed, paid>>

Reclaim(x) ==
    /\ x = 0 => ~ committed
    /\ reclaimed' = reclaimed \cup {x}
    /\ UNCHANGED <<coin, consent, committed, published, paid>>

Refund(x) ==
    /\ x \in reclaimed
    /\ coin[x] = "unspent"
    /\ coin' = [coin EXCEPT ![x] = "refunded"]
    /\ UNCHANGED <<consent, committed, published, reclaimed, paid>>

Settle ==
    /\ published
    /\ \A x \in Parties : coin[x] = "unspent"
    /\ coin' = [x \in Parties |-> "settled"]
    /\ UNCHANGED <<consent, committed, published, reclaimed, paid>>

Pay(p) ==
    /\ \A x \in Parties : coin[x] = "settled"
    /\ paid' = paid \cup {p}
    /\ UNCHANGED <<coin, consent, committed, published, reclaimed>>

Next ==
    \/ \E x \in Parties : Deposit(x) \/ Reclaim(x) \/ Refund(x)
    \/ \E p \in Players : Consent(p) \/ Pay(p)
    \/ Commit
    \/ Settle

Spec == Init /\ [][Next]_vars
=============================================================================
