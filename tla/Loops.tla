-------------------------------- MODULE Loops --------------------------------
(***************************************************************************)
(* What the loops over an array compute that the terms of a contract are   *)
(* made with: a running sum, and the copies of all elements one behind the *)
(* other.                                                                  *)
(***************************************************************************)
EXTENDS Integers, Sequences

SumTo(v, n) ==
    LET sum[i \in 0..n] == IF i = 0 THEN 0 ELSE sum[i - 1] + v[i]
    IN  sum[n]

JoinTo(s, n) ==
    LET joined[i \in 0..n] == IF i = 0 THEN <<>> ELSE joined[i - 1] \o s[i]
    IN  joined[n]

INT_MAX == 2147483647

(***************************************************************************)
(* The bits of a word, as the set of the positions of its ones.            *)
(***************************************************************************)
Halved(n, b) ==
    LET half[i \in 0..b] == IF i = 0 THEN n ELSE half[i - 1] \div 2
    IN  half[b]

Bits(n) == {b \in 0..31 : Halved(n, b) % 2 = 1}
=============================================================================
