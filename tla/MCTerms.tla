------------------------------ MODULE MCTerms ------------------------------
(* Small amounts and deposits of one or two actions for Terms. *)
EXTENDS Terms

Mine(value) == [mine |-> TRUE, value |-> value]
Change(value) == [mine |-> FALSE, value |-> value]

\* A plain deposit, one with change before it or after it, two notes for the
\* wallet, the smallest amount that covers the players' fees and one less, and
\* the smallest collateral and one less.
MCBundles ==
    {<<Mine(9)>>, <<Change(8), Mine(7)>>, <<Mine(6), Change(1)>>, <<Mine(4), Mine(5)>>,
     <<Mine(5)>>, <<Change(9), Mine(4)>>}

=============================================================================
