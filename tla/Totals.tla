------------------------------- MODULE Totals --------------------------------
(***************************************************************************)
(* The total of a list of amounts, as the books of the advisor add them up *)
(* (portfolio_balance, _sandbox_book).                                     *)
(***************************************************************************)
EXTENDS Integers, Sequences

Sum(s) ==
    LET upTo[i \in 0 .. Len(s)] == IF i = 0 THEN 0 ELSE upTo[i - 1] + s[i]
    IN  upTo[Len(s)]
=============================================================================
