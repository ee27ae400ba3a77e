------------------------------ MODULE MCExecArgs ------------------------------
(* Up to four arguments of lengths around a word and around the limits, and one *)
(* with a NUL inside.                                                           *)
EXTENDS ExecArgs

MCChar == {<<1, i, k>> : i \in 1 .. 4, k \in 1 .. 9}
Plain(i, n) == [k \in 1 .. n |-> <<1, i, k>>]
Broken == [Plain(1, 8) EXCEPT ![3] = NUL]
MCRequests ==
  {[i \in 1 .. n |-> Plain(i, f[i])] : n \in 0 .. 3, f \in [1 .. 3 -> {0, 7, 8, 9}]}
    \cup {<<Broken>>, <<Broken, Plain(2, 7)>>, [i \in 1 .. 4 |-> Plain(i, 1)]}
===============================================================================
