------------------------------ MODULE MCSymbols -----------------------------
(* Symbols for TLC: three addresses and two cells, backtraces of one and two *)
(* addresses, a recursion (an address twice) among them.                     *)
EXTENDS Symbols

CONSTANTS t1, t2, a, b, c

MCBacktraces == {<<a>>, <<a, b>>, <<b, c>>, <<c, c>>}
=============================================================================
