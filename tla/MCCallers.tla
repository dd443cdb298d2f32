------------------------------ MODULE MCCallers ------------------------------
EXTENDS Callers

(* Up to seven requests pipelined and up to five answers to each; sockets *)
(* of four frames are overrun by some of them.                             *)
MCScripts ==
  UnitTests
    \cup {Pipelined(n, m) : n \in 1 .. 7, m \in {1, 2, 3, 5}}
    \cup {Reconnecting(1, 4), Reconnecting(2, 2), Reconnecting(4, 1)}
    \cup {Overrunning(5, 1, 1), Overrunning(6, 1, 1), Overrunning(3, 2, 1), Overrunning(5, 2, 2)}
=============================================================================
