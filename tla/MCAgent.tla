------------------------------ MODULE MCAgent ------------------------------
(* Every bound is small; the budgets put together what can interfere.      *)
EXTENDS Agent

CONSTANTS p, q, d, r1, r2, torn

Quiet == [peer |-> 0, local |-> 0, reconnect |-> 0, sample |-> 0, ask |-> 0, failure |-> 0, cancel |-> 0,
          restart |-> 0]

(* Both reasons to skip a path, and a route that passes.                   *)
MCPaths == {<<p, r1>>, <<p, r2>>, <<q, r1>>}

MCBudgets ==
  {[Quiet EXCEPT !.peer = 4],
   [Quiet EXCEPT !.peer = 2, !.reconnect = 1, !.cancel = 1],
   [Quiet EXCEPT !.peer = 2, !.local = 2, !.reconnect = 1],
   [Quiet EXCEPT !.peer = 3, !.failure = 1],
   [Quiet EXCEPT !.sample = 2, !.ask = 2, !.cancel = 1, !.restart = 1],
   [Quiet EXCEPT !.sample = 2, !.cancel = 2, !.failure = 1, !.restart = 2],
   [Quiet EXCEPT !.local = 2, !.cancel = 1]}
=============================================================================
