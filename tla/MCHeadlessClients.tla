--------------------------- MODULE MCHeadlessClients ---------------------------
(* Small instances of HeadlessClients: two clients of each kind contending *)
(* for one terminal, with two sizes to tell apart.                         *)
EXTENDS HeadlessClients, TLC

CONSTANTS a1, a2, p1, p2, s1, s2

Interchangeable ==
  Permutations({a1, a2}) \cup Permutations({p1, p2}) \cup Permutations({s1, s2})
================================================================================
