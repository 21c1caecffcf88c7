-------------------------- MODULE MCConnectionPool --------------------------
(* Small instances of ConnectionPool for TLC. *)
EXTENDS ConnectionPool, TLC

Interchangeable == Permutations(Workers) \cup Permutations(Conns) \cup Permutations(Keys)
=============================================================================
