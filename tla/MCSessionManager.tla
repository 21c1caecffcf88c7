-------------------------- MODULE MCSessionManager --------------------------
(* Small instances of SessionManager alone for TLC. *)
EXTENDS SessionManager, TLC

Interchangeable == Permutations(Logins)
=============================================================================
