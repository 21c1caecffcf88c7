--------------------------- MODULE MCKeptSession ---------------------------
(* Small instances of KeptSession, and so of SessionManager, for TLC.  The
   clients and the other users of the validator run side by side. *)
EXTENDS KeptSession, TLC

Interchangeable == Permutations(Logins)
=============================================================================
