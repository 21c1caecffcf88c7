--------------------------- MODULE MCClientChannel ---------------------------
(* Small instances of ClientChannel for TLC. *)
EXTENDS ClientChannel, TLC

Interchangeable == Permutations(Apps)
==============================================================================
