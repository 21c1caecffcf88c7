--------------------------- MODULE MCRequestServer ---------------------------
(***************************************************************************)
(* Small instances of RequestServer for TLC.  The pool is one protected    *)
(* method, for which two calls and two workers contend; MCStreamServer has *)
(* a pool of two methods.                                                  *)
(***************************************************************************)
EXTENDS RequestServer, TLC

CONSTANTS Sql, Login

OneMethod == <<Sql>>
Auth      == {Login}

\* The allocator hands out the lowest free address.  Which address an object
\* gets is visible to nothing, so one choice stands for all.
LowestFree(S) == {p \in S : \A q \in S : p <= q}

Interchangeable == Permutations(Workers) \cup Permutations(Calls)
==============================================================================
