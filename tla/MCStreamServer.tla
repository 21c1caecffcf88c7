---------------------------- MODULE MCStreamServer ----------------------------
(* The pool of the liveness run: a protected stream and a unary auth method. *)
EXTENDS StreamServer, TLC

CONSTANTS Feed, Login

MethodSeq == <<Feed, Login>>
Auth      == {Login}
Streams   == {Feed}

\* The allocator hands out the lowest free address.  Which address an object
\* gets is visible to nothing, so one choice stands for all.
LowestFree(S) == {p \in S : \A q \in S : p <= q}
===============================================================================
